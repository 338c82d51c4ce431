-------------------------- MODULE PacketsRawQueue --------------------------
(***************************************************************************)
(* The byte-limited packet FIFO of nqueue.h (class packets_raw_queue) as   *)
(* operators on one queue value.  nqueue owns one such value; the state    *)
(* machine that keeps it is QueueDispatcher.                               *)
(*                                                                         *)
(* The windowed rate counters of statistics.h are abstracted to how many   *)
(* packets each of them has been given: in_packets, out_packets and        *)
(* packets_lost.                                                           *)
(***************************************************************************)
EXTENDS Integers, Sequences

CONSTANT Sizes        \* the data.size() a captured frame can have

\* A frame has its Ethernet header, which is 14 bytes long.
ASSUME SizesAssumption == Sizes \subseteq Nat /\ \A s \in Sizes : s >= 14

\* npacket: the payload is abstracted to its size.
Packet == [uid : Nat \ {0}, in_time : Nat, size : Sizes]

\* packets_raw_queue<npacket>: `total' is _total_data_size, `limit' is
\* total_limit; in/out/lost count the packets handed to the statistics.
PacketsT == [fifo : Seq(Packet), total : Int, limit : Nat,
             in : Nat, out : Nat, lost : Nat]

\* The constructor.
NewPackets(limit) ==
    [fifo |-> <<>>, total |-> 0, limit |-> limit, in |-> 0, out |-> 0, lost |-> 0]

\* Mistakes in push: the newest packet becomes the front; the bytes of a
\* refused packet are counted; the limit is not looked at.
PushOnTop(pq, p) ==
    [pq EXCEPT !.in = @ + 1, !.fifo = <<p>> \o @, !.total = @ + p.size]
PushCountsRefused(pq, p) ==
    IF pq.total > pq.limit
    THEN [pq EXCEPT !.in = @ + 1, !.lost = @ + 1, !.total = @ + p.size]
    ELSE [pq EXCEPT !.in = @ + 1, !.fifo = Append(@, p), !.total = @ + p.size]
PushUnlimited(pq, p) ==
    [pq EXCEPT !.in = @ + 1, !.fifo = Append(@, p), !.total = @ + p.size]

\* push: the limit is compared before the packet is added, so the packet
\* that crosses it is still accepted.
Push(pq, p) ==
    IF pq.total > pq.limit
    THEN [pq EXCEPT !.in = @ + 1, !.lost = @ + 1]
    ELSE [pq EXCEPT !.in = @ + 1, !.fifo = Append(@, p), !.total = @ + p.size]

\* Mistake: the packet is sent and stays in the queue.
PopKeepsFront(pq) == [pq EXCEPT !.out = @ + 1]

\* pop: the caller has made sure the queue is not empty.
Pop(pq) ==
    [pq EXCEPT !.out = @ + 1, !.total = @ - Head(pq.fifo).size, !.fifo = Tail(@)]

\* Mistakes in drop_front: the loss is not counted; the newest packet goes.
DropFrontUncounted(pq) == Pop(pq)
DropBack(pq) ==
    LET n == Len(pq.fifo) IN
    [pq EXCEPT !.out = @ + 1, !.lost = @ + 1,
               !.total = @ - pq.fifo[n].size, !.fifo = SubSeq(@, 1, n - 1)]

\* drop_front: the packet is counted as lost and then popped, which counts
\* it as sent out as well.
DropFront(pq) == [Pop(pq) EXCEPT !.lost = @ + 1]
=============================================================================
