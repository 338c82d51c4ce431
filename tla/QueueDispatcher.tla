-------------------------- MODULE QueueDispatcher --------------------------
(***************************************************************************)
(* queue_dispatcher of nqueue.h: the map of named queues, the main thread  *)
(* that pushes routed packets into them and executes the queue commands,   *)
(* and the worker thread that takes packets out through each queue's chain *)
(* of disciplines.                                                         *)
(*                                                                         *)
(* Every operation of the main thread runs inside one critical section of  *)
(* `lock', so it is one action, enabled while the worker does not hold the *)
(* lock.  The worker holds it for a whole pass over the map (pc = "pass")  *)
(* and the pass is modelled step by step: one step per discipline loop     *)
(* iteration and one per discipline decision, so that clock ticks and the  *)
(* stop request, which take no lock, interleave with it.                   *)
(***************************************************************************)
EXTENDS Qdisc

CONSTANTS
    QKeys,         \* queue names, as numbers ordered as std::map orders them
    Flows,         \* the classes of packets a filter can tell apart
    Filters,       \* the filters a filter command can install
    Configs,       \* the disciplines a command can ask for
    Limits,        \* the sizes a qsize command can ask for
    DefaultLimit,  \* packets(10240) in nqueue's constructor
    Garbage,       \* values the uninitialised last_ts can hold
    MaxTime,       \* bound: the clock stops here
    MaxPackets,    \* bound: packets pushed
    MaxDiscs       \* bound: length of a chain

ASSUME DispatcherAssumption ==
    /\ QKeys \subseteq Int
    /\ Filters \subseteq SUBSET Flows
    /\ Configs \subseteq Config
    /\ Limits \subseteq Nat
    /\ DefaultLimit \in Nat
    /\ Garbage \subseteq Int
    /\ MaxTime \in Nat /\ MaxPackets \in Nat /\ MaxDiscs \in Nat

VARIABLES
    now,          \* what timer.get_time() returns
    uid_base,     \* npacket::uid_base
    keys,         \* the names present in the map nq_list
    nq_list,      \* the queue of every name; NewQueue for an absent one
    should_stop,  \* manual-reset event
    new_packet,   \* auto-reset event
    pc,           \* where the worker is
    time,         \* the worker's local copy of the clock
    itr,          \* the names the worker's map iterator has still to visit
    i             \* the worker's index into qdisc_vec, from 1

vars == <<now, uid_base, keys, nq_list, should_stop, new_packet,
          pc, time, itr, i>>
worker == <<pc, time, itr, i>>

\* nqueue; `sent' and `last' are history: how many packets the worker has
\* transmitted from this queue, and the uid of the last one.
NQueue == [packets : PacketsT, discs : Seq(Disc), filter : SUBSET Flows,
           sent : Nat, last : Nat]

\* nqueue(): no discipline, and a filter that accepts every packet.
NewQueue == [packets |-> NewPackets(DefaultLimit), discs |-> <<>>,
             filter |-> Flows, sent |-> 0, last |-> 0]

PC == {"loop", "wait", "clock", "lock", "pass", "exited", "crashed"}

Init ==
    /\ now = 0
    /\ uid_base = 0
    /\ keys = {}
    /\ nq_list = [k \in QKeys |-> NewQueue]
    /\ should_stop = FALSE
    /\ new_packet = FALSE
    /\ pc = "loop"
    /\ time = 0
    /\ itr = {}
    /\ i = 1
-----------------------------------------------------------------------------
(***************************************************************************)
(* The main thread.                                                        *)
(***************************************************************************)

\* `lock' is free, the process is running and its main loop has not ended.
MainCanLock == pc \notin {"pass", "crashed"} /\ ~should_stop

Accepts(k, f) == k \in keys /\ f \in nq_list[k].filter

\* push: stamps the packet and gives it to the first queue, in map order,
\* whose filter accepts it; with no such queue the packet is transmitted at
\* once and no state but uid_base changes.
PushPacket(f, s) ==
    /\ MainCanLock
    /\ uid_base < MaxPackets
    /\ uid_base' = uid_base + 1
    /\ \/ \E k \in keys :
            /\ Accepts(k, f)
            /\ \A j \in keys : Accepts(j, f) => k <= j
            /\ nq_list' = [nq_list EXCEPT ![k].packets =
                    Push(@, [uid |-> uid_base + 1, in_time |-> now, size |-> s])]
            /\ new_packet' = TRUE
       \/ /\ \A k \in keys : ~Accepts(k, f)
          /\ UNCHANGED <<nq_list, new_packet>>
    /\ UNCHANGED <<now, keys, should_stop, worker>>

\* Commands index the map with operator[], which inserts a missing name.
Touch(k) ==
    /\ MainCanLock
    /\ keys' = keys \cup {k}
    /\ UNCHANGED <<now, uid_base, should_stop, new_packet, worker>>

SetQsize(k, n) ==
    /\ Touch(k)
    /\ nq_list' = [nq_list EXCEPT ![k].packets.limit = n]

SetFilter(k, f) ==
    /\ Touch(k)
    /\ nq_list' = [nq_list EXCEPT ![k].filter = f]

PushBackQdisc(k, c, g) ==
    /\ Touch(k)
    /\ Len(nq_list[k].discs) < MaxDiscs
    /\ nq_list' = [nq_list EXCEPT ![k].discs = Append(@, CreateQdisc(c, g))]

SetQdisc(k, n, c, g) ==
    /\ Touch(k)
    /\ n \in 1..Len(nq_list[k].discs)
    /\ nq_list' = [nq_list EXCEPT ![k].discs[n] = CreateQdisc(c, g)]

\* set with an index out of range, or either command with parameters
\* Create_qdisc rejects: the exception leaves the inserted name behind.
FailedCommand(k) == Touch(k) /\ UNCHANGED nq_list

\* Mistake: clear_queue does not take the lock.
ClearQueueUnlocked(k) ==
    /\ pc # "crashed" /\ ~should_stop
    /\ keys' = keys \ {k}
    /\ nq_list' = [nq_list EXCEPT ![k] = NewQueue]
    /\ UNCHANGED <<now, uid_base, should_stop, new_packet, worker>>

\* clear_queue erases the name with its filter, chain and packets.
ClearQueue(k) ==
    /\ MainCanLock
    /\ keys' = keys \ {k}
    /\ nq_list' = [nq_list EXCEPT ![k] = NewQueue]
    /\ UNCHANGED <<now, uid_base, should_stop, new_packet, worker>>

\* stop_join, from the destructor: sets the event without taking the lock.
Stop ==
    /\ pc # "crashed"
    /\ ~should_stop
    /\ should_stop' = TRUE
    /\ UNCHANGED <<now, uid_base, keys, nq_list, new_packet, worker>>

Command ==
    \E k \in QKeys :
        \/ \E n \in Limits : SetQsize(k, n)
        \/ \E f \in Filters : SetFilter(k, f)
        \/ \E c \in Configs, g \in Garbage : PushBackQdisc(k, c, g)
        \/ \E n \in 1..MaxDiscs, c \in Configs, g \in Garbage : SetQdisc(k, n, c, g)
        \/ FailedCommand(k)
        \/ ClearQueue(k)

Main == Command \/ Stop \/ \E f \in Flows, s \in Sizes : PushPacket(f, s)

-----------------------------------------------------------------------------
(***************************************************************************)
(* The worker thread, queue_dispatcher::main.                              *)
(***************************************************************************)

\* Mistake: a stopping worker first waits for its queues to empty.
LoopTestDrains ==
    /\ pc = "loop"
    /\ pc' = IF should_stop /\ \A k \in keys : nq_list[k].packets.fifo = <<>>
             THEN "exited" ELSE "wait"
    /\ UNCHANGED <<now, uid_base, keys, nq_list, should_stop, new_packet,
                   time, itr, i>>

\* while( !should_stop.isSignaled(0) )
LoopTest ==
    /\ pc = "loop"
    /\ pc' = IF should_stop THEN "exited" ELSE "wait"
    /\ UNCHANGED <<now, uid_base, keys, nq_list, should_stop, new_packet,
                   time, itr, i>>

\* new_packet.isSignaled(10): returns signaled, which resets the event, or
\* after the timeout; the result is not looked at.
WaitNewPacket ==
    /\ pc = "wait"
    /\ pc' = "clock"
    /\ new_packet' = FALSE
    /\ UNCHANGED <<now, uid_base, keys, nq_list, should_stop,
                   time, itr, i>>

\* time = timer.get_time(), before the lock is taken.
ReadClock ==
    /\ pc = "clock"
    /\ pc' = "lock"
    /\ time' = now
    /\ UNCHANGED <<now, uid_base, keys, nq_list, should_stop, new_packet,
                   itr, i>>

\* Take the lock and start at nq_list.begin().
BeginPass ==
    /\ pc = "lock"
    /\ pc' = "pass"
    /\ itr' = keys
    /\ i' = 1
    /\ UNCHANGED <<now, uid_base, keys, nq_list, should_stop, new_packet, time>>

\* itr == end(): release the lock.  The loop around the pass never runs a
\* second time, because its increment clears one_more_time.
EndPass ==
    /\ pc = "pass"
    /\ itr = {}
    /\ pc' = "loop"
    /\ UNCHANGED <<now, uid_base, keys, nq_list, should_stop, new_packet,
                   time, itr, i>>

\* packet_out is running for queue k.
At(k) == pc = "pass" /\ k \in itr /\ \A j \in itr : k <= j

fifo(k) == nq_list[k].packets.fifo

\* packet_out is at a discipline of this type.
Asking(k, type) ==
    /\ At(k)
    /\ i \in 1..Len(nq_list[k].discs)
    /\ nq_list[k].discs[i].type = type

\* can_pop returned true: on to the next discipline.
Admit ==
    /\ i' = i + 1
    /\ UNCHANGED <<pc, itr>>

\* packet_out returns: on to the next queue.
Leave(k) ==
    /\ itr' = itr \ {k}
    /\ i' = 1
    /\ UNCHANGED pc

\* One step of packet_out; what it leaves alone.
Frame == UNCHANGED <<now, uid_base, keys, should_stop, new_packet, time>>

\* An iteration of the loop in rloss_qdisc::can_pop.
RlossDraw(k) ==
    /\ Asking(k, "rloss")
    /\ Untested(nq_list[k].discs[i], nq_list[k].packets)
    /\ \E drop \in Lottery(nq_list[k].discs[i]) :
          nq_list' = [nq_list EXCEPT
            ![k].discs[i].last_uid = Head(fifo(k)).uid,
            ![k].packets = IF drop THEN DropFront(@) ELSE @]
    /\ UNCHANGED <<pc, itr, i>>
    /\ Frame

\* Mistakes: the verdict is always true; the verdict is inverted.
RlossDecideTrue(k) ==
    /\ Asking(k, "rloss")
    /\ ~Untested(nq_list[k].discs[i], nq_list[k].packets)
    /\ Admit
    /\ UNCHANGED nq_list
    /\ Frame
RlossDecideInverted(k) ==
    /\ Asking(k, "rloss")
    /\ ~Untested(nq_list[k].discs[i], nq_list[k].packets)
    /\ IF fifo(k) = <<>> THEN Admit ELSE Leave(k)
    /\ UNCHANGED nq_list
    /\ Frame

\* The loop is over: true unless the lottery emptied the queue.
RlossDecide(k) ==
    /\ Asking(k, "rloss")
    /\ ~Untested(nq_list[k].discs[i], nq_list[k].packets)
    /\ IF fifo(k) # <<>> THEN Admit ELSE Leave(k)
    /\ UNCHANGED nq_list
    /\ Frame

\* band_qdisc::can_pop with rate 0: true, whether or not a packet waits.
BandUnlimited(k) ==
    /\ Asking(k, "band")
    /\ nq_list[k].discs[i].rate <= 0
    /\ Admit
    /\ UNCHANGED nq_list
    /\ Frame

\* An iteration of the over-delay loop.  The quota is earned before the
\* loop; earning it in every step is the same, Accrue being idempotent.
BandDrop(k) ==
    /\ Asking(k, "band")
    /\ nq_list[k].discs[i].rate > 0
    /\ Overdue(nq_list[k].discs[i], time, nq_list[k].packets)
    /\ nq_list' = [nq_list EXCEPT ![k].discs[i] = Accrue(@, time),
                                  ![k].packets = DropFront(@)]
    /\ UNCHANGED <<pc, itr, i>>
    /\ Frame

\* A packet is let through, and charged, when any quota is left.
BandVerdict(k) ==
    /\ LET d == Accrue(nq_list[k].discs[i], time)
       IN  IF fifo(k) # <<>> /\ Affordable(d)
           THEN /\ nq_list' = [nq_list EXCEPT ![k].discs[i] = Charge(d, Head(fifo(k)))]
                /\ Admit
           ELSE /\ nq_list' = [nq_list EXCEPT ![k].discs[i] = d]
                /\ Leave(k)
    /\ Frame

\* Mistake: the over-delay loop is an `if', and may leave a late packet.
BandDecideEarly(k) ==
    /\ Asking(k, "band")
    /\ nq_list[k].discs[i].rate > 0
    /\ BandVerdict(k)

\* The over-delay loop is over.
BandDecide(k) ==
    /\ Asking(k, "band")
    /\ nq_list[k].discs[i].rate > 0
    /\ ~Overdue(nq_list[k].discs[i], time, nq_list[k].packets)
    /\ BandVerdict(k)

\* delay_qdisc::can_pop is false while a packet waits.  On an empty queue it
\* reads front(), which is undefined: the read may end the process, and
\* whatever it finds may be taken for either answer.
DelayDecide(k) ==
    /\ Asking(k, "delay")
    /\ \/ Leave(k)
       \/ fifo(k) = <<>> /\ Admit
       \/ fifo(k) = <<>> /\ pc' = "crashed" /\ UNCHANGED <<itr, i>>
    /\ UNCHANGED nq_list
    /\ Frame

\* A queue without disciplines: packet_out returns false at once.
NoQdisc(k) ==
    /\ At(k)
    /\ nq_list[k].discs = <<>>
    /\ Leave(k)
    /\ UNCHANGED nq_list
    /\ Frame

\* Every discipline said true: transport.send( packets.pop(time).data ).
\* pop() of an empty queue is undefined; the process is taken to end.
PacketOut(k) ==
    /\ At(k)
    /\ nq_list[k].discs # <<>>
    /\ i > Len(nq_list[k].discs)
    /\ IF fifo(k) # <<>>
       THEN /\ nq_list' = [nq_list EXCEPT
                    ![k].packets = Pop(@),
                    ![k].sent = @ + 1,
                    ![k].last = Head(fifo(k)).uid]
            /\ Leave(k)
       ELSE /\ pc' = "crashed"
            /\ UNCHANGED <<nq_list, itr, i>>
    /\ Frame

ChainStep(k) ==
    \/ RlossDraw(k) \/ RlossDecide(k)
    \/ BandUnlimited(k) \/ BandDrop(k) \/ BandDecide(k)
    \/ DelayDecide(k)
    \/ NoQdisc(k) \/ PacketOut(k)

Worker ==
    \/ LoopTest \/ WaitNewPacket \/ ReadClock \/ BeginPass \/ EndPass
    \/ \E k \in QKeys : ChainStep(k)

Tick ==
    /\ now < MaxTime
    /\ now' = now + 1
    /\ UNCHANGED <<uid_base, keys, nq_list, should_stop, new_packet, worker>>

Next == Main \/ Worker \/ Tick

\* The worker is a runnable thread and the clock advances; nothing is
\* assumed of the main thread.
Spec == Init /\ [][Next]_vars /\ WF_vars(Worker) /\ WF_vars(Tick)
-----------------------------------------------------------------------------
(***************************************************************************)
(* Properties.                                                             *)
(***************************************************************************)

\* Every variable has its type.
TypeOK ==
    /\ now \in Nat
    /\ uid_base \in Nat
    /\ keys \subseteq QKeys
    /\ nq_list \in [QKeys -> NQueue]
    /\ should_stop \in BOOLEAN
    /\ new_packet \in BOOLEAN
    /\ pc \in PC
    /\ time \in Nat
    /\ itr \subseteq QKeys
    /\ i \in Nat \ {0}

\* While the worker walks the map, every name it has still to visit is in
\* the map and its index is at most one past the chain it walks, and an
\* erased queue is as good as new: no command can erase the node the
\* worker's iterator stands on or shrink the chain under its index.
IteratorValid ==
    /\ pc = "pass" =>
        /\ itr \subseteq keys
        /\ \A k \in itr : At(k) => i <= Len(nq_list[k].discs) + 1
    /\ \A k \in QKeys \ keys : nq_list[k] = NewQueue

\* Packets wait in the order they arrived in, by uid and by time stamp, and
\* every one of them is newer than the last one transmitted from its queue:
\* whatever the disciplines drop, a queue neither reorders nor repeats.
ArrivalOrder ==
    \A k \in QKeys :
        /\ nq_list[k].last <= uid_base
        /\ \A n \in 1..Len(fifo(k)) :
            /\ nq_list[k].last < fifo(k)[n].uid
            /\ fifo(k)[n].uid <= uid_base
            /\ fifo(k)[n].in_time <= now
            /\ \A m \in 1..Len(fifo(k)) : m < n =>
                /\ fifo(k)[m].uid < fifo(k)[n].uid
                /\ fifo(k)[m].in_time <= fifo(k)[n].in_time

\* Every packet counted in is waiting, counted lost, or has been
\* transmitted, and each only once, however tail drops, lottery drops and
\* over-delay drops mix.
Conservation ==
    \A k \in QKeys : LET q == nq_list[k] IN
        q.packets.in = q.sent + q.packets.lost + Len(q.packets.fifo)

\* The bytes of the packets of a FIFO, counted from its front.
DataSize(s) ==
    LET sum[n \in 0..Len(s)] == IF n = 0 THEN 0 ELSE sum[n - 1] + s[n].size
    IN  sum[Len(s)]

\* _total_data_size is the number of bytes waiting, although push, pop and
\* drop_front keep it each for itself, so that the unsigned subtraction in
\* pop() never wraps.
ByteAccounting ==
    \A k \in QKeys : nq_list[k].packets.total = DataSize(fifo(k))

\* A queue never holds more than one packet beyond a limit it was given.
LimitBound ==
    \A k \in QKeys :
        \/ nq_list[k].packets.total <= 0
        \/ \E n \in Limits \cup {DefaultLimit}, s \in Sizes :
              nq_list[k].packets.total <= n + s

\* A band never owes more than one packet and never saves up more than its
\* burst, whatever its uninitialised time stamp held.
QuotaBound ==
    \A k \in QKeys : \A n \in 1..Len(nq_list[k].discs) :
        LET d == nq_list[k].discs[n] IN
        d.type = "band" =>
            /\ d.quota <= d.burst
            /\ \/ d.quota >= 0
               \/ \E s \in Sizes : d.quota > 14 - s

\* No packet faces the same lottery twice: an rloss discipline has drawn for
\* nothing behind the front packet, although disciplines around it drop and
\* send packets between its draws and it is reached only on some passes.
LotteryOnce ==
    \A k \in QKeys : \A n \in 1..Len(nq_list[k].discs) :
        LET d == nq_list[k].discs[n] IN
        d.type = "rloss" =>
            /\ d.last_uid <= uid_base
            /\ fifo(k) # <<>> => d.last_uid <= Head(fifo(k)).uid

\* The disciplines that only let a packet through when there is one.
NeedsPacket(d) == d.type = "rloss" \/ (d.type = "band" /\ d.rate > 0)

\* pop() is never called on an empty queue by a chain that has a lossy or a
\* rate-limiting discipline anywhere in it, although later disciplines of
\* the chain go on dropping packets after an earlier one has said true.
PopsAPacket ==
    \A k \in itr :
        /\ At(k)
        /\ i > Len(nq_list[k].discs)
        /\ \E n \in 1..Len(nq_list[k].discs) : NeedsPacket(nq_list[k].discs[n])
        => fifo(k) # <<>>

\* The front packet is within max_delay of every rate-limiting discipline
\* that has said true, although later disciplines may have dropped the
\* packet that one looked at: the packets behind it are no older.
WithinMaxDelay ==
    \A k \in itr : At(k) =>
        \A n \in 1..Len(nq_list[k].discs) :
            LET d == nq_list[k].discs[n] IN
            n < i /\ d.type = "band" /\ d.rate > 0
                => ~Overdue(d, time, nq_list[k].packets)

Uids(s) == [n \in DOMAIN s |-> s[n].uid]

\* Every named queue is a LossyFifo, whatever the disciplines in its chain.
Promise == INSTANCE LossyFifo WITH
    Names <- QKeys,
    latest <- uid_base,
    waiting <- [k \in QKeys |-> Uids(fifo(k))],
    delivered <- [k \in QKeys |-> nq_list[k].last]

\* The refinement: no step of the worker or of a command takes a packet out
\* of the middle or the end of a queue, moves it to another queue, delivers
\* it twice or delivers it late.
LossyFifoPromise == Promise!Spec

Waiting(k, u) == \E n \in 1..Len(fifo(k)) : fifo(k)[n].uid = u
Over == should_stop \/ pc = "crashed"

OnlyLossy(k) ==
    /\ nq_list[k].discs # <<>>
    /\ \A n \in 1..Len(nq_list[k].discs) : nq_list[k].discs[n].type = "rloss"

\* A packet in a queue whose chain is all lotteries leaves it, transmitted,
\* dropped or erased with the queue, unless a command changes the chain or
\* the gateway is stopped first: no pass starves a queue, however many packets
\* arrive, and no lottery goes on forever.
LossyQueueDrains ==
    \A k \in QKeys, u \in 1..MaxPackets :
        Waiting(k, u) /\ OnlyLossy(k) ~> ~Waiting(k, u) \/ ~OnlyLossy(k) \/ Over

\* stop_join returns: once the stop event is set the worker ends.
StopJoins == should_stop ~> pc \in {"exited", "crashed"}

\* Packet u waits in queue k, whose chain is one delay discipline, and has
\* waited for its delay.
DelayOver(k, u) ==
    /\ Len(nq_list[k].discs) = 1
    /\ nq_list[k].discs[1].type = "delay"
    /\ \E n \in 1..Len(fifo(k)) :
          /\ fifo(k)[n].uid = u
          /\ now - fifo(k)[n].in_time >= nq_list[k].discs[1].delay

\* Such a packet is released.
DelayReleases ==
    \A k \in QKeys, u \in 1..MaxPackets : DelayOver(k, u) ~> ~Waiting(k, u) \/ Over
=============================================================================
