----------------------- MODULE QueueDispatcherProofs -----------------------
(***************************************************************************)
(* Proofs about QueueDispatcher, for every value of its constants: its     *)
(* types, that the queues keep the order of arrival, that they implement   *)
(* LossyFifo, the accounting of packets and bytes, the bounds of the limit *)
(* and the quotas, the lottery, the worker's iterator, and what holds      *)
(* while packet_out is on its way through a chain.                         *)
(*                                                                         *)
(* NextShape says what a step does to the FIFOs and to the last delivered  *)
(* packets; the order and the refinement follow from it.  QueueStep says   *)
(* what a step can do to one queue; the invariants of a single queue       *)
(* follow from that alone.                                                 *)
(***************************************************************************)
EXTENDS QueueDispatcher, TLAPS, WellFoundedInduction

-----------------------------------------------------------------------------
(***************************************************************************)
(* Types of the operators the actions are built from.                      *)
(***************************************************************************)

LEMMA SizeType ==
    ASSUME NEW p \in Packet
    PROVE  p.size \in Int
<1>1. p.size \in Sizes
  BY DEF Packet
<1>2. p.size \in Nat
  BY <1>1, SizesAssumption, Zenon
<1> QED
  BY <1>2

LEMMA NewPacketsType ==
    ASSUME NEW n \in Nat
    PROVE  NewPackets(n) \in PacketsT
BY DEF NewPackets, PacketsT

LEMMA NewQueueType == NewQueue \in NQueue
<1>1. NewPackets(DefaultLimit) \in PacketsT
  BY NewPacketsType, DispatcherAssumption
<1> QED
  BY <1>1 DEF NewQueue, NQueue

LEMMA PushType ==
    ASSUME NEW pq \in PacketsT, NEW p \in Packet
    PROVE  Push(pq, p) \in PacketsT
<1>1. /\ pq.in + 1 \in Nat
      /\ pq.lost + 1 \in Nat
      /\ pq.total \in Int
      /\ Append(pq.fifo, p) \in Seq(Packet)
  BY DEF PacketsT
<1>2. pq.total + p.size \in Int
  BY <1>1, SizeType
<1> QED
  BY <1>1, <1>2, Zenon DEF Push, PacketsT

LEMMA PopType ==
    ASSUME NEW pq \in PacketsT, pq.fifo # <<>>
    PROVE  Pop(pq) \in PacketsT /\ DropFront(pq) \in PacketsT
<1>1. /\ pq.fifo \in Seq(Packet)
      /\ pq.total \in Int
      /\ pq.out + 1 \in Nat
      /\ pq.lost + 1 \in Nat
  BY DEF PacketsT
<1>2. Tail(pq.fifo) \in Seq(Packet) /\ Head(pq.fifo) \in Packet
  BY <1>1
<1>3. pq.total - Head(pq.fifo).size \in Int
  BY <1>1, <1>2, SizeType
<1>4. Pop(pq) \in PacketsT
  BY <1>1, <1>2, <1>3, Zenon DEF Pop, PacketsT
<1>5. Pop(pq).lost = pq.lost
  BY Zenon DEF Pop, PacketsT
<1> QED
  BY <1>1, <1>4, <1>5, Zenon DEF DropFront, PacketsT

LEMMA CreateType ==
    ASSUME NEW c \in Configs, NEW g \in Garbage
    PROVE  CreateQdisc(c, g) \in Disc
<1>1. c \in Config /\ g \in Int
  BY DispatcherAssumption
<1>2. CASE c \in [type : {"rloss"}, rloss : Nat]
  BY <1>2 DEF CreateQdisc, Disc, Rloss
<1>3. CASE c \in [type : {"band"}, rate : Nat, burst : Nat, max_delay : Nat]
  BY <1>1, <1>3 DEF CreateQdisc, Disc, Band
<1>4. CASE c \in [type : {"delay"}, delay : Nat]
  BY <1>4 DEF CreateQdisc, Disc, Delay
<1> QED
  BY <1>1, <1>2, <1>3, <1>4 DEF Config

LEMMA AccrueType ==
    ASSUME NEW d \in Band, NEW t \in Nat
    PROVE  Accrue(d, t) \in Band
<1> DEFINE earned == (AbsVal(t - d.last_ts) * d.rate) \div 1000
           quota == Least(d.burst, d.quota + earned)
<1>1. AbsVal(t - d.last_ts) * d.rate \in Int
  BY DEF AbsVal, Band
<1>2. earned \in Int
  BY <1>1
<1>3. quota \in Int /\ t \in Int
  BY <1>2 DEF Least, Band
<1>4. Accrue(d, t) = [d EXCEPT !.quota = quota, !.last_ts = t]
  BY DEF Accrue
<1> HIDE DEF quota
<1> QED
  BY <1>3, <1>4, Zenon DEF Band

LEMMA ChargeType ==
    ASSUME NEW d \in Band, NEW p \in Packet
    PROVE  Charge(d, p) \in Band
<1>1. d.quota \in Int
  BY DEF Band
<1>2. d.quota - (p.size - 14) \in Int
  BY <1>1, SizeType
<1> QED
  BY <1>2, Zenon DEF Charge, Band

-----------------------------------------------------------------------------
(***************************************************************************)
(* Type correctness.                                                       *)
(***************************************************************************)

LEMMA SetPacketsType ==
    ASSUME NEW f \in [QKeys -> NQueue], NEW k \in QKeys, NEW p \in PacketsT
    PROVE  [f EXCEPT ![k].packets = p] \in [QKeys -> NQueue]
<1>1. [f[k] EXCEPT !.packets = p] \in NQueue
  BY Zenon DEF NQueue
<1> QED
  BY <1>1, Zenon

LEMMA SetDiscsType ==
    ASSUME NEW f \in [QKeys -> NQueue], NEW k \in QKeys, NEW s \in Seq(Disc)
    PROVE  [f EXCEPT ![k].discs = s] \in [QKeys -> NQueue]
<1>1. [f[k] EXCEPT !.discs = s] \in NQueue
  BY Zenon DEF NQueue
<1> QED
  BY <1>1, Zenon

LEMMA SetDiscType ==
    ASSUME NEW f \in [QKeys -> NQueue], NEW k \in QKeys,
           NEW n \in 1..Len(f[k].discs), NEW d \in Disc
    PROVE  [f EXCEPT ![k].discs[n] = d] \in [QKeys -> NQueue]
<1>1. f[k].discs \in Seq(Disc)
  BY DEF NQueue
<1>2. [f[k].discs EXCEPT ![n] = d] \in Seq(Disc)
  BY <1>1
<1>3. [f[k] EXCEPT !.discs = [f[k].discs EXCEPT ![n] = d]] \in NQueue
  BY <1>2, Zenon DEF NQueue
<1> QED
  BY <1>3, Zenon

LEMMA InitType == Init => TypeOK
<1>1. [k \in QKeys |-> NewQueue] \in [QKeys -> NQueue]
  BY NewQueueType, Zenon
<1>2. SUFFICES ASSUME Init PROVE TypeOK
  OBVIOUS
<1>3. nq_list \in [QKeys -> NQueue]
  BY <1>1, <1>2, Zenon DEF Init
<1>4. /\ now = 0 /\ uid_base = 0 /\ keys = {} /\ should_stop = FALSE
      /\ new_packet = FALSE /\ pc = "loop" /\ time = 0 /\ itr = {} /\ i = 1
  BY <1>2 DEF Init
<1>5. should_stop \in BOOLEAN /\ new_packet \in BOOLEAN
  BY <1>4
<1>6. now \in Nat /\ uid_base \in Nat /\ time \in Nat /\ i \in Nat \ {0}
  BY <1>4
<1>7. keys \subseteq QKeys /\ itr \subseteq QKeys /\ pc \in PC
  BY <1>4 DEF PC
<1> QED
  BY <1>3, <1>5, <1>6, <1>7 DEF TypeOK

LEMMA TickType == TypeOK /\ Tick => TypeOK'
BY DEF TypeOK, Tick, worker

LEMMA StopType == TypeOK /\ Stop => TypeOK'
BY DEF TypeOK, Stop, worker

LEMMA PushPacketType ==
    ASSUME TypeOK, NEW f \in Flows, NEW s \in Sizes, PushPacket(f, s)
    PROVE  TypeOK'
<1> DEFINE p == [uid |-> uid_base + 1, in_time |-> now, size |-> s]
<1>1. p \in Packet
  BY DEF Packet, TypeOK
<1>2. nq_list' \in [QKeys -> NQueue] /\ new_packet' \in BOOLEAN
  <2>1. CASE UNCHANGED <<nq_list, new_packet>>
    BY <2>1 DEF TypeOK
  <2>2. ASSUME NEW k \in keys,
               nq_list' = [nq_list EXCEPT ![k].packets = Push(@, p)],
               new_packet' = TRUE
        PROVE  nq_list' \in [QKeys -> NQueue] /\ new_packet' \in BOOLEAN
    <3>1. k \in QKeys /\ nq_list[k].packets \in PacketsT
      BY DEF TypeOK, NQueue
    <3>2. Push(nq_list[k].packets, p) \in PacketsT
      BY <1>1, <3>1, PushType
    <3> HIDE DEF p
    <3> QED
      BY <2>2, <3>1, <3>2, SetPacketsType, Zenon DEF TypeOK
  <2> QED
    BY <2>1, <2>2 DEF PushPacket
<1> QED
  BY <1>2 DEF TypeOK, PushPacket, worker

LEMMA CommandType ==
    ASSUME TypeOK, Command
    PROVE  TypeOK'
<1> SUFFICES ASSUME NEW k \in QKeys,
                    \/ \E n \in Limits : SetQsize(k, n)
                    \/ \E f \in Filters : SetFilter(k, f)
                    \/ \E c \in Configs, g \in Garbage : PushBackQdisc(k, c, g)
                    \/ \E n \in 1..MaxDiscs, c \in Configs, g \in Garbage :
                          SetQdisc(k, n, c, g)
                    \/ FailedCommand(k)
                    \/ ClearQueue(k)
             PROVE  TypeOK'
  BY DEF Command
<1>1. /\ nq_list[k].packets \in PacketsT
      /\ nq_list[k].discs \in Seq(Disc)
      /\ nq_list[k] \in NQueue
      /\ nq_list \in [QKeys -> NQueue]
  BY DEF TypeOK, NQueue
<1>2. nq_list' \in [QKeys -> NQueue]
  <2>1. ASSUME NEW n \in Limits, SetQsize(k, n)
        PROVE  nq_list' \in [QKeys -> NQueue]
    <3>1. n \in Nat
      BY DispatcherAssumption
    <3>2. [nq_list[k].packets EXCEPT !.limit = n] \in PacketsT
      BY <1>1, <3>1, Zenon DEF PacketsT
    <3> QED
      BY <1>1, <2>1, <3>2, SetPacketsType, Zenon DEF SetQsize
  <2>2. ASSUME NEW f \in Filters, SetFilter(k, f)
        PROVE  nq_list' \in [QKeys -> NQueue]
    <3>1. f \in SUBSET Flows
      BY DispatcherAssumption
    <3>2. [nq_list[k] EXCEPT !.filter = f] \in NQueue
      BY <1>1, <3>1, Zenon DEF NQueue
    <3> QED
      BY <1>1, <2>2, <3>2, Zenon DEF SetFilter
  <2>3. ASSUME NEW c \in Configs, NEW g \in Garbage, PushBackQdisc(k, c, g)
        PROVE  nq_list' \in [QKeys -> NQueue]
    <3>1. Append(nq_list[k].discs, CreateQdisc(c, g)) \in Seq(Disc)
      BY <1>1, CreateType
    <3> QED
      BY <1>1, <2>3, <3>1, SetDiscsType, Zenon DEF PushBackQdisc
  <2>4. ASSUME NEW n \in 1..MaxDiscs, NEW c \in Configs, NEW g \in Garbage,
               SetQdisc(k, n, c, g)
        PROVE  nq_list' \in [QKeys -> NQueue]
    <3>1. n \in 1..Len(nq_list[k].discs)
      BY <2>4 DEF SetQdisc
    <3> QED
      BY <1>1, <2>4, <3>1, CreateType, SetDiscType, Zenon DEF SetQdisc
  <2>5. CASE FailedCommand(k)
    BY <1>1, <2>5 DEF FailedCommand
  <2>6. CASE ClearQueue(k)
    BY <1>1, <2>6, NewQueueType, Zenon DEF ClearQueue
  <2> QED
    BY <2>1, <2>2, <2>3, <2>4, <2>5, <2>6
<1>3. /\ keys' \subseteq QKeys
      /\ UNCHANGED <<now, uid_base, should_stop, new_packet, worker>>
  BY DEF TypeOK, SetQsize, SetFilter, PushBackQdisc, SetQdisc, FailedCommand,
         ClearQueue, Touch
<1> QED
  BY <1>2, <1>3 DEF TypeOK, worker

\* The discipline packet_out is at, and its type.
LEMMA AtDisc ==
    ASSUME TypeOK, NEW k \in QKeys, NEW type, Asking(k, type)
    PROVE  /\ nq_list[k] \in NQueue
           /\ nq_list[k].packets \in PacketsT
           /\ fifo(k) \in Seq(Packet)
           /\ nq_list[k].discs \in Seq(Disc)
           /\ nq_list[k].discs[i] \in Disc
           /\ type = "rloss" => nq_list[k].discs[i] \in Rloss
           /\ type = "band" => nq_list[k].discs[i] \in Band
<1>1. nq_list[k] \in NQueue /\ i \in 1..Len(nq_list[k].discs)
  BY DEF TypeOK, Asking
<1>2. nq_list[k].discs \in Seq(Disc) /\ nq_list[k].packets \in PacketsT
  BY <1>1 DEF NQueue
<1>3. nq_list[k].discs[i] \in Disc /\ nq_list[k].discs[i].type = type
  BY <1>1, <1>2 DEF Asking
<1>4. fifo(k) \in Seq(Packet)
  BY <1>2 DEF fifo, PacketsT
<1>5. type = "rloss" => nq_list[k].discs[i] \in Rloss
  BY <1>3 DEF Disc, Rloss, Band, Delay
<1>6. type = "band" => nq_list[k].discs[i] \in Band
  BY <1>3 DEF Disc, Rloss, Band, Delay
<1> QED
  BY <1>1, <1>2, <1>3, <1>4, <1>5, <1>6

LEMMA LeaveType ==
    ASSUME TypeOK, NEW k, Leave(k)
    PROVE  itr' \subseteq QKeys /\ i' \in Nat \ {0} /\ pc' \in PC
BY DEF TypeOK, Leave

LEMMA AdmitType ==
    ASSUME TypeOK, Admit
    PROVE  itr' \subseteq QKeys /\ i' \in Nat \ {0} /\ pc' \in PC
BY DEF TypeOK, Admit

LEMMA RlossDrawType ==
    ASSUME TypeOK, NEW k \in QKeys, RlossDraw(k)
    PROVE  TypeOK'
<1> DEFINE d == nq_list[k].discs[i]
           f == [nq_list EXCEPT ![k].discs[i].last_uid = Head(fifo(k)).uid]
<1>1. PICK drop \in BOOLEAN :
        nq_list' = [nq_list EXCEPT
            ![k].discs[i].last_uid = Head(fifo(k)).uid,
            ![k].packets = IF drop THEN DropFront(@) ELSE @]
  BY DEF RlossDraw, Lottery
<1>2. /\ d \in Rloss
      /\ nq_list[k].packets \in PacketsT
      /\ fifo(k) \in Seq(Packet)
      /\ i \in 1..Len(nq_list[k].discs)
      /\ nq_list \in [QKeys -> NQueue]
  BY AtDisc DEF RlossDraw, Asking, TypeOK
<1>3. fifo(k) # <<>>
  BY DEF RlossDraw, Untested, fifo
<1>4. Head(fifo(k)) \in Packet
  BY <1>2, <1>3
<1>5. Head(fifo(k)).uid \in Nat
  BY <1>4 DEF Packet
<1>6. [d EXCEPT !.last_uid = Head(fifo(k)).uid] \in Disc
  BY <1>2, <1>5 DEF Rloss, Disc
<1>7. f \in [QKeys -> NQueue]
  BY <1>2, <1>6, SetDiscType, Zenon
<1>8. DropFront(nq_list[k].packets) \in PacketsT
  BY <1>2, <1>3, PopType DEF fifo
<1>9. f[k].packets = nq_list[k].packets
  BY <1>2, Zenon DEF NQueue
<1>10. nq_list' \in [QKeys -> NQueue]
  <2>1. CASE drop
    <3>1. nq_list' = [f EXCEPT ![k].packets = DropFront(@)]
      BY <1>1, <2>1
    <3> QED
      BY <1>7, <1>8, <1>9, <3>1, SetPacketsType, Zenon
  <2>2. CASE ~drop
    <3>1. nq_list' = [f EXCEPT ![k].packets = @]
      BY <1>1, <2>2
    <3> QED
      BY <1>2, <1>7, <1>9, <3>1, SetPacketsType, Zenon
  <2> QED
    BY <2>1, <2>2
<1> QED
  BY <1>10 DEF RlossDraw, TypeOK, Frame

LEMMA BandDropType ==
    ASSUME TypeOK, NEW k \in QKeys, BandDrop(k)
    PROVE  TypeOK'
<1> DEFINE d == nq_list[k].discs[i]
           f == [nq_list EXCEPT ![k].discs[i] = Accrue(d, time)]
<1>1. nq_list' = [f EXCEPT ![k].packets = DropFront(@)]
  BY DEF BandDrop
<1>2. /\ d \in Band
      /\ nq_list[k].packets \in PacketsT
      /\ i \in 1..Len(nq_list[k].discs)
      /\ nq_list \in [QKeys -> NQueue]
      /\ time \in Nat
  BY AtDisc DEF BandDrop, Asking, TypeOK
<1>3. Accrue(d, time) \in Disc
  BY <1>2, AccrueType DEF Disc
<1>4. f \in [QKeys -> NQueue]
  BY <1>2, <1>3, SetDiscType, Zenon
<1>5. DropFront(nq_list[k].packets) \in PacketsT
  BY <1>2, PopType DEF BandDrop, Overdue
<1>6. f[k].packets = nq_list[k].packets
  BY <1>2, Zenon DEF NQueue
<1>7. nq_list' \in [QKeys -> NQueue]
  BY <1>1, <1>4, <1>5, <1>6, SetPacketsType, Zenon
<1> QED
  BY <1>7 DEF BandDrop, TypeOK, Frame

LEMMA BandDecideType ==
    ASSUME TypeOK, NEW k \in QKeys, BandDecide(k)
    PROVE  TypeOK'
<1> DEFINE d == Accrue(nq_list[k].discs[i], time)
<1>1. /\ nq_list[k].discs[i] \in Band
      /\ fifo(k) \in Seq(Packet)
      /\ i \in 1..Len(nq_list[k].discs)
      /\ nq_list \in [QKeys -> NQueue]
      /\ time \in Nat
  BY AtDisc DEF BandDecide, Asking, TypeOK
<1>2. d \in Band
  BY <1>1, AccrueType
<1> HIDE DEF d
<1>3. CASE /\ fifo(k) # <<>>
           /\ nq_list' = [nq_list EXCEPT ![k].discs[i] = Charge(d, Head(fifo(k)))]
           /\ Admit
  <2>1. Charge(d, Head(fifo(k))) \in Disc
    BY <1>1, <1>2, <1>3, ChargeType DEF Disc
  <2>2. nq_list' \in [QKeys -> NQueue]
    BY <1>1, <1>3, <2>1, SetDiscType, Zenon
  <2> QED
    BY <1>3, <2>2, AdmitType DEF BandDecide, BandVerdict, TypeOK, Frame
<1>4. CASE nq_list' = [nq_list EXCEPT ![k].discs[i] = d] /\ Leave(k)
  <2>1. d \in Disc
    BY <1>2 DEF Disc
  <2>2. nq_list' \in [QKeys -> NQueue]
    BY <1>1, <1>4, <2>1, SetDiscType, Zenon
  <2> QED
    BY <1>4, <2>2, LeaveType DEF BandDecide, BandVerdict, TypeOK, Frame
<1> QED
  BY <1>3, <1>4 DEF BandDecide, BandVerdict, d

LEMMA PacketOutType ==
    ASSUME TypeOK, NEW k \in QKeys, PacketOut(k)
    PROVE  TypeOK'
<1>1. nq_list[k] \in NQueue /\ nq_list \in [QKeys -> NQueue]
  BY DEF TypeOK
<1>2. /\ nq_list[k].packets \in PacketsT
      /\ fifo(k) \in Seq(Packet)
      /\ nq_list[k].sent + 1 \in Nat
  BY <1>1 DEF NQueue, PacketsT, fifo
<1>3. CASE fifo(k) # <<>>
  <2>1. Pop(nq_list[k].packets) \in PacketsT
    BY <1>2, <1>3, PopType DEF fifo
  <2>2. Head(fifo(k)).uid \in Nat
    <3>1. Head(fifo(k)) \in Packet
      BY <1>2, <1>3
    <3> QED
      BY <3>1 DEF Packet
  <2>3. [nq_list[k] EXCEPT !.packets = Pop(nq_list[k].packets),
                           !.sent = nq_list[k].sent + 1,
                           !.last = Head(fifo(k)).uid] \in NQueue
    BY <1>1, <1>2, <2>1, <2>2, Zenon DEF NQueue
  <2>4. nq_list' \in [QKeys -> NQueue]
    BY <1>1, <1>3, <2>3, Zenon DEF PacketOut
  <2>5. Leave(k)
    BY <1>3 DEF PacketOut
  <2> QED
    BY <2>4, <2>5, LeaveType DEF PacketOut, TypeOK, Frame
<1>4. CASE fifo(k) = <<>>
  BY <1>4 DEF PacketOut, TypeOK, Frame, PC
<1> QED
  BY <1>3, <1>4

LEMMA ChainStepType ==
    ASSUME TypeOK, NEW k \in QKeys, ChainStep(k)
    PROVE  TypeOK'
<1>1. CASE RlossDraw(k)
  BY <1>1, RlossDrawType
<1>2. CASE RlossDecide(k)
  BY <1>2, AdmitType, LeaveType DEF RlossDecide, TypeOK, Frame
<1>3. CASE BandUnlimited(k)
  BY <1>3, AdmitType DEF BandUnlimited, TypeOK, Frame
<1>4. CASE BandDrop(k)
  BY <1>4, BandDropType
<1>5. CASE BandDecide(k)
  BY <1>5, BandDecideType
<1>6. CASE DelayDecide(k)
  <2>1. itr' \subseteq QKeys /\ i' \in Nat \ {0} /\ pc' \in PC
    BY <1>6, AdmitType, LeaveType DEF DelayDecide, TypeOK, PC
  <2> QED
    BY <1>6, <2>1 DEF DelayDecide, TypeOK, Frame
<1>7. CASE NoQdisc(k)
  BY <1>7, LeaveType DEF NoQdisc, TypeOK, Frame
<1>8. CASE PacketOut(k)
  BY <1>8, PacketOutType
<1> QED
  BY <1>1, <1>2, <1>3, <1>4, <1>5, <1>6, <1>7, <1>8 DEF ChainStep

LEMMA WorkerType ==
    ASSUME TypeOK, Worker
    PROVE  TypeOK'
<1>1. CASE LoopTest
  BY <1>1 DEF TypeOK, LoopTest, PC
<1>2. CASE WaitNewPacket
  BY <1>2 DEF TypeOK, WaitNewPacket, PC
<1>3. CASE ReadClock
  BY <1>3 DEF TypeOK, ReadClock, PC
<1>4. CASE BeginPass
  BY <1>4 DEF TypeOK, BeginPass, PC
<1>5. CASE EndPass
  BY <1>5 DEF TypeOK, EndPass, PC
<1>6. CASE \E k \in QKeys : ChainStep(k)
  BY <1>6, ChainStepType
<1> QED
  BY <1>1, <1>2, <1>3, <1>4, <1>5, <1>6 DEF Worker

LEMMA NextType == TypeOK /\ [Next]_vars => TypeOK'
<1> SUFFICES ASSUME TypeOK, [Next]_vars
             PROVE  TypeOK'
  OBVIOUS
<1>1. CASE \E f \in Flows, s \in Sizes : PushPacket(f, s)
  BY <1>1, PushPacketType
<1>2. CASE Command
  BY <1>2, CommandType
<1>3. CASE Stop
  BY <1>3, StopType
<1>4. CASE Worker
  BY <1>4, WorkerType
<1>5. CASE Tick
  BY <1>5, TickType
<1>6. CASE UNCHANGED vars
  BY <1>6 DEF TypeOK, vars
<1> QED
  BY <1>1, <1>2, <1>3, <1>4, <1>5, <1>6 DEF Next, Main

\* The variables keep their types: every value the worker and the commands
\* compute (quotas, counters, chains, the map) is of the kind its reader
\* expects, for any names, filters, disciplines, sizes and garbage.
THEOREM TypeCorrect == Spec => []TypeOK
<1>1. Init => TypeOK
  BY InitType
<1>2. TypeOK /\ [Next]_vars => TypeOK'
  BY NextType
<1> QED
  BY <1>1, <1>2, PTL DEF Spec

-----------------------------------------------------------------------------
(***************************************************************************)
(* What the assignments to nq_list change in one queue.                    *)
(***************************************************************************)

LEMMA SetPacketsFields ==
    ASSUME NEW f \in [QKeys -> NQueue], NEW k \in QKeys, NEW p,
           NEW g, g = [f EXCEPT ![k].packets = p]
    PROVE  /\ g[k].packets = p
           /\ g[k].last = f[k].last
           /\ g[k].sent = f[k].sent
           /\ g[k].discs = f[k].discs
           /\ \A j \in QKeys \ {k} : g[j] = f[j]
BY DEF NQueue

LEMMA SetDiscsFields ==
    ASSUME NEW f \in [QKeys -> NQueue], NEW k \in QKeys, NEW s,
           NEW g, g = [f EXCEPT ![k].discs = s]
    PROVE  /\ g[k].packets = f[k].packets
           /\ g[k].last = f[k].last
           /\ g[k].sent = f[k].sent
           /\ g[k].discs = s
           /\ \A j \in QKeys \ {k} : g[j] = f[j]
BY DEF NQueue

LEMMA SetDiscFields ==
    ASSUME NEW f \in [QKeys -> NQueue], NEW k \in QKeys, NEW n, NEW d,
           NEW g, g = [f EXCEPT ![k].discs[n] = d]
    PROVE  /\ g[k].packets = f[k].packets
           /\ g[k].last = f[k].last
           /\ g[k].sent = f[k].sent
           /\ g[k].discs = [f[k].discs EXCEPT ![n] = d]
           /\ \A j \in QKeys \ {k} : g[j] = f[j]
BY DEF NQueue

LEMMA PushFields ==
    ASSUME NEW pq \in PacketsT, NEW p
    PROVE  Push(pq, p).fifo \in {pq.fifo, Append(pq.fifo, p)}
BY DEF Push, PacketsT

LEMMA PopFields ==
    ASSUME NEW pq \in PacketsT
    PROVE  Pop(pq).fifo = Tail(pq.fifo) /\ DropFront(pq).fifo = Tail(pq.fifo)
BY DEF Pop, DropFront, PacketsT

-----------------------------------------------------------------------------
(***************************************************************************)
(* The shapes of a step.                                                   *)
(***************************************************************************)

Last(k) == nq_list[k].last

\* The queues named in S keep their packets and have delivered nothing.
Same(S) == \A j \in S : fifo(j)' = fifo(j) /\ Last(j)' = Last(j)

\* A packet arrives, and is appended to at most one queue.
Arrives ==
    /\ uid_base' = uid_base + 1
    /\ now' = now
    /\ \/ Same(QKeys)
       \/ \E k \in QKeys, s \in Sizes :
            /\ Same(QKeys \ {k})
            /\ Last(k)' = Last(k)
            /\ fifo(k)' = Append(fifo(k),
                  [uid |-> uid_base + 1, in_time |-> now, size |-> s])

\* The front packet of one queue is dropped or delivered.
FrontLeaves ==
    /\ uid_base' = uid_base
    /\ now' = now
    /\ \E k \in QKeys :
         /\ Same(QKeys \ {k})
         /\ fifo(k) # <<>>
         /\ fifo(k)' = Tail(fifo(k))
         /\ Last(k)' = Last(k) \/ Last(k)' = Head(fifo(k)).uid

\* One queue is erased.
Erased ==
    /\ uid_base' = uid_base
    /\ now' = now
    /\ \E k \in QKeys :
         /\ Same(QKeys \ {k})
         /\ fifo(k)' = <<>>
         /\ Last(k)' = 0

\* No packet moves; the clock may.
Keeps ==
    /\ uid_base' = uid_base
    /\ now' \in {now, now + 1}
    /\ Same(QKeys)

StepShape == Arrives \/ FrontLeaves \/ Erased \/ Keeps

LEMMA PushPacketShape ==
    ASSUME TypeOK, NEW f \in Flows, NEW s \in Sizes, PushPacket(f, s)
    PROVE  Arrives
<1> DEFINE p == [uid |-> uid_base + 1, in_time |-> now, size |-> s]
<1>1. uid_base' = uid_base + 1 /\ now' = now
  BY DEF PushPacket
<1>2. CASE UNCHANGED nq_list
  BY <1>1, <1>2 DEF Arrives, Same, fifo, Last
<1>3. ASSUME NEW k \in keys,
             nq_list' = [nq_list EXCEPT ![k].packets = Push(@, p)]
      PROVE  Arrives
  <2>1. k \in QKeys /\ nq_list \in [QKeys -> NQueue] /\ nq_list[k].packets \in PacketsT
    BY DEF TypeOK, NQueue
  <2> HIDE DEF p
  <2>2. /\ nq_list'[k].packets = Push(nq_list[k].packets, p)
        /\ nq_list'[k].last = nq_list[k].last
        /\ \A j \in QKeys \ {k} : nq_list'[j] = nq_list[j]
    BY <1>3, <2>1, SetPacketsFields
  <2>3. fifo(k)' \in {fifo(k), Append(fifo(k), p)}
    BY <2>1, <2>2, PushFields DEF fifo
  <2>4. Same(QKeys \ {k}) /\ Last(k)' = Last(k)
    BY <2>2 DEF Same, fifo, Last
  <2>5. CASE fifo(k)' = fifo(k)
    <3>1. Same(QKeys)
      BY <2>4, <2>5 DEF Same
    <3> QED
      BY <1>1, <3>1 DEF Arrives
  <2>6. CASE fifo(k)' = Append(fifo(k), p)
    BY <1>1, <2>1, <2>4, <2>6 DEF Arrives, p
  <2> QED
    BY <2>3, <2>5, <2>6
<1> QED
  BY <1>2, <1>3 DEF PushPacket

LEMMA CommandShape ==
    ASSUME TypeOK, Command
    PROVE  Keeps \/ Erased
<1> USE DEF Touch
<1>1. uid_base' = uid_base /\ now' = now
  BY DEF Command, SetQsize, SetFilter, PushBackQdisc, SetQdisc, FailedCommand,
         ClearQueue
<1>2. nq_list \in [QKeys -> NQueue]
  BY DEF TypeOK
<1>3. ASSUME NEW k \in QKeys, NEW n \in Limits, SetQsize(k, n)
      PROVE  Same(QKeys)
  BY <1>2, <1>3 DEF SetQsize, Same, fifo, Last, NQueue, PacketsT
<1>4. ASSUME NEW k \in QKeys, NEW f \in Filters, SetFilter(k, f)
      PROVE  Same(QKeys)
  BY <1>2, <1>4 DEF SetFilter, Same, fifo, Last, NQueue
<1>5. ASSUME NEW k \in QKeys, NEW c \in Configs, NEW g \in Garbage,
             PushBackQdisc(k, c, g)
      PROVE  Same(QKeys)
  BY <1>2, <1>5, SetDiscsFields DEF PushBackQdisc, Same, fifo, Last
<1>6. ASSUME NEW k \in QKeys, NEW n \in 1..MaxDiscs, NEW c \in Configs,
             NEW g \in Garbage, SetQdisc(k, n, c, g)
      PROVE  Same(QKeys)
  BY <1>2, <1>6, SetDiscFields DEF SetQdisc, Same, fifo, Last
<1>7. ASSUME NEW k \in QKeys, FailedCommand(k)
      PROVE  Same(QKeys)
  BY <1>7 DEF FailedCommand, Same, fifo, Last
<1>8. ASSUME NEW k \in QKeys, ClearQueue(k)
      PROVE  Same(QKeys \ {k}) /\ fifo(k)' = <<>> /\ Last(k)' = 0
  BY <1>2, <1>8 DEF ClearQueue, Same, fifo, Last, NewQueue, NewPackets
<1> QED
  BY <1>1, <1>3, <1>4, <1>5, <1>6, <1>7, <1>8 DEF Command, Keeps, Erased

\* A dropped or delivered front, as an assignment to nq_list.
LEMMA RlossDrawShape ==
    ASSUME TypeOK, NEW k \in QKeys, RlossDraw(k)
    PROVE  FrontLeaves \/ Keeps
<1> DEFINE f == [nq_list EXCEPT ![k].discs[i].last_uid = Head(fifo(k)).uid]
           d == [nq_list[k].discs[i] EXCEPT !.last_uid = Head(fifo(k)).uid]
<1>1. PICK drop \in BOOLEAN :
        nq_list' = [nq_list EXCEPT
            ![k].discs[i].last_uid = Head(fifo(k)).uid,
            ![k].packets = IF drop THEN DropFront(@) ELSE @]
  BY DEF RlossDraw, Lottery
<1>2. /\ nq_list[k].discs[i] \in Rloss
      /\ nq_list[k].packets \in PacketsT
      /\ fifo(k) \in Seq(Packet)
      /\ i \in 1..Len(nq_list[k].discs)
      /\ nq_list \in [QKeys -> NQueue]
  BY AtDisc DEF RlossDraw, Asking, TypeOK
<1>3. fifo(k) # <<>>
  BY DEF RlossDraw, Untested, fifo
<1>4. d \in Disc
  <2>1. Head(fifo(k)) \in Packet
    BY <1>2, <1>3
  <2> QED
    BY <1>2, <2>1 DEF Packet, Rloss, Disc
<1>5. f \in [QKeys -> NQueue]
  BY <1>2, <1>4, SetDiscType, Zenon
<1>6. f = [nq_list EXCEPT ![k].discs[i] = d]
  OBVIOUS
<1> HIDE DEF f, d
<1>7. /\ f[k].packets = nq_list[k].packets
      /\ f[k].last = nq_list[k].last
      /\ \A j \in QKeys \ {k} : f[j] = nq_list[j]
  BY <1>2, <1>6, SetDiscFields
<1>8. uid_base' = uid_base /\ now' = now
  BY DEF RlossDraw, Frame
<1>9. CASE drop
  <2>1. nq_list' = [f EXCEPT ![k].packets = DropFront(f[k].packets)]
    BY <1>1, <1>9 DEF f
  <2>2. /\ nq_list'[k].packets = DropFront(nq_list[k].packets)
        /\ nq_list'[k].last = nq_list[k].last
        /\ \A j \in QKeys \ {k} : nq_list'[j] = nq_list[j]
    BY <1>5, <1>7, <2>1, SetPacketsFields
  <2>3. fifo(k)' = Tail(fifo(k)) /\ Last(k)' = Last(k) /\ Same(QKeys \ {k})
    BY <1>2, <2>2, PopFields DEF fifo, Last, Same
  <2> QED
    BY <1>3, <1>8, <2>3 DEF FrontLeaves
<1>10. CASE ~drop
  <2>1. nq_list' = [f EXCEPT ![k].packets = f[k].packets]
    BY <1>1, <1>10 DEF f
  <2>2. nq_list' = f
    BY <1>5, <2>1 DEF NQueue
  <2>3. Same(QKeys)
    BY <1>7, <2>2 DEF fifo, Last, Same
  <2> QED
    BY <1>8, <2>3 DEF Keeps
<1> QED
  BY <1>9, <1>10

LEMMA BandDropShape ==
    ASSUME TypeOK, NEW k \in QKeys, BandDrop(k)
    PROVE  FrontLeaves
<1> DEFINE d == Accrue(nq_list[k].discs[i], time)
           f == [nq_list EXCEPT ![k].discs[i] = d]
<1>1. nq_list' = [f EXCEPT ![k].packets = DropFront(f[k].packets)]
  BY DEF BandDrop
<1>2. /\ nq_list[k].discs[i] \in Band
      /\ nq_list[k].packets \in PacketsT
      /\ i \in 1..Len(nq_list[k].discs)
      /\ nq_list \in [QKeys -> NQueue]
      /\ time \in Nat
  BY AtDisc DEF BandDrop, Asking, TypeOK
<1>3. d \in Disc
  BY <1>2, AccrueType DEF Disc
<1>4. f \in [QKeys -> NQueue]
  BY <1>2, <1>3, SetDiscType, Zenon
<1> HIDE DEF d
<1>5. /\ f[k].packets = nq_list[k].packets
      /\ f[k].last = nq_list[k].last
      /\ \A j \in QKeys \ {k} : f[j] = nq_list[j]
  BY <1>2, SetDiscFields
<1> HIDE DEF f
<1>6. /\ nq_list'[k].packets = DropFront(nq_list[k].packets)
      /\ nq_list'[k].last = nq_list[k].last
      /\ \A j \in QKeys \ {k} : nq_list'[j] = nq_list[j]
  BY <1>1, <1>4, <1>5, SetPacketsFields
<1>7. fifo(k)' = Tail(fifo(k)) /\ Last(k)' = Last(k) /\ Same(QKeys \ {k})
  BY <1>2, <1>6, PopFields DEF fifo, Last, Same
<1>8. uid_base' = uid_base /\ now' = now /\ fifo(k) # <<>>
  BY DEF BandDrop, Overdue, Frame, fifo
<1> QED
  BY <1>7, <1>8 DEF FrontLeaves

LEMMA BandDecideShape ==
    ASSUME TypeOK, NEW k \in QKeys, BandDecide(k)
    PROVE  Keeps
<1>1. PICK d : nq_list' = [nq_list EXCEPT ![k].discs[i] = d]
  BY DEF BandDecide, BandVerdict
<1>2. nq_list \in [QKeys -> NQueue]
  BY DEF TypeOK
<1>3. Same(QKeys)
  BY <1>1, <1>2, SetDiscFields DEF Same, fifo, Last
<1>4. uid_base' = uid_base /\ now' = now
  BY DEF BandDecide, BandVerdict, Frame
<1> QED
  BY <1>3, <1>4 DEF Keeps

LEMMA PacketOutShape ==
    ASSUME TypeOK, NEW k \in QKeys, PacketOut(k)
    PROVE  FrontLeaves \/ Keeps
<1>1. nq_list \in [QKeys -> NQueue] /\ nq_list[k].packets \in PacketsT
  BY DEF TypeOK, NQueue
<1>2. uid_base' = uid_base /\ now' = now
  BY DEF PacketOut, Frame
<1>3. CASE fifo(k) # <<>>
  <2> DEFINE p == Pop(nq_list[k].packets)
             n == nq_list[k].sent + 1
             l == Head(fifo(k)).uid
  <2>1. nq_list' = [nq_list EXCEPT ![k].packets = p, ![k].sent = n, ![k].last = l]
    BY <1>3 DEF PacketOut
  <2>2. p.fifo = Tail(fifo(k))
    BY <1>1, PopFields DEF fifo
  <2> HIDE DEF p, n, l
  <2>3. /\ nq_list'[k].packets = p
        /\ nq_list'[k].last = l
        /\ \A j \in QKeys \ {k} : nq_list'[j] = nq_list[j]
    BY <1>1, <2>1 DEF NQueue
  <2>4. fifo(k)' = Tail(fifo(k)) /\ Last(k)' = l /\ Same(QKeys \ {k})
    BY <2>2, <2>3 DEF fifo, Last, Same
  <2> QED
    BY <1>2, <1>3, <2>4 DEF FrontLeaves, l
<1>4. CASE fifo(k) = <<>>
  <2>1. UNCHANGED nq_list
    BY <1>4 DEF PacketOut
  <2> QED
    BY <1>2, <2>1 DEF Keeps, Same, fifo, Last
<1> QED
  BY <1>3, <1>4

LEMMA StillShape ==
    ASSUME UNCHANGED <<nq_list, uid_base>>, now' \in {now, now + 1}
    PROVE  Keeps
BY DEF Keeps, Same, fifo, Last

LEMMA ChainStepShape ==
    ASSUME TypeOK, NEW k \in QKeys, ChainStep(k)
    PROVE  FrontLeaves \/ Keeps
<1>1. CASE RlossDraw(k)
  BY <1>1, RlossDrawShape
<1>2. CASE BandDrop(k)
  BY <1>2, BandDropShape
<1>3. CASE BandDecide(k)
  BY <1>3, BandDecideShape
<1>4. CASE PacketOut(k)
  BY <1>4, PacketOutShape
<1>5. CASE RlossDecide(k) \/ BandUnlimited(k) \/ DelayDecide(k) \/ NoQdisc(k)
  BY <1>5, StillShape DEF RlossDecide, BandUnlimited, DelayDecide, NoQdisc, Frame
<1> QED
  BY <1>1, <1>2, <1>3, <1>4, <1>5 DEF ChainStep

LEMMA NextShape ==
    ASSUME TypeOK, [Next]_vars
    PROVE  StepShape
<1>1. CASE \E f \in Flows, s \in Sizes : PushPacket(f, s)
  BY <1>1, PushPacketShape DEF StepShape
<1>2. CASE Command
  BY <1>2, CommandShape DEF StepShape
<1>3. CASE \E k \in QKeys : ChainStep(k)
  BY <1>3, ChainStepShape DEF StepShape
<1>4. CASE LoopTest \/ WaitNewPacket \/ ReadClock \/ BeginPass \/ EndPass \/ Stop
  BY <1>4, StillShape DEF LoopTest, WaitNewPacket, ReadClock, BeginPass, EndPass,
         Stop, StepShape
<1>5. CASE Tick \/ UNCHANGED vars
  BY <1>5, StillShape DEF Tick, vars, StepShape
<1> QED
  BY <1>1, <1>2, <1>3, <1>4, <1>5 DEF Next, Main, Worker

-----------------------------------------------------------------------------
(***************************************************************************)
(* Order of arrival.                                                       *)
(***************************************************************************)

\* ArrivalOrder of one queue: packets s wait, l is the last delivered.
Ordered(s, l, base, t) ==
    /\ l <= base
    /\ \A n \in 1..Len(s) :
        /\ l < s[n].uid
        /\ s[n].uid <= base
        /\ s[n].in_time <= t
        /\ \A m \in 1..Len(s) : m < n =>
            /\ s[m].uid < s[n].uid
            /\ s[m].in_time <= s[n].in_time

LEMMA OrderedQueues ==
    ArrivalOrder <=> \A k \in QKeys : Ordered(fifo(k), Last(k), uid_base, now)
BY DEF ArrivalOrder, Ordered, Last

LEMMA PacketNumbers ==
    ASSUME NEW s \in Seq(Packet), NEW n \in 1..Len(s)
    PROVE  s[n].uid \in Nat \ {0} /\ s[n].in_time \in Nat
<1>1. s[n] \in Packet
  OBVIOUS
<1> QED
  BY <1>1 DEF Packet

LEMMA OrderedLater ==
    ASSUME NEW s \in Seq(Packet), NEW l \in Nat, NEW b \in Nat, NEW t \in Nat,
           NEW b2 \in Nat, NEW t2 \in Nat, b <= b2, t <= t2, Ordered(s, l, b, t)
    PROVE  Ordered(s, l, b2, t2)
BY PacketNumbers DEF Ordered

LEMMA OrderedAppend ==
    ASSUME NEW s \in Seq(Packet), NEW l \in Nat, NEW b \in Nat, NEW t \in Nat,
           NEW p \in Packet, p.uid = b + 1, p.in_time = t, Ordered(s, l, b, t)
    PROVE  Ordered(Append(s, p), l, b + 1, t)
<1> DEFINE r == Append(s, p)
<1>1. /\ Len(r) = Len(s) + 1
      /\ r[Len(s) + 1] = p
      /\ \A n \in 1..Len(s) : r[n] = s[n]
  OBVIOUS
<1> HIDE DEF r
<1>2. l <= b + 1
  BY DEF Ordered
<1>3. ASSUME NEW n \in 1..Len(r)
      PROVE  /\ l < r[n].uid
             /\ r[n].uid <= b + 1
             /\ r[n].in_time <= t
             /\ \A m \in 1..Len(r) : m < n =>
                  /\ r[m].uid < r[n].uid
                  /\ r[m].in_time <= r[n].in_time
  <2>1. CASE n = Len(s) + 1
    <3>1. r[n].uid = b + 1 /\ r[n].in_time = t
      BY <1>1, <2>1
    <3>2. ASSUME NEW m \in 1..Len(r), m < n
          PROVE  r[m].uid < r[n].uid /\ r[m].in_time <= r[n].in_time
      <4>1. m \in 1..Len(s)
        BY <1>1, <2>1, <3>2
      <4>2. s[m].uid <= b /\ s[m].in_time <= t
        BY <4>1 DEF Ordered
      <4>3. s[m].uid \in Nat /\ r[m] = s[m]
        BY <1>1, <4>1, PacketNumbers
      <4> QED
        BY <3>1, <4>2, <4>3
    <3> QED
      BY <1>2, <3>1, <3>2 DEF Ordered
  <2>2. CASE n \in 1..Len(s)
    <3>1. /\ l < s[n].uid /\ s[n].uid <= b /\ s[n].in_time <= t
          /\ \A m \in 1..Len(s) : m < n =>
                s[m].uid < s[n].uid /\ s[m].in_time <= s[n].in_time
      BY <2>2 DEF Ordered
    <3>2. s[n].uid \in Nat /\ r[n] = s[n]
      BY <1>1, <2>2, PacketNumbers
    <3>3. ASSUME NEW m \in 1..Len(r), m < n
          PROVE  r[m].uid < r[n].uid /\ r[m].in_time <= r[n].in_time
      <4>1. m \in 1..Len(s)
        BY <1>1, <2>2, <3>3
      <4> QED
        BY <1>1, <3>1, <3>2, <3>3, <4>1
    <3> QED
      BY <3>1, <3>2, <3>3
  <2> QED
    BY <1>1, <2>1, <2>2
<1> QED
  BY <1>2, <1>3 DEF Ordered, r

LEMMA OrderedTail ==
    ASSUME NEW s \in Seq(Packet), NEW l \in Nat, NEW b \in Nat, NEW t \in Nat,
           s # <<>>, Ordered(s, l, b, t),
           NEW l2, l2 = l \/ l2 = Head(s).uid
    PROVE  Ordered(Tail(s), l2, b, t)
<1> DEFINE r == Tail(s)
<1>1. /\ Len(r) = Len(s) - 1
      /\ Len(s) \in Nat \ {0}
      /\ Head(s) = s[1]
      /\ \A n \in 1..Len(r) : r[n] = s[n + 1]
  OBVIOUS
<1> HIDE DEF r
<1>2. l2 <= b
  BY <1>1 DEF Ordered
<1>3. ASSUME NEW n \in 1..Len(r)
      PROVE  /\ l2 < r[n].uid
             /\ r[n].uid <= b
             /\ r[n].in_time <= t
             /\ \A m \in 1..Len(r) : m < n =>
                  /\ r[m].uid < r[n].uid
                  /\ r[m].in_time <= r[n].in_time
  <2>1. n + 1 \in 1..Len(s) /\ 1 \in 1..Len(s) /\ 1 < n + 1 /\ r[n] = s[n + 1]
    BY <1>1
  <2>2. /\ l < s[n + 1].uid /\ s[n + 1].uid <= b /\ s[n + 1].in_time <= t
        /\ \A m \in 1..Len(s) : m < n + 1 =>
              s[m].uid < s[n + 1].uid /\ s[m].in_time <= s[n + 1].in_time
    BY <2>1 DEF Ordered
  <2>3. l2 < r[n].uid
    BY <1>1, <2>1, <2>2
  <2>4. ASSUME NEW m \in 1..Len(r), m < n
        PROVE  r[m].uid < r[n].uid /\ r[m].in_time <= r[n].in_time
    <3>1. m + 1 \in 1..Len(s) /\ m + 1 < n + 1 /\ r[m] = s[m + 1]
      BY <1>1, <2>4
    <3> QED
      BY <2>1, <2>2, <3>1
  <2> QED
    BY <2>1, <2>2, <2>3, <2>4
<1> QED
  BY <1>2, <1>3 DEF Ordered, r

LEMMA QueueTypes ==
    ASSUME TypeOK, NEW k \in QKeys
    PROVE  fifo(k) \in Seq(Packet) /\ Last(k) \in Nat
BY DEF TypeOK, NQueue, PacketsT, fifo, Last

LEMMA ArrivesOrdered ==
    ASSUME TypeOK, ArrivalOrder, Arrives
    PROVE  ArrivalOrder'
<1>1. uid_base \in Nat /\ now \in Nat /\ uid_base' = uid_base + 1 /\ now' = now
  BY DEF TypeOK, Arrives
<1>2. ASSUME NEW j \in QKeys, fifo(j)' = fifo(j), Last(j)' = Last(j)
      PROVE  Ordered(fifo(j)', Last(j)', uid_base', now')
  BY <1>1, <1>2, QueueTypes, OrderedQueues, OrderedLater
<1>3. ASSUME NEW k \in QKeys, NEW s \in Sizes, Last(k)' = Last(k),
             fifo(k)' = Append(fifo(k),
                [uid |-> uid_base + 1, in_time |-> now, size |-> s])
      PROVE  Ordered(fifo(k)', Last(k)', uid_base', now')
  <2> DEFINE p == [uid |-> uid_base + 1, in_time |-> now, size |-> s]
  <2>1. p \in Packet /\ p.uid = uid_base + 1 /\ p.in_time = now
    BY <1>1 DEF Packet
  <2> HIDE DEF p
  <2>2. Ordered(Append(fifo(k), p), Last(k), uid_base + 1, now)
    BY <1>1, <2>1, QueueTypes, OrderedQueues, OrderedAppend
  <2> QED
    BY <1>1, <1>3, <2>2 DEF p
<1>4. \A j \in QKeys : Ordered(fifo(j)', Last(j)', uid_base', now')
  BY <1>2, <1>3 DEF Arrives, Same
<1> QED
  BY <1>4 DEF ArrivalOrder, Ordered, Last

LEMMA FrontLeavesOrdered ==
    ASSUME TypeOK, ArrivalOrder, FrontLeaves
    PROVE  ArrivalOrder'
<1>1. uid_base \in Nat /\ now \in Nat /\ uid_base' = uid_base /\ now' = now
  BY DEF TypeOK, FrontLeaves
<1>2. PICK k \in QKeys :
        /\ Same(QKeys \ {k})
        /\ fifo(k) # <<>>
        /\ fifo(k)' = Tail(fifo(k))
        /\ Last(k)' = Last(k) \/ Last(k)' = Head(fifo(k)).uid
  BY DEF FrontLeaves
<1>3. ASSUME NEW j \in QKeys \ {k}
      PROVE  Ordered(fifo(j)', Last(j)', uid_base', now')
  BY <1>1, <1>2, OrderedQueues DEF Same
<1>4. Ordered(fifo(k)', Last(k)', uid_base', now')
  BY <1>1, <1>2, QueueTypes, OrderedQueues, OrderedTail
<1>5. \A j \in QKeys : Ordered(fifo(j)', Last(j)', uid_base', now')
  BY <1>3, <1>4
<1> QED
  BY <1>5 DEF ArrivalOrder, Ordered, Last

LEMMA ErasedOrdered ==
    ASSUME TypeOK, ArrivalOrder, Erased
    PROVE  ArrivalOrder'
<1>1. uid_base \in Nat /\ uid_base' = uid_base /\ now' = now
  BY DEF TypeOK, Erased
<1>2. PICK k \in QKeys :
        Same(QKeys \ {k}) /\ fifo(k)' = <<>> /\ Last(k)' = 0
  BY DEF Erased
<1>3. ASSUME NEW j \in QKeys \ {k}
      PROVE  Ordered(fifo(j)', Last(j)', uid_base', now')
  BY <1>1, <1>2, OrderedQueues DEF Same
<1>4. Ordered(fifo(k)', Last(k)', uid_base', now')
  BY <1>1, <1>2 DEF Ordered
<1>5. \A j \in QKeys : Ordered(fifo(j)', Last(j)', uid_base', now')
  BY <1>3, <1>4
<1> QED
  BY <1>5 DEF ArrivalOrder, Ordered, Last

LEMMA KeepsOrdered ==
    ASSUME TypeOK, ArrivalOrder, Keeps
    PROVE  ArrivalOrder'
<1>1. /\ uid_base \in Nat /\ now \in Nat
      /\ uid_base' = uid_base /\ now' \in Nat /\ now <= now'
  BY DEF TypeOK, Keeps
<1>2. ASSUME NEW j \in QKeys
      PROVE  Ordered(fifo(j)', Last(j)', uid_base', now')
  <2>1. Ordered(fifo(j), Last(j), uid_base, now)
    BY OrderedQueues
  <2>2. Ordered(fifo(j), Last(j), uid_base, now')
    BY <1>1, <2>1, QueueTypes, OrderedLater
  <2> QED
    BY <1>1, <2>2 DEF Keeps, Same
<1> QED
  BY <1>2 DEF ArrivalOrder, Ordered, Last

LEMMA NextOrdered == TypeOK /\ ArrivalOrder /\ [Next]_vars => ArrivalOrder'
BY NextShape, ArrivesOrdered, FrontLeavesOrdered, ErasedOrdered, KeepsOrdered
DEF StepShape

\* A queue never reorders, repeats or forges packets: what waits is in order
\* of arrival and newer than what was delivered, for every chain of
\* disciplines and every interleaving of commands, packets and passes.
THEOREM QueuesKeepOrder == Spec => []ArrivalOrder
<1>1. Init => TypeOK /\ ArrivalOrder
  <2>1. Init => ArrivalOrder
    BY DEF Init, ArrivalOrder, fifo, NewQueue, NewPackets
  <2> QED
    BY <2>1, InitType
<1>2. TypeOK /\ ArrivalOrder /\ [Next]_vars => (TypeOK /\ ArrivalOrder)'
  BY NextType, NextOrdered
<1> QED
  BY <1>1, <1>2, PTL DEF Spec

-----------------------------------------------------------------------------
(***************************************************************************)
(* Refinement: the queues implement LossyFifo.                             *)
(***************************************************************************)

LEMMA UidsType ==
    ASSUME NEW s \in Seq(Packet)
    PROVE  /\ Uids(s) \in Seq(Nat)
           /\ Len(Uids(s)) = Len(s)
           /\ \A n \in 1..Len(s) : Uids(s)[n] = s[n].uid
<1>1. DOMAIN s = 1..Len(s) /\ Len(s) \in Nat
  OBVIOUS
<1>2. \A n \in 1..Len(s) : s[n].uid \in Nat
  BY PacketNumbers
<1>3. Uids(s) = [n \in 1..Len(s) |-> s[n].uid]
  BY <1>1 DEF Uids
<1> QED
  BY <1>1, <1>2, <1>3

LEMMA UidsEmpty ==
    ASSUME NEW s \in Seq(Packet)
    PROVE  s = <<>> <=> Uids(s) = <<>>
BY UidsType

LEMMA SameElements ==
    ASSUME NEW s \in Seq(Nat), NEW t \in Seq(Nat), Len(s) = Len(t),
           \A n \in 1..Len(s) : s[n] = t[n]
    PROVE  s = t
OBVIOUS

LEMMA UidsAppend ==
    ASSUME NEW s \in Seq(Packet), NEW p \in Packet
    PROVE  Uids(Append(s, p)) = Append(Uids(s), p.uid)
<1> DEFINE a == Uids(Append(s, p))
           b == Append(Uids(s), p.uid)
<1>1. p.uid \in Nat
  BY DEF Packet
<1>2. /\ Append(s, p) \in Seq(Packet)
      /\ Len(Append(s, p)) = Len(s) + 1
      /\ Append(s, p)[Len(s) + 1] = p
      /\ \A n \in 1..Len(s) : Append(s, p)[n] = s[n]
  OBVIOUS
<1>3. /\ a \in Seq(Nat) /\ Len(a) = Len(s) + 1
      /\ \A n \in 1..Len(s) + 1 : a[n] = Append(s, p)[n].uid
  BY <1>2, UidsType
<1>4. /\ b \in Seq(Nat) /\ Len(b) = Len(s) + 1
      /\ b[Len(s) + 1] = p.uid
      /\ \A n \in 1..Len(s) : b[n] = s[n].uid
  BY <1>1, UidsType
<1> HIDE DEF a, b
<1>5. ASSUME NEW n \in 1..Len(s) + 1
      PROVE  a[n] = b[n]
  <2>1. Len(s) \in Nat
    OBVIOUS
  <2>2. CASE n = Len(s) + 1
    BY <1>2, <1>3, <1>4, <2>1, <2>2
  <2>3. CASE n \in 1..Len(s)
    BY <1>2, <1>3, <1>4, <2>3
  <2> QED
    BY <2>1, <2>2, <2>3
<1>6. Len(a) = Len(b) /\ \A n \in 1..Len(a) : a[n] = b[n]
  BY <1>3, <1>4, <1>5
<1>7. a = b
  BY <1>3, <1>4, <1>6, SameElements
<1> QED
  BY <1>7 DEF a, b

LEMMA UidsTail ==
    ASSUME NEW s \in Seq(Packet), s # <<>>
    PROVE  Uids(Tail(s)) = Tail(Uids(s)) /\ Head(Uids(s)) = Head(s).uid
<1> DEFINE a == Uids(Tail(s))
           b == Tail(Uids(s))
<1>1. /\ Tail(s) \in Seq(Packet)
      /\ Len(Tail(s)) = Len(s) - 1
      /\ Len(s) \in Nat \ {0}
      /\ Head(s) = s[1]
      /\ \A n \in 1..Len(s) - 1 : Tail(s)[n] = s[n + 1]
  OBVIOUS
<1>2. /\ a \in Seq(Nat) /\ Len(a) = Len(s) - 1
      /\ \A n \in 1..Len(s) - 1 : a[n] = Tail(s)[n].uid
  BY <1>1, UidsType
<1>3. /\ Uids(s) \in Seq(Nat) /\ Uids(s) # <<>> /\ Len(Uids(s)) = Len(s)
      /\ \A n \in 1..Len(s) : Uids(s)[n] = s[n].uid
  BY UidsType, UidsEmpty
<1>4. /\ b \in Seq(Nat) /\ Len(b) = Len(s) - 1
      /\ \A n \in 1..Len(s) - 1 : b[n] = Uids(s)[n + 1]
  BY <1>3
<1>5. \A n \in 1..Len(s) - 1 : a[n] = b[n]
  BY <1>1, <1>2, <1>3, <1>4
<1>6. Head(Uids(s)) = Head(s).uid
  BY <1>1, <1>3
<1> HIDE DEF a, b
<1>7. a = b
  <2>1. Len(a) = Len(b) /\ \A n \in 1..Len(a) : a[n] = b[n]
    BY <1>1, <1>2, <1>4, <1>5
  <2> QED
    BY <1>2, <1>4, <2>1, SameElements
<1> QED
  BY <1>6, <1>7 DEF a, b

\* The mapped variables of LossyFifo.
Mapped == [k \in QKeys |-> Uids(fifo(k))]
MappedLast == [k \in QKeys |-> nq_list[k].last]

LEMMA InitPromised == Init => Promise!Init
<1> SUFFICES ASSUME Init PROVE Promise!Init
  OBVIOUS
<1>1. \A k \in QKeys : fifo(k) = <<>> /\ nq_list[k].last = 0
  BY DEF Init, fifo, NewQueue, NewPackets
<1>2. <<>> \in Seq(Packet)
  OBVIOUS
<1>3. \A k \in QKeys : Uids(fifo(k)) = <<>>
  BY <1>1, <1>2, UidsEmpty
<1> QED
  BY <1>1, <1>3 DEF Init, Promise!Init

LEMMA ArrivesPromised ==
    ASSUME TypeOK, Arrives
    PROVE  Promise!Arrive
<1>1. MappedLast' = MappedLast
  BY DEF Arrives, Same, MappedLast, Last
<1>2. CASE Same(QKeys)
  <2>1. Mapped' = Mapped
    BY <1>2 DEF Same, Mapped
  <2> QED
    BY <1>1, <2>1 DEF Arrives, Promise!Arrive, Mapped, MappedLast
<1>3. ASSUME NEW k \in QKeys, NEW s \in Sizes, Same(QKeys \ {k}),
             fifo(k)' = Append(fifo(k),
                [uid |-> uid_base + 1, in_time |-> now, size |-> s])
      PROVE  Promise!Arrive
  <2> DEFINE p == [uid |-> uid_base + 1, in_time |-> now, size |-> s]
  <2>1. p \in Packet /\ p.uid = uid_base + 1
    BY DEF Packet, TypeOK
  <2>2. uid_base' = uid_base + 1
    BY DEF Arrives
  <2>3. Uids(fifo(k)') = Append(Uids(fifo(k)), uid_base')
    <3> HIDE DEF p
    <3>1. fifo(k)' = Append(fifo(k), p)
      BY <1>3 DEF p
    <3> QED
      BY <2>1, <2>2, <3>1, QueueTypes, UidsAppend
  <2>4. Mapped' = [Mapped EXCEPT ![k] = Append(@, uid_base')]
    BY <1>3, <2>3 DEF Same, Mapped
  <2> QED
    BY <1>1, <2>2, <2>4 DEF Promise!Arrive, Mapped, MappedLast
<1> QED
  BY <1>2, <1>3 DEF Arrives

LEMMA FrontLeavesPromised ==
    ASSUME TypeOK, FrontLeaves
    PROVE  Promise!Next
<1>1. PICK k \in QKeys :
        /\ Same(QKeys \ {k})
        /\ fifo(k) # <<>>
        /\ fifo(k)' = Tail(fifo(k))
        /\ Last(k)' = Last(k) \/ Last(k)' = Head(fifo(k)).uid
  BY DEF FrontLeaves
<1>2. /\ Uids(fifo(k)') = Tail(Uids(fifo(k)))
      /\ Head(Uids(fifo(k))) = Head(fifo(k)).uid
      /\ Uids(fifo(k)) # <<>>
  BY <1>1, QueueTypes, UidsTail, UidsEmpty
<1>3. Mapped' = [Mapped EXCEPT ![k] = Tail(@)] /\ Mapped[k] # <<>>
  BY <1>1, <1>2 DEF Same, Mapped
<1>4. uid_base' = uid_base
  BY DEF FrontLeaves
<1>5. CASE Last(k)' = Last(k)
  <2>1. MappedLast' = MappedLast
    BY <1>1, <1>5 DEF Same, Last, MappedLast
  <2>2. Promise!Lose(k)
    BY <1>3, <1>4, <2>1 DEF Promise!Lose, Mapped, MappedLast
  <2> QED
    BY <2>2 DEF Promise!Next
<1>6. CASE Last(k)' = Head(fifo(k)).uid
  <2>1. MappedLast' = [MappedLast EXCEPT ![k] = Head(Mapped[k])]
    BY <1>1, <1>2, <1>6 DEF Same, Last, Mapped, MappedLast
  <2>2. Promise!Deliver(k)
    BY <1>3, <1>4, <2>1 DEF Promise!Deliver, Mapped, MappedLast
  <2> QED
    BY <2>2 DEF Promise!Next
<1> QED
  BY <1>1, <1>5, <1>6

LEMMA ErasedPromised ==
    ASSUME TypeOK, Erased
    PROVE  Promise!Next
<1>1. PICK k \in QKeys :
        Same(QKeys \ {k}) /\ fifo(k)' = <<>> /\ Last(k)' = 0
  BY DEF Erased
<1>2. Uids(fifo(k)') = <<>>
  <2>1. <<>> \in Seq(Packet)
    OBVIOUS
  <2> QED
    BY <1>1, <2>1, UidsEmpty
<1>3. Mapped' = [Mapped EXCEPT ![k] = <<>>]
  BY <1>1, <1>2 DEF Same, Mapped
<1>4. MappedLast' = [MappedLast EXCEPT ![k] = 0]
  BY <1>1 DEF Same, Last, MappedLast
<1>5. Promise!Erase(k)
  BY <1>3, <1>4 DEF Erased, Promise!Erase, Mapped, MappedLast
<1> QED
  BY <1>5 DEF Promise!Next

LEMMA NextPromised == TypeOK /\ [Next]_vars => [Promise!Next]_(Promise!vars)
<1> SUFFICES ASSUME TypeOK, [Next]_vars
             PROVE  [Promise!Next]_(Promise!vars)
  OBVIOUS
<1>1. CASE Keeps
  <2>1. Mapped' = Mapped /\ MappedLast' = MappedLast /\ uid_base' = uid_base
    BY <1>1 DEF Keeps, Same, Last, Mapped, MappedLast
  <2> QED
    BY <2>1 DEF Promise!vars, Mapped, MappedLast
<1>2. CASE Arrives
  BY <1>2, ArrivesPromised DEF Promise!Next
<1>3. CASE FrontLeaves
  BY <1>3, FrontLeavesPromised
<1>4. CASE Erased
  BY <1>4, ErasedPromised
<1> QED
  BY <1>1, <1>2, <1>3, <1>4, NextShape DEF StepShape

\* Every queue of the dispatcher, whatever its chain of disciplines, is a
\* LossyFifo: each step of the code appends one new packet to one queue,
\* takes one front packet out, erases a queue or leaves them all alone.
THEOREM QueuesAreLossyFifos == Spec => LossyFifoPromise
<1>1. Spec => []TypeOK
  BY TypeCorrect
<1> QED
  BY <1>1, InitPromised, NextPromised, PTL DEF Spec, LossyFifoPromise, Promise!Spec
-----------------------------------------------------------------------------
(***************************************************************************)
(* What a step does to one queue.                                          *)
(***************************************************************************)

NewPacket(s) == [uid |-> uid_base + 1, in_time |-> now, size |-> s]

\* A packet is pushed.
Arrival(q, r) ==
    /\ \E s \in Sizes : r.packets = Push(q.packets, NewPacket(s))
    /\ uid_base' = uid_base + 1
    /\ r.discs = q.discs /\ r.sent = q.sent

\* A command changes the limit, or the filter or a discipline.
Limiting(q, r) ==
    /\ \E n \in Limits : r.packets = [q.packets EXCEPT !.limit = n]
    /\ r.discs = q.discs /\ r.sent = q.sent
Refitting(q, r) ==
    /\ r.packets = q.packets /\ r.sent = q.sent
    /\ \/ r.discs = q.discs
       \/ \E c \in Configs, g \in Garbage :
            \/ r.discs = Append(q.discs, CreateQdisc(c, g))
            \/ \E n \in 1..Len(q.discs) : r.discs = [q.discs EXCEPT ![n] = CreateQdisc(c, g)]

\* Discipline n becomes e.
Becomes(q, r, n, e) == r.discs = [q.discs EXCEPT ![n] = e] /\ r.sent = q.sent

\* An rloss draws for the front packet.
Drawing(q, r) == \E n \in 1..Len(q.discs) :
    /\ q.discs[n] \in Rloss /\ q.packets.fifo # <<>>
    /\ Becomes(q, r, n, [q.discs[n] EXCEPT !.last_uid = Head(q.packets.fifo).uid])
    /\ r.packets \in {q.packets, DropFront(q.packets)}

\* A band earns its quota, and may drop the front packet or charge for it.
Earning(q, r) == \E n \in 1..Len(q.discs), t \in Nat :
    /\ q.discs[n] \in Band
    /\ Becomes(q, r, n, Accrue(q.discs[n], t))
    /\ \/ r.packets = q.packets
       \/ q.packets.fifo # <<>> /\ r.packets = DropFront(q.packets)
Charging(q, r) == \E n \in 1..Len(q.discs), t \in Nat :
    /\ q.discs[n] \in Band /\ q.packets.fifo # <<>>
    /\ Affordable(Accrue(q.discs[n], t))
    /\ Becomes(q, r, n, Charge(Accrue(q.discs[n], t), Head(q.packets.fifo)))
    /\ r.packets = q.packets

\* The front packet is transmitted.
Sending(q, r) ==
    /\ q.packets.fifo # <<>> /\ r.packets = Pop(q.packets)
    /\ r.sent = q.sent + 1 /\ r.discs = q.discs

QueueStep(q, r) ==
    \/ r = q \/ r = NewQueue
    \/ Arrival(q, r) \/ Limiting(q, r) \/ Refitting(q, r)
    \/ Drawing(q, r) \/ Earning(q, r) \/ Charging(q, r) \/ Sending(q, r)

LEMMA PushPacketStep ==
    ASSUME TypeOK, NEW f \in Flows, NEW s \in Sizes, PushPacket(f, s)
    PROVE  \A k \in QKeys : QueueStep(nq_list[k], nq_list'[k])
<1>1. nq_list \in [QKeys -> NQueue] /\ uid_base' = uid_base + 1
  BY DEF TypeOK, PushPacket
<1>2. CASE UNCHANGED nq_list
  BY <1>2 DEF QueueStep
<1>3. ASSUME NEW k \in keys,
             nq_list' = [nq_list EXCEPT ![k].packets = Push(@, NewPacket(s))]
      PROVE  \A j \in QKeys : QueueStep(nq_list[j], nq_list'[j])
  <2>1. k \in QKeys
    BY DEF TypeOK
  <2>2. /\ nq_list'[k].packets = Push(nq_list[k].packets, NewPacket(s))
        /\ nq_list'[k].sent = nq_list[k].sent
        /\ nq_list'[k].discs = nq_list[k].discs
        /\ \A j \in QKeys \ {k} : nq_list'[j] = nq_list[j]
    BY <1>1, <1>3, <2>1, SetPacketsFields
  <2>3. Arrival(nq_list[k], nq_list'[k])
    BY <1>1, <2>2 DEF Arrival
  <2> QED
    BY <2>2, <2>3 DEF QueueStep
<1> QED
  BY <1>2, <1>3 DEF PushPacket, NewPacket

LEMMA CommandStep ==
    ASSUME TypeOK, Command
    PROVE  \A k \in QKeys : QueueStep(nq_list[k], nq_list'[k])
<1>1. nq_list \in [QKeys -> NQueue]
  BY DEF TypeOK
<1>2. ASSUME NEW k \in QKeys, NEW n \in Limits, SetQsize(k, n)
      PROVE  \A j \in QKeys : QueueStep(nq_list[j], nq_list'[j])
  <2>1. nq_list' = [nq_list EXCEPT ![k].packets = [nq_list[k].packets EXCEPT !.limit = n]]
    BY <1>1, <1>2 DEF SetQsize
  <2>2. /\ nq_list'[k].packets = [nq_list[k].packets EXCEPT !.limit = n]
        /\ nq_list'[k].sent = nq_list[k].sent
        /\ nq_list'[k].discs = nq_list[k].discs
        /\ \A j \in QKeys \ {k} : nq_list'[j] = nq_list[j]
    BY <1>1, <2>1, SetPacketsFields
  <2>3. Limiting(nq_list[k], nq_list'[k])
    BY <2>2 DEF Limiting
  <2> QED
    BY <2>2, <2>3 DEF QueueStep
<1>3. ASSUME NEW k \in QKeys, NEW f \in Filters, SetFilter(k, f)
      PROVE  \A j \in QKeys : QueueStep(nq_list[j], nq_list'[j])
  <2>1. /\ nq_list'[k].packets = nq_list[k].packets
        /\ nq_list'[k].sent = nq_list[k].sent
        /\ nq_list'[k].discs = nq_list[k].discs
        /\ \A j \in QKeys \ {k} : nq_list'[j] = nq_list[j]
    BY <1>1, <1>3 DEF SetFilter, NQueue
  <2>2. Refitting(nq_list[k], nq_list'[k])
    BY <2>1 DEF Refitting
  <2> QED
    BY <2>1, <2>2 DEF QueueStep
<1>4. ASSUME NEW k \in QKeys, NEW c \in Configs, NEW g \in Garbage, PushBackQdisc(k, c, g)
      PROVE  \A j \in QKeys : QueueStep(nq_list[j], nq_list'[j])
  <2>1. nq_list' = [nq_list EXCEPT ![k].discs = Append(nq_list[k].discs, CreateQdisc(c, g))]
    BY <1>1, <1>4 DEF PushBackQdisc
  <2>2. /\ nq_list'[k].packets = nq_list[k].packets
        /\ nq_list'[k].sent = nq_list[k].sent
        /\ nq_list'[k].discs = Append(nq_list[k].discs, CreateQdisc(c, g))
        /\ \A j \in QKeys \ {k} : nq_list'[j] = nq_list[j]
    BY <1>1, <2>1, SetDiscsFields
  <2>3. Refitting(nq_list[k], nq_list'[k])
    BY <2>2 DEF Refitting
  <2> QED
    BY <2>2, <2>3 DEF QueueStep
<1>5. ASSUME NEW k \in QKeys, NEW n \in 1..MaxDiscs, NEW c \in Configs,
             NEW g \in Garbage, SetQdisc(k, n, c, g)
      PROVE  \A j \in QKeys : QueueStep(nq_list[j], nq_list'[j])
  <2>1. /\ nq_list' = [nq_list EXCEPT ![k].discs[n] = CreateQdisc(c, g)]
        /\ n \in 1..Len(nq_list[k].discs)
    BY <1>5 DEF SetQdisc
  <2>2. /\ nq_list'[k].packets = nq_list[k].packets
        /\ nq_list'[k].sent = nq_list[k].sent
        /\ nq_list'[k].discs = [nq_list[k].discs EXCEPT ![n] = CreateQdisc(c, g)]
        /\ \A j \in QKeys \ {k} : nq_list'[j] = nq_list[j]
    BY <1>1, <2>1, SetDiscFields
  <2>3. Refitting(nq_list[k], nq_list'[k])
    BY <2>1, <2>2 DEF Refitting
  <2> QED
    BY <2>2, <2>3 DEF QueueStep
<1>6. ASSUME NEW k \in QKeys, FailedCommand(k)
      PROVE  \A j \in QKeys : QueueStep(nq_list[j], nq_list'[j])
  BY <1>6 DEF FailedCommand, QueueStep
<1>7. ASSUME NEW k \in QKeys, ClearQueue(k)
      PROVE  \A j \in QKeys : QueueStep(nq_list[j], nq_list'[j])
  BY <1>1, <1>7 DEF ClearQueue, QueueStep
<1> QED
  BY <1>2, <1>3, <1>4, <1>5, <1>6, <1>7 DEF Command

-----------------------------------------------------------------------------
(***************************************************************************)
(* What a step of packet_out does.                                         *)
(***************************************************************************)

discs(k) == nq_list[k].discs

\* can_pop does not change what a discipline is.
Alike(d, e) ==
    /\ e.type = d.type
    /\ d.type = "band" => e.rate = d.rate /\ e.max_delay = d.max_delay

\* The discipline the worker is at says true, on the packets q.
Admitting(k, q) ==
    /\ i \in 1..Len(discs(k)) /\ i' = i + 1 /\ itr' = itr
    /\ q.fifo = fifo(k)
    /\ NeedsPacket(discs(k)[i]) => fifo(k) # <<>>
    /\ discs(k)[i].type = "band" /\ discs(k)[i].rate > 0 =>
          ~Overdue(discs(k)[i], time, nq_list[k].packets)

\* It has taken a step of its loop, and may have dropped the front packet.
Staying(k, q) ==
    /\ i \in 1..Len(discs(k)) /\ i' = i /\ itr' = itr
    /\ NeedsPacket(discs(k)[i]) /\ fifo(k) # <<>>
    /\ q.fifo \in {fifo(k), Tail(fifo(k))}

\* packet_out returns.
Leaving(k) == i' = 1 /\ itr' = itr \ {k}

ChainMove(k) ==
    /\ At(k)
    /\ keys' = keys /\ time' = time /\ uid_base' = uid_base
    /\ \A j \in QKeys \ {k} : nq_list'[j] = nq_list[j]
    /\ Len(nq_list'[k].discs) = Len(discs(k))
    /\ \A n \in 1..Len(discs(k)) : Alike(discs(k)[n], nq_list'[k].discs[n])
    /\ \/ pc' = "crashed"
       \/ /\ pc' = pc
          /\ \/ Admitting(k, nq_list'[k].packets) \/ Staying(k, nq_list'[k].packets)
             \/ Leaving(k)

\* ChainMove and QueueStep of a queue: what a chain step owes the theorems.
Moves(k) == ChainMove(k) /\ QueueStep(nq_list[k], nq_list'[k])

LEMMA AlikeChain ==
    ASSUME NEW s \in Seq(Disc), NEW n \in 1..Len(s), NEW e \in Disc, Alike(s[n], e)
    PROVE  /\ Len([s EXCEPT ![n] = e]) = Len(s)
           /\ \A m \in 1..Len(s) : Alike(s[m], [s EXCEPT ![n] = e][m])
BY DEF Alike

LEMMA AccrueFields ==
    ASSUME NEW d \in Band, NEW t \in Nat
    PROVE  /\ Accrue(d, t).type = d.type
           /\ Accrue(d, t).rate = d.rate
           /\ Accrue(d, t).burst = d.burst
           /\ Accrue(d, t).max_delay = d.max_delay
           /\ Accrue(d, t).quota =
                Least(d.burst, d.quota + ((AbsVal(t - d.last_ts) * d.rate) \div 1000))
<1> DEFINE quota == Least(d.burst, d.quota + ((AbsVal(t - d.last_ts) * d.rate) \div 1000))
<1>1. Accrue(d, t) = [d EXCEPT !.quota = quota, !.last_ts = t]
  BY DEF Accrue
<1> HIDE DEF quota
<1>2. /\ Accrue(d, t).type = d.type
      /\ Accrue(d, t).rate = d.rate
      /\ Accrue(d, t).burst = d.burst
      /\ Accrue(d, t).max_delay = d.max_delay
      /\ Accrue(d, t).quota = quota
  BY <1>1 DEF Band
<1> QED
  BY <1>2 DEF quota

LEMMA ChargeFields ==
    ASSUME NEW d \in Band, NEW p \in Packet
    PROVE  /\ Charge(d, p).type = d.type
           /\ Charge(d, p).rate = d.rate
           /\ Charge(d, p).burst = d.burst
           /\ Charge(d, p).max_delay = d.max_delay
           /\ Charge(d, p).quota = d.quota - (p.size - 14)
BY DEF Charge, Band

LEMMA AccrueAlike ==
    ASSUME NEW d \in Band, NEW t \in Nat
    PROVE  /\ Alike(d, Accrue(d, t))
           /\ \A p \in Packet : Alike(d, Charge(Accrue(d, t), p))
<1> DEFINE b == Accrue(d, t)
<1>1. b \in Band /\ Alike(d, b)
  BY AccrueType, AccrueFields DEF Alike
<1> HIDE DEF b
<1> QED
  BY <1>1, ChargeFields DEF Alike, b

LEMMA RlossDrawMoves ==
    ASSUME TypeOK, NEW k \in QKeys, RlossDraw(k)
    PROVE  Moves(k)
<1> DEFINE d == [nq_list[k].discs[i] EXCEPT !.last_uid = Head(fifo(k)).uid]
           f == [nq_list EXCEPT ![k].discs[i] = d]
<1>1. PICK drop \in BOOLEAN :
        nq_list' = [nq_list EXCEPT
            ![k].discs[i].last_uid = Head(fifo(k)).uid,
            ![k].packets = IF drop THEN DropFront(@) ELSE @]
  BY DEF RlossDraw, Lottery
<1>2. /\ nq_list[k].discs[i] \in Rloss
      /\ nq_list[k].packets \in PacketsT
      /\ fifo(k) \in Seq(Packet)
      /\ nq_list[k].discs \in Seq(Disc)
      /\ i \in 1..Len(nq_list[k].discs)
      /\ nq_list \in [QKeys -> NQueue]
  BY AtDisc DEF RlossDraw, Asking, TypeOK
<1>3. fifo(k) # <<>>
  BY DEF RlossDraw, Untested, fifo
<1>4. d \in Disc /\ Alike(nq_list[k].discs[i], d)
  <2>1. Head(fifo(k)) \in Packet
    BY <1>2, <1>3
  <2> QED
    BY <1>2, <2>1 DEF Packet, Rloss, Disc, Alike
<1>5. f \in [QKeys -> NQueue]
  BY <1>2, <1>4, SetDiscType, Zenon
<1>6. /\ f[k].packets = nq_list[k].packets
      /\ f[k].sent = nq_list[k].sent
      /\ f[k].discs = [nq_list[k].discs EXCEPT ![i] = d]
      /\ \A j \in QKeys \ {k} : f[j] = nq_list[j]
  BY <1>2, SetDiscFields
<1>7. nq_list' = [f EXCEPT ![k].packets =
                    IF drop THEN DropFront(nq_list[k].packets) ELSE nq_list[k].packets]
  <2>1. CASE drop
    BY <1>1, <1>6, <2>1
  <2>2. CASE ~drop
    BY <1>1, <1>6, <2>2
  <2> QED
    BY <2>1, <2>2
<1> HIDE DEF f, d
<1>8. /\ nq_list'[k].packets \in {nq_list[k].packets, DropFront(nq_list[k].packets)}
      /\ nq_list'[k].sent = nq_list[k].sent
      /\ nq_list'[k].discs = [nq_list[k].discs EXCEPT ![i] = d]
      /\ \A j \in QKeys \ {k} : nq_list'[j] = nq_list[j]
  BY <1>5, <1>6, <1>7, SetPacketsFields
<1>9. Drawing(nq_list[k], nq_list'[k])
  BY <1>2, <1>3, <1>8 DEF Drawing, Becomes, fifo, d
<1>10. Staying(k, nq_list'[k].packets)
  <2>1. nq_list'[k].packets.fifo \in {fifo(k), Tail(fifo(k))}
    BY <1>2, <1>8, PopFields DEF fifo
  <2> QED
    BY <1>2, <1>3, <2>1 DEF RlossDraw, Staying, NeedsPacket, discs, Rloss
<1>11. /\ Len(nq_list'[k].discs) = Len(discs(k))
       /\ \A n \in 1..Len(discs(k)) : Alike(discs(k)[n], nq_list'[k].discs[n])
  BY <1>2, <1>4, <1>8, AlikeChain DEF discs
<1>12. ChainMove(k)
  BY <1>8, <1>10, <1>11 DEF ChainMove, RlossDraw, Asking, Frame
<1> QED
  BY <1>9, <1>12 DEF Moves, QueueStep

LEMMA BandDropMoves ==
    ASSUME TypeOK, NEW k \in QKeys, BandDrop(k)
    PROVE  Moves(k)
<1> DEFINE d == Accrue(nq_list[k].discs[i], time)
           f == [nq_list EXCEPT ![k].discs[i] = d]
<1>1. nq_list' = [f EXCEPT ![k].packets = DropFront(f[k].packets)]
  BY DEF BandDrop
<1>2. /\ nq_list[k].discs[i] \in Band
      /\ nq_list[k].packets \in PacketsT
      /\ nq_list[k].discs \in Seq(Disc)
      /\ fifo(k) \in Seq(Packet)
      /\ i \in 1..Len(nq_list[k].discs)
      /\ nq_list \in [QKeys -> NQueue]
      /\ time \in Nat
  BY AtDisc DEF BandDrop, Asking, TypeOK
<1>3. fifo(k) # <<>>
  BY DEF BandDrop, Overdue, fifo
<1>4. d \in Disc /\ Alike(nq_list[k].discs[i], d)
  <2>1. Head(fifo(k)) \in Packet
    BY <1>2, <1>3
  <2> QED
    BY <1>2, <2>1, AccrueType, AccrueAlike DEF Disc
<1>5. f \in [QKeys -> NQueue]
  BY <1>2, <1>4, SetDiscType, Zenon
<1> HIDE DEF d
<1>6. /\ f[k].packets = nq_list[k].packets
      /\ f[k].sent = nq_list[k].sent
      /\ f[k].discs = [nq_list[k].discs EXCEPT ![i] = d]
      /\ \A j \in QKeys \ {k} : f[j] = nq_list[j]
  BY <1>2, SetDiscFields
<1> HIDE DEF f
<1>7. /\ nq_list'[k].packets = DropFront(nq_list[k].packets)
      /\ nq_list'[k].sent = nq_list[k].sent
      /\ nq_list'[k].discs = [nq_list[k].discs EXCEPT ![i] = d]
      /\ \A j \in QKeys \ {k} : nq_list'[j] = nq_list[j]
  BY <1>1, <1>5, <1>6, SetPacketsFields
<1>8. Earning(nq_list[k], nq_list'[k])
  BY <1>2, <1>3, <1>7 DEF Earning, Becomes, fifo, d
<1>9. Staying(k, nq_list'[k].packets)
  <2>1. nq_list'[k].packets.fifo \in {fifo(k), Tail(fifo(k))}
    BY <1>2, <1>7, PopFields DEF fifo
  <2> QED
    BY <1>2, <1>3, <2>1 DEF BandDrop, Staying, NeedsPacket, discs, Band
<1>10. /\ Len(nq_list'[k].discs) = Len(discs(k))
       /\ \A n \in 1..Len(discs(k)) : Alike(discs(k)[n], nq_list'[k].discs[n])
  BY <1>2, <1>4, <1>7, AlikeChain DEF discs
<1>11. ChainMove(k)
  BY <1>7, <1>9, <1>10 DEF ChainMove, BandDrop, Asking, Frame
<1> QED
  BY <1>8, <1>11 DEF Moves, QueueStep

LEMMA BandDecideMoves ==
    ASSUME TypeOK, NEW k \in QKeys, BandDecide(k)
    PROVE  Moves(k)
<1> DEFINE d == Accrue(nq_list[k].discs[i], time)
<1>1. /\ nq_list[k].discs[i] \in Band
      /\ nq_list[k].discs \in Seq(Disc)
      /\ fifo(k) \in Seq(Packet)
      /\ i \in 1..Len(nq_list[k].discs)
      /\ nq_list \in [QKeys -> NQueue]
      /\ time \in Nat
      /\ discs(k)[i].type = "band"
  BY AtDisc DEF BandDecide, Asking, TypeOK, discs
<1>2. d \in Band
  BY <1>1, AccrueType
<1>3. Alike(nq_list[k].discs[i], d)
  BY <1>1, AccrueAlike
<1>4. ASSUME NEW e \in Disc, Alike(nq_list[k].discs[i], e),
             nq_list' = [nq_list EXCEPT ![k].discs[i] = e]
      PROVE  /\ nq_list'[k].packets = nq_list[k].packets
             /\ Becomes(nq_list[k], nq_list'[k], i, e)
             /\ \A j \in QKeys \ {k} : nq_list'[j] = nq_list[j]
             /\ Len(nq_list'[k].discs) = Len(discs(k))
             /\ \A n \in 1..Len(discs(k)) : Alike(discs(k)[n], nq_list'[k].discs[n])
  <2>1. /\ nq_list'[k].packets = nq_list[k].packets
        /\ nq_list'[k].sent = nq_list[k].sent
        /\ nq_list'[k].discs = [nq_list[k].discs EXCEPT ![i] = e]
        /\ \A j \in QKeys \ {k} : nq_list'[j] = nq_list[j]
    BY <1>1, <1>4, SetDiscFields
  <2> QED
    BY <1>1, <1>4, <2>1, AlikeChain DEF Becomes, discs
<1>5. At(k) /\ keys' = keys /\ time' = time /\ uid_base' = uid_base
  BY DEF BandDecide, BandVerdict, Asking, Frame
<1>6. CASE /\ fifo(k) # <<>> /\ Affordable(d) /\ Admit
           /\ nq_list' = [nq_list EXCEPT ![k].discs[i] = Charge(d, Head(fifo(k)))]
  <2> DEFINE e == Charge(d, Head(fifo(k)))
  <2>1. Head(fifo(k)) \in Packet
    BY <1>1, <1>6
  <2>2. e \in Disc /\ Alike(nq_list[k].discs[i], e)
    BY <1>1, <1>2, <2>1, ChargeType, AccrueAlike DEF Disc
  <2>3. Charging(nq_list[k], nq_list'[k])
    BY <1>1, <1>4, <1>6, <2>2 DEF Charging, fifo
  <2>4. Admitting(k, nq_list'[k].packets)
    BY <1>1, <1>4, <1>6, <2>2 DEF Admitting, Admit, BandDecide, fifo, discs
  <2>5. ChainMove(k)
    BY <1>4, <1>5, <1>6, <2>2, <2>4 DEF ChainMove, Admit
  <2> QED
    BY <2>3, <2>5 DEF Moves, QueueStep
<1>7. CASE nq_list' = [nq_list EXCEPT ![k].discs[i] = d] /\ Leave(k)
  <2>1. d \in Disc
    BY <1>2 DEF Disc
  <2>2. Earning(nq_list[k], nq_list'[k])
    BY <1>1, <1>3, <1>4, <1>7, <2>1 DEF Earning
  <2>3. ChainMove(k)
    BY <1>3, <1>4, <1>5, <1>7, <2>1 DEF ChainMove, Leave, Leaving
  <2> QED
    BY <2>2, <2>3 DEF Moves, QueueStep
<1> QED
  BY <1>6, <1>7 DEF BandDecide, BandVerdict

LEMMA PacketOutMoves ==
    ASSUME TypeOK, NEW k \in QKeys, PacketOut(k)
    PROVE  Moves(k)
<1>1. nq_list \in [QKeys -> NQueue] /\ nq_list[k].discs \in Seq(Disc)
  BY DEF TypeOK, NQueue
<1>2. At(k) /\ keys' = keys /\ time' = time /\ uid_base' = uid_base
  BY DEF PacketOut, Frame
<1>3. CASE fifo(k) # <<>>
  <2> DEFINE p == Pop(nq_list[k].packets)
             n == nq_list[k].sent + 1
             l == Head(fifo(k)).uid
  <2>1. nq_list' = [nq_list EXCEPT ![k].packets = p, ![k].sent = n, ![k].last = l]
    BY <1>3 DEF PacketOut
  <2> HIDE DEF p, n, l
  <2>2. /\ nq_list'[k].packets = p /\ nq_list'[k].sent = n
        /\ nq_list'[k].discs = nq_list[k].discs
        /\ \A j \in QKeys \ {k} : nq_list'[j] = nq_list[j]
    BY <1>1, <2>1 DEF NQueue
  <2>3. Sending(nq_list[k], nq_list'[k])
    BY <1>3, <2>2 DEF Sending, fifo, p, n
  <2>4. ChainMove(k)
    BY <1>2, <1>3, <2>2 DEF ChainMove, PacketOut, Leave, Leaving, Alike, discs
  <2> QED
    BY <2>3, <2>4 DEF Moves, QueueStep
<1>4. CASE fifo(k) = <<>>
  BY <1>2, <1>4 DEF PacketOut, Moves, QueueStep, ChainMove, Alike, discs
<1> QED
  BY <1>3, <1>4

\* The decisions that leave the queues alone.
LEMMA VerdictMoves ==
    ASSUME TypeOK, NEW k \in QKeys,
           RlossDecide(k) \/ BandUnlimited(k) \/ DelayDecide(k) \/ NoQdisc(k)
    PROVE  Moves(k)
<1>1. /\ UNCHANGED nq_list /\ At(k)
      /\ keys' = keys /\ time' = time /\ uid_base' = uid_base
  BY DEF RlossDecide, BandUnlimited, DelayDecide, NoQdisc, Asking, Frame
<1>2. \/ pc' = "crashed"
      \/ pc' = pc /\ (Admitting(k, nq_list'[k].packets) \/ Leaving(k))
  <2>1. CASE RlossDecide(k)
    BY <1>1, <2>1 DEF RlossDecide, Asking, Admit, Leave, Admitting, Leaving, fifo,
           discs, NeedsPacket
  <2>2. CASE BandUnlimited(k)
    <3>1. nq_list[k].discs[i] \in Band
      BY <2>2, AtDisc DEF BandUnlimited
    <3>2. nq_list[k].discs[i].rate \in Nat
      BY <3>1 DEF Band
    <3> QED
      BY <1>1, <2>2, <3>2 DEF BandUnlimited, Asking, Admit, Admitting, fifo, discs,
             NeedsPacket
  <2>3. CASE DelayDecide(k)
    BY <1>1, <2>3 DEF DelayDecide, Asking, Admit, Leave, Admitting, Leaving, fifo,
           discs, NeedsPacket
  <2>4. CASE NoQdisc(k)
    BY <2>4 DEF NoQdisc, Leave, Leaving
  <2> QED
    BY <2>1, <2>2, <2>3, <2>4
<1> QED
  BY <1>1, <1>2 DEF Moves, ChainMove, QueueStep, Alike, discs

LEMMA ChainStepMoves ==
    ASSUME TypeOK, NEW k \in QKeys, ChainStep(k)
    PROVE  Moves(k)
BY RlossDrawMoves, BandDropMoves, BandDecideMoves, PacketOutMoves, VerdictMoves
DEF ChainStep

\* Every step, seen from one queue.
LEMMA NextQueues ==
    ASSUME TypeOK, [Next]_vars, NEW k \in QKeys
    PROVE  QueueStep(nq_list[k], nq_list'[k]) /\ uid_base' \in {uid_base, uid_base + 1}
<1>1. CASE \E f \in Flows, s \in Sizes : PushPacket(f, s)
  BY <1>1, PushPacketStep DEF PushPacket
<1>2. CASE Command
  <2>1. uid_base' = uid_base
    BY <1>2 DEF Command, SetQsize, SetFilter, PushBackQdisc, SetQdisc, FailedCommand,
           ClearQueue, Touch
  <2> QED
    BY <1>2, <2>1, CommandStep
<1>3. CASE \E j \in QKeys : ChainStep(j)
  BY <1>3, ChainStepMoves DEF Moves, ChainMove, QueueStep
<1>4. CASE LoopTest \/ WaitNewPacket \/ ReadClock \/ BeginPass \/ EndPass \/ Stop
  BY <1>4 DEF LoopTest, WaitNewPacket, ReadClock, BeginPass, EndPass, Stop, QueueStep
<1>5. CASE Tick \/ UNCHANGED vars
  BY <1>5 DEF Tick, vars, QueueStep
<1> QED
  BY <1>1, <1>2, <1>3, <1>4, <1>5 DEF Next, Main, Worker
-----------------------------------------------------------------------------
(***************************************************************************)
(* The invariants of a single queue.                                       *)
(***************************************************************************)

LEMMA PushEffect ==
    ASSUME NEW pq \in PacketsT, NEW p \in Packet
    PROVE  /\ Push(pq, p).in = pq.in + 1
           /\ Push(pq, p).limit = pq.limit
           /\ \/ /\ Push(pq, p).fifo = pq.fifo
                 /\ Push(pq, p).total = pq.total
                 /\ Push(pq, p).lost = pq.lost + 1
              \/ /\ Push(pq, p).fifo = Append(pq.fifo, p)
                 /\ Push(pq, p).total = pq.total + p.size
                 /\ Push(pq, p).lost = pq.lost
                 /\ ~(pq.total > pq.limit)
BY DEF Push, PacketsT

LEMMA PopEffect ==
    ASSUME NEW pq \in PacketsT
    PROVE  /\ Pop(pq).in = pq.in /\ DropFront(pq).in = pq.in
           /\ Pop(pq).limit = pq.limit /\ DropFront(pq).limit = pq.limit
           /\ Pop(pq).lost = pq.lost /\ DropFront(pq).lost = pq.lost + 1
           /\ Pop(pq).total = pq.total - Head(pq.fifo).size
           /\ DropFront(pq).total = pq.total - Head(pq.fifo).size
<1> DEFINE t == pq.total - Head(pq.fifo).size
           f == Tail(pq.fifo)
           pop == Pop(pq)
<1>1. pop = [pq EXCEPT !.out = pq.out + 1, !.total = t, !.fifo = f]
  BY DEF Pop
<1> HIDE DEF t, f
<1>2. /\ pop.in = pq.in /\ pop.limit = pq.limit /\ pop.lost = pq.lost
      /\ pop.total = t
      /\ pop = [fifo |-> f, total |-> t, limit |-> pq.limit,
                in |-> pq.in, out |-> pq.out + 1, lost |-> pq.lost]
  BY <1>1 DEF PacketsT
<1>3. DropFront(pq) = [pop EXCEPT !.lost = pop.lost + 1]
  BY DEF DropFront
<1> HIDE DEF pop
<1>4. /\ DropFront(pq).in = pop.in /\ DropFront(pq).limit = pop.limit
      /\ DropFront(pq).lost = pop.lost + 1 /\ DropFront(pq).total = pop.total
  BY <1>2, <1>3
<1> QED
  BY <1>2, <1>4 DEF t, pop

\* What QueueStep says of a queue's packets.
Pushed(q, r, p) == r.packets = Push(q.packets, p) /\ r.sent = q.sent
Dropped(q, r) ==
    q.packets.fifo # <<>> /\ r.packets = DropFront(q.packets) /\ r.sent = q.sent
Popped(q, r) ==
    q.packets.fifo # <<>> /\ r.packets = Pop(q.packets) /\ r.sent = q.sent + 1
Relimited(q, r) ==
    r.sent = q.sent /\ \E n \in Limits : r.packets = [q.packets EXCEPT !.limit = n]
Idle(q, r) == r.packets = q.packets /\ r.sent = q.sent

LEMMA QueuePackets ==
    ASSUME TypeOK, NEW q \in NQueue, NEW r, QueueStep(q, r)
    PROVE  \/ r = NewQueue \/ Idle(q, r) \/ Dropped(q, r) \/ Popped(q, r)
           \/ Relimited(q, r)
           \/ \E p \in Packet : p.uid = uid_base + 1 /\ Pushed(q, r, p)
<1>1. \A s \in Sizes : NewPacket(s) \in Packet /\ NewPacket(s).uid = uid_base + 1
  BY DEF TypeOK, NewPacket, Packet
<1> QED
  BY <1>1 DEF QueueStep, Arrival, Limiting, Refitting, Drawing, Earning, Charging,
     Sending, Becomes, Pushed, Dropped, Popped, Relimited, Idle

Accounted(q) == q.packets.in = q.sent + q.packets.lost + Len(q.packets.fifo)

LEMMA KeepsAccounts ==
    ASSUME TypeOK, NEW q \in NQueue, NEW r, QueueStep(q, r), Accounted(q)
    PROVE  Accounted(r)
<1> DEFINE in == q.packets.in
           sent == q.sent
           lost == q.packets.lost
           waiting == Len(q.packets.fifo)
<1>1. q.packets \in PacketsT /\ q.packets.fifo \in Seq(Packet)
  BY DEF NQueue, PacketsT
<1>2. /\ in \in Nat /\ sent \in Nat /\ lost \in Nat /\ waiting \in Nat
      /\ in = sent + lost + waiting
  BY <1>1 DEF NQueue, PacketsT, Accounted
<1>3. /\ in = sent + (lost + 1) + (waiting - 1)
      /\ in = (sent + 1) + lost + (waiting - 1)
      /\ in + 1 = sent + (lost + 1) + waiting
      /\ in + 1 = sent + lost + (waiting + 1)
  <2> HIDE DEF in, sent, lost, waiting
  <2> QED
    BY <1>2
<1>4. CASE r = NewQueue
  BY <1>4 DEF Accounted, NewQueue, NewPackets
<1>5. CASE Idle(q, r)
  BY <1>5 DEF Accounted, Idle
<1>6. CASE Dropped(q, r)
  <2>1. /\ r.packets.in = in /\ r.sent = sent /\ r.packets.lost = lost + 1
        /\ r.packets.fifo = Tail(q.packets.fifo) /\ q.packets.fifo # <<>>
    BY <1>1, <1>6, PopEffect, PopFields DEF Dropped
  <2>2. Len(r.packets.fifo) = waiting - 1
    BY <1>1, <2>1
  <2> HIDE DEF in, sent, lost, waiting
  <2> QED
    BY <1>3, <2>1, <2>2, Zenon DEF Accounted
<1>7. CASE Popped(q, r)
  <2>1. /\ r.packets.in = in /\ r.sent = sent + 1 /\ r.packets.lost = lost
        /\ r.packets.fifo = Tail(q.packets.fifo) /\ q.packets.fifo # <<>>
    BY <1>1, <1>7, PopEffect, PopFields DEF Popped
  <2>2. Len(r.packets.fifo) = waiting - 1
    BY <1>1, <2>1
  <2> HIDE DEF in, sent, lost, waiting
  <2> QED
    BY <1>3, <2>1, <2>2, Zenon DEF Accounted
<1>8. CASE Relimited(q, r)
  BY <1>1, <1>8 DEF Accounted, Relimited, PacketsT
<1>9. ASSUME NEW p \in Packet, Pushed(q, r, p)
      PROVE  Accounted(r)
  <2>1. Len(Append(q.packets.fifo, p)) = waiting + 1
    BY <1>1
  <2>2. /\ r.packets.in = in + 1 /\ r.sent = sent
        /\ \/ Len(r.packets.fifo) = waiting /\ r.packets.lost = lost + 1
           \/ /\ Len(r.packets.fifo) = Len(Append(q.packets.fifo, p))
              /\ r.packets.lost = lost
    BY <1>1, <1>9, PushEffect DEF Pushed
  <2> HIDE DEF in, sent, lost, waiting
  <2> QED
    BY <1>3, <2>1, <2>2, Zenon DEF Accounted
<1> QED
  BY <1>4, <1>5, <1>6, <1>7, <1>8, <1>9, QueuePackets

\* Every packet counted in is waiting, counted lost or transmitted, and each
\* only once: tail drops, lottery drops, over-delay drops and transmissions
\* keep the counters of packets_raw_queue and the queue itself in step.
THEOREM PacketsAreConserved == Spec => []Conservation
<1> DEFINE Inv == TypeOK /\ \A k \in QKeys : Accounted(nq_list[k])
<1>1. Init => Inv
  BY InitType DEF Init, Accounted, NewQueue, NewPackets
<1>2. Inv /\ [Next]_vars => Inv'
  <2> SUFFICES ASSUME Inv, [Next]_vars PROVE Inv'
    OBVIOUS
  <2>1. ASSUME NEW k \in QKeys
        PROVE  Accounted(nq_list'[k])
    <3>1. nq_list[k] \in NQueue
      BY DEF TypeOK
    <3> QED
      BY <3>1, NextQueues, KeepsAccounts
  <2> QED
    BY <2>1, NextType DEF Accounted
<1>3. Inv => Conservation
  BY DEF Accounted, Conservation
<1> QED
  BY <1>1, <1>2, <1>3, PTL DEF Spec

Limited(q) ==
    /\ q.packets.limit \in Limits \cup {DefaultLimit}
    /\ \/ q.packets.total <= 0
       \/ \E n \in Limits \cup {DefaultLimit}, s \in Sizes : q.packets.total <= n + s

LEMMA PacketSize ==
    ASSUME NEW p \in Packet
    PROVE  p.size \in Sizes /\ p.size \in Nat /\ p.size >= 14
<1>1. p.size \in Sizes
  BY DEF Packet
<1>2. p.size \in Nat
  BY <1>1, SizesAssumption, Zenon
<1>3. p.size >= 14
  BY <1>1, SizesAssumption, Zenon
<1> QED
  BY <1>1, <1>2, <1>3

\* A smaller total is within the same bound.
LEMMA SmallerTotal ==
    ASSUME NEW t \in Int, NEW u \in Int, u <= t,
           \/ t <= 0
           \/ \E n \in Limits \cup {DefaultLimit}, s \in Sizes : t <= n + s
    PROVE  \/ u <= 0
           \/ \E n \in Limits \cup {DefaultLimit}, s \in Sizes : u <= n + s
<1>1. CASE t <= 0
  BY <1>1
<1>2. ASSUME NEW n \in Limits \cup {DefaultLimit}, NEW s \in Sizes, t <= n + s
      PROVE  u <= n + s
  <2>1. n \in Nat
    BY DispatcherAssumption
  <2>2. s \in Nat
    BY SizesAssumption, Zenon
  <2> QED
    BY <1>2, <2>1, <2>2
<1> QED
  BY <1>1, <1>2

LEMMA KeepsLimit ==
    ASSUME TypeOK, NEW q \in NQueue, NEW r, QueueStep(q, r), Limited(q)
    PROVE  Limited(r)
<1>1. /\ q.packets \in PacketsT /\ q.packets.fifo \in Seq(Packet)
      /\ q.packets.total \in Int /\ q.packets.limit \in Nat
  BY DEF NQueue, PacketsT
<1>2. CASE r = NewQueue
  BY <1>2 DEF Limited, NewQueue, NewPackets
<1>3. CASE Idle(q, r)
  BY <1>3 DEF Limited, Idle
<1>4. CASE Dropped(q, r) \/ Popped(q, r)
  <2>1. /\ q.packets.fifo # <<>>
        /\ r.packets.limit = q.packets.limit
        /\ r.packets.total = q.packets.total - Head(q.packets.fifo).size
    BY <1>1, <1>4, PopEffect DEF Dropped, Popped
  <2>2. Head(q.packets.fifo).size \in Nat
    <3>1. Head(q.packets.fifo) \in Packet
      BY <1>1, <2>1
    <3> QED
      BY <3>1, PacketSize
  <2>3. r.packets.total \in Int /\ r.packets.total <= q.packets.total
    BY <1>1, <2>1, <2>2
  <2> QED
    BY <1>1, <2>1, <2>3, SmallerTotal DEF Limited
<1>5. CASE Relimited(q, r)
  <2>1. PICK n \in Limits : r.packets = [q.packets EXCEPT !.limit = n]
    BY <1>5 DEF Relimited
  <2>2. r.packets.limit = n /\ r.packets.total = q.packets.total
    BY <1>1, <2>1 DEF PacketsT
  <2> QED
    BY <2>2 DEF Limited
<1>6. ASSUME NEW p \in Packet, Pushed(q, r, p)
      PROVE  Limited(r)
  <2>1. CASE r.packets.total = q.packets.total /\ r.packets.limit = q.packets.limit
    BY <2>1 DEF Limited
  <2>2. CASE /\ r.packets.total = q.packets.total + p.size
             /\ r.packets.limit = q.packets.limit
             /\ ~(q.packets.total > q.packets.limit)
    <3>1. p.size \in Sizes /\ p.size \in Nat
      BY PacketSize
    <3>2. r.packets.total <= q.packets.limit + p.size
      BY <1>1, <2>2, <3>1
    <3> QED
      BY <2>2, <3>1, <3>2 DEF Limited
  <2> QED
    BY <1>1, <1>6, <2>1, <2>2, PushEffect DEF Pushed
<1> QED
  BY <1>2, <1>3, <1>4, <1>5, <1>6, QueuePackets

\* A queue holds at most one packet more than a limit it was given, for every
\* sequence of arrivals, limit changes and drops: push compares the limit
\* before it adds the packet.
THEOREM LimitsHold == Spec => []LimitBound
<1> DEFINE Inv == TypeOK /\ \A k \in QKeys : Limited(nq_list[k])
<1>1. Init => Inv
  BY InitType DEF Init, Limited, NewQueue, NewPackets
<1>2. Inv /\ [Next]_vars => Inv'
  <2> SUFFICES ASSUME Inv, [Next]_vars PROVE Inv'
    OBVIOUS
  <2>1. ASSUME NEW k \in QKeys
        PROVE  Limited(nq_list'[k])
    <3>1. nq_list[k] \in NQueue
      BY DEF TypeOK
    <3> QED
      BY <3>1, NextQueues, KeepsLimit
  <2> QED
    BY <2>1, NextType DEF Limited
<1>3. Inv => LimitBound
  BY DEF Limited, LimitBound
<1> QED
  BY <1>1, <1>2, <1>3, PTL DEF Spec
-----------------------------------------------------------------------------
(***************************************************************************)
(* The byte account.  DataSize is a recursive function, so what it is is   *)
(* proved by induction on the length of the FIFO, in terms of the set of   *)
(* the lengths for which a statement holds: as `<' is well founded on Nat, *)
(* a number outside of that set would be the successor of one in it.       *)
(***************************************************************************)

LEMMA LeastNumber ==
    ASSUME NEW T, T \subseteq Nat, T # {}
    PROVE  \E x \in T : \A y \in T : ~(y < x)
<1> DEFINE R == OpToRel(<, Nat)
<1>1. IsWellFoundedOn(R, Nat)
  BY NatLessThanWellFounded
<1>2. \A x, y \in Nat : y < x => <<y, x>> \in R
  BY Zenon DEF OpToRel
<1> HIDE DEF R
<1>3. PICK x \in T : \A y \in T : <<y, x>> \notin R
  BY <1>1, WFMin
<1>4. \A y \in T : ~(y < x)
  BY <1>2, <1>3
<1> QED
  BY <1>4

LEMMA Induction ==
    ASSUME NEW S, 0 \in S, \A n \in Nat : n \in S => n + 1 \in S
    PROVE  Nat \subseteq S
<1> DEFINE T == Nat \ S
<1> SUFFICES ASSUME T # {} PROVE FALSE
  OBVIOUS
<1>1. PICK x \in T : \A y \in T : ~(y < x)
  BY LeastNumber, Zenon
<1>2. x \in Nat /\ x # 0
  BY <1>1
<1>3. x - 1 \in Nat /\ x - 1 < x /\ x = (x - 1) + 1
  BY <1>2
<1>4. x - 1 \in S
  BY <1>1, <1>3
<1> QED
  BY <1>1, <1>3, <1>4

\* f[n] is the size of the first n packets of s.
Totals(f, s) == f[0] = 0 /\ \A n \in 1..Len(s) : f[n] = f[n - 1] + s[n].size

LEMMA TotalsExist ==
    ASSUME NEW s \in Seq(Packet)
    PROVE  \E f \in [0..Len(s) -> Nat] : Totals(f, s)
<1> DEFINE Upto(m, f) == f[0] = 0 /\ \A n \in 1..m : f[n] = f[n - 1] + s[n].size
           S == {m \in Nat : m <= Len(s) => \E f \in [0..m -> Nat] : Upto(m, f)}
<1>1. 0 \in S
  <2>1. [n \in 0..0 |-> 0] \in [0..0 -> Nat] /\ Upto(0, [n \in 0..0 |-> 0])
    OBVIOUS
  <2> QED
    BY <2>1
<1>2. ASSUME NEW m \in Nat, m \in S
      PROVE  m + 1 \in S
  <2>1. CASE ~(m + 1 <= Len(s))
    BY <2>1
  <2>2. CASE m + 1 <= Len(s)
    <3>1. Len(s) \in Nat /\ m <= Len(s) /\ m + 1 \in 1..Len(s)
      BY <2>2
    <3>2. PICK f \in [0..m -> Nat] : Upto(m, f)
      BY <1>2, <3>1
    <3>3. s[m + 1].size \in Nat
      BY <3>1, PacketSize
    <3> DEFINE a == s[m + 1].size
               g == [n \in 0..(m + 1) |-> IF n <= m THEN f[n] ELSE f[m] + a]
    <3>4. g \in [0..(m + 1) -> Nat]
      BY <3>2, <3>3
    <3>5. Upto(m + 1, g)
      <4>1. g[0] = 0 /\ \A n \in 1..m : g[n] = g[n - 1] + s[n].size
        BY <3>2
      <4>2. g[m + 1] = g[m] + s[m + 1].size
        OBVIOUS
      <4> HIDE DEF g
      <4>3. \A n \in 1..(m + 1) : n \in 1..m \/ n = m + 1
        OBVIOUS
      <4>4. (m + 1) - 1 = m
        OBVIOUS
      <4> QED
        BY <4>1, <4>2, <4>3, <4>4, Zenon
    <3>6. \E h \in [0..(m + 1) -> Nat] : Upto(m + 1, h)
      <4> HIDE DEF g, Upto
      <4> QED
        BY <3>4, <3>5
    <3> HIDE DEF g, Upto
    <3> QED
      BY <3>6
  <2> QED
    BY <2>1, <2>2
<1>3. Len(s) \in Nat
  OBVIOUS
<1>4. Len(s) \in S
  <2> HIDE DEF S
  <2> QED
    BY <1>1, <1>2, <1>3, Induction
<1> QED
  BY <1>4 DEF Totals

LEMMA TotalsAgree ==
    ASSUME NEW s \in Seq(Packet), NEW f, NEW g, Totals(f, s), Totals(g, s)
    PROVE  f[Len(s)] = g[Len(s)]
<1> DEFINE S == {m \in Nat : m <= Len(s) => f[m] = g[m]}
<1>1. Len(s) \in Nat /\ 0 \in S
  BY DEF Totals
<1>2. ASSUME NEW m \in Nat, m \in S
      PROVE  m + 1 \in S
  <2> SUFFICES ASSUME m + 1 <= Len(s)
               PROVE  f[m + 1] = g[m + 1]
    OBVIOUS
  <2>1. f[m] = g[m] /\ m + 1 \in 1..Len(s) /\ (m + 1) - 1 = m
    BY <1>1, <1>2
  <2> QED
    BY <2>1 DEF Totals
<1>3. Len(s) \in S
  <2> HIDE DEF S
  <2> QED
    BY <1>1, <1>2, Induction
<1> QED
  BY <1>3

LEMMA DataSizeIs ==
    ASSUME NEW s \in Seq(Packet), NEW f, Totals(f, s)
    PROVE  DataSize(s) = f[Len(s)]
<1> DEFINE Sum(g) == [n \in 0..Len(s) |-> IF n = 0 THEN 0 ELSE g[n - 1] + s[n].size]
           sum == CHOOSE g : g = Sum(g)
<1>1. \E g : g = Sum(g)
  <2>1. PICK g \in [0..Len(s) -> Nat] : Totals(g, s)
    BY TotalsExist
  <2>2. g = Sum(g)
    <3>1. Len(s) \in Nat
      OBVIOUS
    <3>2. \A n \in 0..Len(s) : g[n] = Sum(g)[n]
      BY <2>1, <3>1 DEF Totals
    <3> QED
      BY <2>1, <3>2
  <2> QED
    BY <2>2
<1>2. sum = Sum(sum)
  BY <1>1, Zenon
<1>3. DataSize(s) = sum[Len(s)]
  BY Zenon DEF DataSize
<1> HIDE DEF sum
<1>4. Totals(sum, s)
  <2>1. Len(s) \in Nat
    OBVIOUS
  <2>2. \A n \in 0..Len(s) : sum[n] = Sum(sum)[n]
    BY <1>2, Zenon
  <2> QED
    BY <2>1, <2>2 DEF Totals
<1>5. sum[Len(s)] = f[Len(s)]
  BY <1>4, TotalsAgree
<1> QED
  BY <1>3, <1>5

LEMMA DataSizeOf ==
    /\ DataSize(<<>>) = 0
    /\ \A s \in Seq(Packet) : DataSize(s) \in Nat
    /\ \A s \in Seq(Packet), p \in Packet : DataSize(Append(s, p)) = DataSize(s) + p.size
    /\ \A s \in Seq(Packet) : s # <<>> =>
          DataSize(s) = Head(s).size + DataSize(Tail(s)) /\ DataSize(Tail(s)) \in Nat
<1>1. DataSize(<<>>) = 0
  <2>1. <<>> \in Seq(Packet) /\ Len(<<>>) = 0
    OBVIOUS
  <2>2. PICK f \in [0..0 -> Nat] : Totals(f, <<>>)
    BY <2>1, TotalsExist
  <2> QED
    BY <2>1, <2>2, DataSizeIs DEF Totals
<1>2. ASSUME NEW s \in Seq(Packet)
      PROVE  DataSize(s) \in Nat
  <2>1. PICK f \in [0..Len(s) -> Nat] : Totals(f, s)
    BY TotalsExist
  <2> QED
    BY <2>1, DataSizeIs
<1>3. ASSUME NEW s \in Seq(Packet), NEW p \in Packet
      PROVE  DataSize(Append(s, p)) = DataSize(s) + p.size
  <2> DEFINE N == Len(s)
             t == Append(s, p)
  <2>1. PICK f \in [0..N -> Nat] : Totals(f, s)
    BY TotalsExist
  <2> DEFINE g == [n \in 0..(N + 1) |-> IF n <= N THEN f[n] ELSE f[N] + p.size]
  <2>2. /\ N \in Nat /\ t \in Seq(Packet) /\ Len(t) = N + 1
        /\ \A n \in 1..N : t[n] = s[n]
        /\ t[N + 1] = p
    OBVIOUS
  <2> HIDE DEF t, N
  <2>3. Totals(g, t)
    <3>1. \A n \in 1..N : f[n] = f[n - 1] + s[n].size
      BY <2>1 DEF Totals, N
    <3>2. g[0] = 0
      BY <2>1, <2>2 DEF Totals
    <3>3. \A n \in 1..N : g[n] = g[n - 1] + t[n].size
      BY <2>2, <3>1
    <3>4. g[N + 1] = g[N] + t[N + 1].size
      BY <2>2
    <3> HIDE DEF g
    <3>5. (N + 1) - 1 = N /\ \A n \in 1..(N + 1) : n \in 1..N \/ n = N + 1
      BY <2>2
    <3>6. \A n \in 1..(N + 1) : g[n] = g[n - 1] + t[n].size
      BY <3>3, <3>4, <3>5, Zenon
    <3> QED
      BY <2>2, <3>2, <3>6, Zenon DEF Totals
  <2>4. DataSize(t) = g[N + 1] /\ DataSize(s) = f[N]
    <3> HIDE DEF g
    <3> QED
      BY <2>1, <2>2, <2>3, DataSizeIs DEF N
  <2>5. g[N + 1] = f[N] + p.size
    BY <2>2
  <2> HIDE DEF g
  <2> QED
    BY <2>4, <2>5, Zenon DEF t
<1>4. ASSUME NEW s \in Seq(Packet), s # <<>>
      PROVE  DataSize(s) = Head(s).size + DataSize(Tail(s)) /\ DataSize(Tail(s)) \in Nat
  <2> DEFINE N == Len(s)
             t == Tail(s)
             a == Head(s).size
  <2>1. PICK f \in [0..N -> Nat] : Totals(f, s)
    BY TotalsExist
  <2> DEFINE g == [n \in 0..(N - 1) |-> f[n + 1] - a]
  <2>2. /\ N \in Nat \ {0} /\ t \in Seq(Packet) /\ Len(t) = N - 1
        /\ \A n \in 1..(N - 1) : t[n] = s[n + 1]
        /\ Head(s) = s[1] /\ Head(s) \in Packet
    BY <1>4
  <2>3. a \in Nat
    BY <2>2, PacketSize
  <2>4. /\ f[1] = a
        /\ \A n \in 1..(N - 1) : f[n + 1] = f[n] + t[n].size
    <3>1. \A n \in 1..N : f[n] = f[n - 1] + s[n].size
      BY <2>1 DEF Totals
    <3>2. f[0] = 0 /\ 1 \in 1..N /\ 1 - 1 = 0
      BY <2>1, <2>2 DEF Totals
    <3>3. f[1] = a
      <4> HIDE DEF N
      <4> QED
        BY <2>2, <2>3, <3>1, <3>2
    <3>4. ASSUME NEW n \in 1..(N - 1)
          PROVE  f[n + 1] = f[n] + t[n].size
      <4>1. n + 1 \in 1..N /\ (n + 1) - 1 = n /\ t[n] = s[n + 1]
        BY <2>2
      <4> HIDE DEF N, t
      <4> QED
        BY <3>1, <4>1
    <3> QED
      BY <3>3, <3>4
  <2> HIDE DEF t, N, a
  <2>5. Totals(g, t)
    <3>1. g[0] = 0
      BY <2>2, <2>3, <2>4
    <3>2. ASSUME NEW n \in 1..(N - 1)
          PROVE  g[n] = g[n - 1] + t[n].size
      <4>1. /\ n \in 0..(N - 1) /\ n - 1 \in 0..(N - 1) /\ (n - 1) + 1 = n
            /\ n \in 0..N /\ n + 1 \in 0..N /\ n \in 1..(N - 1)
        BY <2>2
      <4>2. g[n] = f[n + 1] - a /\ g[n - 1] = f[n] - a
        BY <4>1
      <4>3. f[n + 1] = f[n] + t[n].size
        BY <2>4, <4>1
      <4>4. f[n] \in Nat /\ t[n].size \in Nat
        <5>1. t[n] \in Packet
          BY <2>2, <4>1
        <5> QED
          BY <2>1, <4>1, <5>1, PacketSize
      <4> HIDE DEF g
      <4> QED
        BY <2>3, <4>2, <4>3, <4>4
    <3> HIDE DEF g
    <3> QED
      BY <2>2, <3>1, <3>2 DEF Totals
  <2>6. DataSize(t) = g[N - 1] /\ DataSize(s) = f[N]
    <3> HIDE DEF g
    <3> QED
      BY <2>1, <2>2, <2>5, DataSizeIs DEF N
  <2>7. g[N - 1] = f[N] - a /\ f[N] \in Nat
    BY <2>1, <2>2
  <2>8. DataSize(t) \in Nat
    BY <1>2, <2>2
  <2> HIDE DEF g
  <2>9. DataSize(s) = a + DataSize(t)
    BY <2>3, <2>6, <2>7
  <2> QED
    BY <2>8, <2>9 DEF t, a
<1> QED
  BY <1>1, <1>2, <1>3, <1>4

Counted(q) == q.packets.total = DataSize(q.packets.fifo)

LEMMA KeepsBytes ==
    ASSUME TypeOK, NEW q \in NQueue, NEW r, QueueStep(q, r), Counted(q)
    PROVE  Counted(r)
<1>1. /\ q.packets \in PacketsT /\ q.packets.fifo \in Seq(Packet)
      /\ DataSize(q.packets.fifo) \in Nat
  BY DataSizeOf DEF NQueue, PacketsT
<1>2. CASE r = NewQueue
  BY <1>2, DataSizeOf DEF Counted, NewQueue, NewPackets
<1>3. CASE Idle(q, r)
  BY <1>3 DEF Counted, Idle
<1>4. CASE Dropped(q, r) \/ Popped(q, r)
  <2> DEFINE s == q.packets.fifo
  <2>1. /\ s # <<>> /\ r.packets.fifo = Tail(s)
        /\ r.packets.total = q.packets.total - Head(s).size
    BY <1>1, <1>4, PopEffect, PopFields DEF Dropped, Popped
  <2>2. DataSize(s) = Head(s).size + DataSize(Tail(s)) /\ DataSize(Tail(s)) \in Nat
    BY <1>1, <2>1, DataSizeOf, Zenon
  <2>3. Head(s).size \in Nat
    <3>1. Head(s) \in Packet
      BY <1>1, <2>1
    <3> QED
      BY <3>1, PacketSize
  <2>4. r.packets.total = DataSize(Tail(s))
    <3> HIDE DEF s
    <3> QED
      BY <2>1, <2>2, <2>3 DEF Counted, s
  <2> QED
    BY <2>1, <2>4, Zenon DEF Counted
<1>5. CASE Relimited(q, r)
  BY <1>1, <1>5 DEF Counted, Relimited, PacketsT
<1>6. ASSUME NEW p \in Packet, Pushed(q, r, p)
      PROVE  Counted(r)
  <2>1. DataSize(Append(q.packets.fifo, p)) = DataSize(q.packets.fifo) + p.size
    BY <1>1, DataSizeOf, Zenon
  <2> QED
    BY <1>1, <1>6, <2>1, PushEffect, Zenon DEF Pushed, Counted
<1> QED
  BY <1>2, <1>3, <1>4, <1>5, <1>6, QueuePackets

LEMMA BytesInductive ==
    TypeOK /\ ByteAccounting /\ [Next]_vars => ByteAccounting'
<1> SUFFICES ASSUME TypeOK, ByteAccounting, [Next]_vars PROVE ByteAccounting'
  OBVIOUS
<1>1. ASSUME NEW k \in QKeys
      PROVE  Counted(nq_list'[k])
  <2>1. nq_list[k] \in NQueue /\ Counted(nq_list[k])
    BY Zenon DEF TypeOK, ByteAccounting, Counted, fifo
  <2> QED
    BY <2>1, NextQueues, KeepsBytes
<1> QED
  BY <1>1, Zenon DEF ByteAccounting, Counted, fifo

LEMMA BytesCounted == Spec => [](TypeOK /\ ByteAccounting)
<1>1. Init => TypeOK /\ ByteAccounting
  BY InitType, DataSizeOf DEF Init, ByteAccounting, fifo, NewQueue, NewPackets
<1>2. TypeOK /\ ByteAccounting /\ [Next]_vars => (TypeOK /\ ByteAccounting)'
  BY BytesInductive, NextType
<1> QED
  BY <1>1, <1>2, PTL DEF Spec

\* The byte counter of every queue is the sum of the sizes of the packets in
\* it, for every sequence of arrivals, drops and transmissions.
THEOREM BytesAreAccounted == Spec => []ByteAccounting
BY BytesCounted, PTL

\* What push and pop compute with never leaves the naturals: the counter has
\* at least the bytes of the packet that pop subtracts, so it never wraps.
THEOREM CountersNeverWrap ==
    Spec => [](\A k \in QKeys : /\ nq_list[k].packets.total \in Nat
                                /\ fifo(k) # <<>> =>
                                      Head(fifo(k)).size <= nq_list[k].packets.total)
<1> DEFINE Inv == \A k \in QKeys : /\ nq_list[k].packets.total \in Nat
                                   /\ fifo(k) # <<>> =>
                                         Head(fifo(k)).size <= nq_list[k].packets.total
<1>1. TypeOK /\ ByteAccounting => Inv
  <2> SUFFICES ASSUME TypeOK, ByteAccounting, NEW k \in QKeys
               PROVE  /\ nq_list[k].packets.total \in Nat
                      /\ fifo(k) # <<>> => Head(fifo(k)).size <= nq_list[k].packets.total
    OBVIOUS
  <2>1. fifo(k) \in Seq(Packet) /\ nq_list[k].packets.total = DataSize(fifo(k))
    BY QueueTypes DEF ByteAccounting
  <2>2. DataSize(fifo(k)) \in Nat
    BY <2>1, DataSizeOf, Zenon
  <2>3. ASSUME fifo(k) # <<>>
        PROVE  Head(fifo(k)).size <= DataSize(fifo(k))
    <3>1. /\ DataSize(fifo(k)) = Head(fifo(k)).size + DataSize(Tail(fifo(k)))
          /\ DataSize(Tail(fifo(k))) \in Nat
      BY <2>1, <2>3, DataSizeOf, Zenon
    <3>2. Head(fifo(k)) \in Packet
      BY <2>1, <2>3
    <3>3. Head(fifo(k)).size \in Nat
      BY <3>2, PacketSize
    <3> QED
      BY <3>1, <3>3
  <2> QED
    BY <2>1, <2>2, <2>3
<1> QED
  BY <1>1, BytesCounted, PTL
-----------------------------------------------------------------------------
(***************************************************************************)
(* The invariants of a chain.                                              *)
(***************************************************************************)

\* What QueueStep says of a queue's chain: a discipline is created, draws,
\* earns, or earns and charges.
Created(e) == \E c \in Configs, g \in Garbage : e = CreateQdisc(c, g)
Drew(q, d, e) ==
    /\ d \in Rloss /\ q.packets.fifo # <<>>
    /\ e = [d EXCEPT !.last_uid = Head(q.packets.fifo).uid]
Earned(d, e) == d \in Band /\ \E t \in Nat : e = Accrue(d, t)
Charged(d, e) ==
    /\ d \in Band
    /\ \E t \in Nat, p \in Packet :
          Affordable(Accrue(d, t)) /\ e = Charge(Accrue(d, t), p)

LEMMA QueueChain ==
    ASSUME NEW q \in NQueue, NEW r, QueueStep(q, r)
    PROVE  \/ r.discs = q.discs \/ r.discs = <<>>
           \/ \E e : Created(e) /\ r.discs = Append(q.discs, e)
           \/ \E n \in 1..Len(q.discs) : \E e :
                 /\ r.discs = [q.discs EXCEPT ![n] = e]
                 /\ \/ Created(e) \/ Drew(q, q.discs[n], e)
                    \/ Earned(q.discs[n], e) \/ Charged(q.discs[n], e)
<1>1. CASE r = q \/ r = NewQueue \/ Arrival(q, r) \/ Limiting(q, r) \/ Sending(q, r)
  BY <1>1 DEF NewQueue, Arrival, Limiting, Sending
<1>2. CASE Refitting(q, r)
  BY <1>2 DEF Refitting, Created
<1>3. CASE Drawing(q, r)
  BY <1>3 DEF Drawing, Becomes, Drew
<1>4. CASE Earning(q, r)
  BY <1>4 DEF Earning, Becomes, Earned
<1>5. CASE Charging(q, r)
  <2>1. PICK n \in 1..Len(q.discs), t \in Nat :
          /\ q.discs[n] \in Band /\ q.packets.fifo # <<>>
          /\ Affordable(Accrue(q.discs[n], t))
          /\ Becomes(q, r, n, Charge(Accrue(q.discs[n], t), Head(q.packets.fifo)))
    BY <1>5 DEF Charging
  <2>2. Head(q.packets.fifo) \in Packet
    BY <2>1 DEF NQueue, PacketsT
  <2> QED
    BY <2>1, <2>2 DEF Becomes, Charged
<1> QED
  BY <1>1, <1>2, <1>3, <1>4, <1>5 DEF QueueStep

\* A chain stays a sequence over a set that its new discipline is in.
LEMMA ChainOver ==
    ASSUME NEW S, NEW s \in Seq(S), NEW e \in S
    PROVE  /\ Append(s, e) \in Seq(S)
           /\ \A n \in 1..Len(s) : s[n] \in S /\ [s EXCEPT ![n] = e] \in Seq(S)
OBVIOUS

LEMMA EmptyOver == \A S : <<>> \in Seq(S)
OBVIOUS

LEMMA CreatedFields ==
    ASSUME NEW e, Created(e)
    PROVE  /\ e \in Disc
           /\ e.type = "rloss" => e.last_uid = 0
           /\ e.type = "band" => e.quota = 0 /\ e.burst \in Nat
<1>1. PICK c \in Configs, g \in Garbage : e = CreateQdisc(c, g)
  BY DEF Created
<1>2. c \in Config /\ g \in Int
  BY DispatcherAssumption
<1>3. e \in Disc
  BY <1>1, CreateType
<1>4. CASE c \in [type : {"rloss"}, rloss : Nat]
  BY <1>1, <1>3, <1>4 DEF CreateQdisc
<1>5. CASE c \in [type : {"band"}, rate : Nat, burst : Nat, max_delay : Nat]
  BY <1>1, <1>2, <1>3, <1>5 DEF CreateQdisc
<1>6. CASE c \in [type : {"delay"}, delay : Nat]
  BY <1>1, <1>3, <1>6 DEF CreateQdisc
<1> QED
  BY <1>2, <1>4, <1>5, <1>6 DEF Config

\* The disciplines whose quota is within QuotaBound.
Solvent == {d \in Disc : d.type = "band" =>
               /\ d.quota <= d.burst
               /\ d.quota >= 0 \/ \E s \in Sizes : d.quota > 14 - s}

LEMMA AccrueSolvent ==
    ASSUME NEW d \in Band, d \in Solvent, NEW t \in Nat
    PROVE  Accrue(d, t) \in Solvent /\ Accrue(d, t) \in Band
<1> DEFINE b == Accrue(d, t)
           e == (AbsVal(t - d.last_ts) * d.rate) \div 1000
<1>1. /\ d.quota \in Int /\ d.burst \in Nat /\ d.rate \in Nat /\ d.last_ts \in Int
      /\ d.type = "band"
  BY DEF Band
<1>2. e \in Nat
  <2> DEFINE a == t - d.last_ts
             r == d.rate
  <2>1. a \in Int /\ r \in Nat
    BY <1>1
  <2> HIDE DEF a, r
  <2>2. AbsVal(a) \in Nat
    BY <2>1 DEF AbsVal
  <2>3. AbsVal(a) * r \in Nat
    <3>1. \A m, n \in Nat : m * n \in Nat
      OBVIOUS
    <3> QED
      BY <2>1, <2>2, <3>1
  <2>4. (AbsVal(a) * r) \div 1000 \in Nat
    BY <2>3
  <2> QED
    BY <2>4 DEF a, r
<1>3. /\ b \in Band /\ b.type = d.type /\ b.burst = d.burst
      /\ b.quota = Least(d.burst, d.quota + e)
  BY AccrueType, AccrueFields
<1> HIDE DEF b, e
<1>4. d.quota <= d.burst /\ (d.quota >= 0 \/ \E s \in Sizes : d.quota > 14 - s)
  BY <1>1 DEF Solvent
<1>5. b.quota \in Int /\ b.quota <= d.burst /\ b.quota >= d.quota
  BY <1>1, <1>2, <1>3, <1>4 DEF Least
<1>6. b.quota >= 0 \/ \E s \in Sizes : b.quota > 14 - s
  <2>1. CASE d.quota >= 0
    BY <1>1, <1>5, <2>1
  <2>2. ASSUME NEW s \in Sizes, d.quota > 14 - s
        PROVE  b.quota > 14 - s
    <3>1. s \in Nat
      BY SizesAssumption, Zenon
    <3> QED
      BY <1>1, <1>5, <2>2, <3>1
  <2> QED
    BY <1>4, <2>1, <2>2
<1>7. b \in Solvent
  BY <1>3, <1>5, <1>6 DEF Solvent, Disc
<1> QED
  BY <1>3, <1>7 DEF b

LEMMA ChargeSolvent ==
    ASSUME NEW d \in Band, d \in Solvent, Affordable(d), NEW p \in Packet
    PROVE  Charge(d, p) \in Solvent
<1>1. d.quota \in Int /\ d.burst \in Nat /\ d.type = "band"
  BY DEF Band
<1>2. d.quota <= d.burst /\ d.quota > 0
  BY <1>1 DEF Solvent, Affordable
<1>3. /\ Charge(d, p) \in Band /\ Charge(d, p).burst = d.burst
      /\ Charge(d, p).quota = d.quota - (p.size - 14)
  BY ChargeType, ChargeFields
<1>4. p.size \in Sizes /\ p.size \in Nat /\ p.size >= 14
  BY PacketSize
<1>5. d.quota - (p.size - 14) <= d.burst /\ d.quota - (p.size - 14) > 14 - p.size
  BY <1>1, <1>2, <1>4
<1> QED
  BY <1>3, <1>4, <1>5 DEF Solvent, Disc

LEMMA KeepsSolvent ==
    ASSUME NEW q \in NQueue, NEW r, QueueStep(q, r), q.discs \in Seq(Solvent)
    PROVE  r.discs \in Seq(Solvent)
<1>1. \A e : Created(e) => e \in Solvent
  BY CreatedFields DEF Solvent
<1>2. ASSUME NEW d \in Solvent, NEW e, Earned(d, e) \/ Charged(d, e)
      PROVE  e \in Solvent
  BY <1>2, AccrueSolvent, ChargeSolvent DEF Earned, Charged
<1>3. ASSUME NEW d \in Solvent, NEW e, Drew(q, d, e)
      PROVE  e \in Solvent
  <2>1. Head(q.packets.fifo) \in Packet
    BY <1>3 DEF Drew, NQueue, PacketsT
  <2>2. e \in Rloss
    BY <1>3, <2>1 DEF Drew, Packet, Rloss
  <2> QED
    BY <2>2 DEF Solvent, Disc, Rloss
<1>4. \A n \in 1..Len(q.discs) : q.discs[n] \in Solvent
  OBVIOUS
<1>5. CASE r.discs = q.discs \/ r.discs = <<>>
  BY <1>5, EmptyOver, Zenon
<1>6. ASSUME NEW e \in Solvent, r.discs = Append(q.discs, e)
      PROVE  r.discs \in Seq(Solvent)
  BY <1>6, ChainOver
<1>7. ASSUME NEW e \in Solvent, NEW n \in 1..Len(q.discs),
             r.discs = [q.discs EXCEPT ![n] = e]
      PROVE  r.discs \in Seq(Solvent)
  BY <1>7, ChainOver
<1>8. CASE \E e : Created(e) /\ r.discs = Append(q.discs, e)
  BY <1>1, <1>6, <1>8, Zenon
<1>9. ASSUME NEW n \in 1..Len(q.discs), NEW e,
             r.discs = [q.discs EXCEPT ![n] = e],
             \/ Created(e) \/ Drew(q, q.discs[n], e)
             \/ Earned(q.discs[n], e) \/ Charged(q.discs[n], e)
      PROVE  r.discs \in Seq(Solvent)
  <2>1. e \in Solvent
    BY <1>1, <1>2, <1>3, <1>4, <1>9, Zenon
  <2> QED
    BY <1>7, <1>9, <2>1, Zenon
<1>10. CASE \E n \in 1..Len(q.discs) : \E e :
              /\ r.discs = [q.discs EXCEPT ![n] = e]
              /\ \/ Created(e) \/ Drew(q, q.discs[n], e)
                 \/ Earned(q.discs[n], e) \/ Charged(q.discs[n], e)
  BY <1>9, <1>10, Zenon
<1> QED
  BY <1>5, <1>8, <1>10, QueueChain, Zenon

\* A band owes at most one packet and never saves up more than its burst,
\* for every rate, burst and initial time stamp: can_pop caps the quota
\* when it earns, and charges only while some quota is left.
THEOREM QuotasAreBounded == Spec => []QuotaBound
<1> DEFINE Inv == TypeOK /\ \A k \in QKeys : nq_list[k].discs \in Seq(Solvent)
<1>1. Init => Inv
  <2> SUFFICES ASSUME Init PROVE Inv
    OBVIOUS
  <2>1. \A k \in QKeys : nq_list[k].discs = <<>>
    BY DEF Init, NewQueue
  <2>2. \A k \in QKeys : nq_list[k].discs \in Seq(Solvent)
    BY <2>1, EmptyOver, Zenon
  <2> QED
    BY <2>2, InitType
<1>2. Inv /\ [Next]_vars => Inv'
  <2> SUFFICES ASSUME Inv, [Next]_vars PROVE Inv'
    OBVIOUS
  <2>1. ASSUME NEW k \in QKeys
        PROVE  nq_list'[k].discs \in Seq(Solvent)
    <3>1. nq_list[k] \in NQueue
      BY DEF TypeOK
    <3> QED
      BY <3>1, NextQueues, KeepsSolvent
  <2> QED
    BY <2>1, NextType
<1>3. Inv => QuotaBound
  <2> SUFFICES ASSUME Inv, NEW k \in QKeys, NEW n \in 1..Len(nq_list[k].discs),
                      nq_list[k].discs[n].type = "band"
               PROVE  LET d == nq_list[k].discs[n] IN
                      /\ d.quota <= d.burst
                      /\ d.quota >= 0 \/ \E s \in Sizes : d.quota > 14 - s
    BY DEF QuotaBound
  <2>1. nq_list[k].discs[n] \in Solvent
    OBVIOUS
  <2> QED
    BY <2>1 DEF Solvent
<1> QED
  BY <1>1, <1>2, <1>3, PTL DEF Spec
\* When the front packet leaves, the packet behind it is newer.
LEMMA OrderedFront ==
    ASSUME NEW s \in Seq(Packet), s # <<>>, NEW l \in Nat, NEW b \in Nat, NEW t \in Nat,
           Ordered(s, l, b, t)
    PROVE  /\ Head(s) \in Packet /\ Head(s).uid \in Nat /\ Head(s).in_time \in Nat
           /\ Head(s).uid <= b
           /\ Tail(s) \in Seq(Packet)
           /\ Tail(s) # <<>> =>
                /\ Head(Tail(s)).uid \in Nat /\ Head(Tail(s)).in_time \in Nat
                /\ Head(s).uid <= Head(Tail(s)).uid
                /\ Head(s).in_time <= Head(Tail(s)).in_time
<1>1. Head(s) = s[1] /\ 1 \in 1..Len(s) /\ Head(s) \in Packet /\ Tail(s) \in Seq(Packet)
  OBVIOUS
<1>2. Head(s).uid \in Nat /\ Head(s).in_time \in Nat /\ Head(s).uid <= b
  BY <1>1, PacketNumbers DEF Ordered
<1>3. ASSUME Tail(s) # <<>>
      PROVE  /\ Head(Tail(s)).uid \in Nat /\ Head(Tail(s)).in_time \in Nat
             /\ Head(s).uid <= Head(Tail(s)).uid
             /\ Head(s).in_time <= Head(Tail(s)).in_time
  <2>1. Head(Tail(s)) = s[2] /\ 2 \in 1..Len(s)
    BY <1>3
  <2>2. s[1].uid < s[2].uid /\ s[1].in_time <= s[2].in_time
    BY <1>1, <2>1 DEF Ordered
  <2>3. s[1].uid \in Nat /\ s[2].uid \in Nat /\ s[2].in_time \in Nat
    BY <1>1, <2>1, PacketNumbers
  <2> QED
    BY <1>1, <2>1, <2>2, <2>3
<1> QED
  BY <1>1, <1>2, <1>3

LEMMA AppendHead ==
    ASSUME NEW s \in Seq(Packet), NEW p \in Packet
    PROVE  /\ Append(s, p) # <<>>
           /\ s = <<>> => Head(Append(s, p)) = p
           /\ s # <<>> => Head(Append(s, p)) = Head(s)
<1> DEFINE a == Append(s, p)
<1>1. /\ a \in Seq(Packet) /\ Len(a) = Len(s) + 1 /\ Len(s) \in Nat
      /\ a[Len(s) + 1] = p
      /\ \A n \in 1..Len(s) : a[n] = s[n]
  OBVIOUS
<1> HIDE DEF a
<1>2. a # <<>> /\ Head(a) = a[1]
  BY <1>1
<1>3. s = <<>> => a[1] = p
  BY <1>1
<1>4. s # <<>> => 1 \in 1..Len(s) /\ Head(s) = s[1]
  OBVIOUS
<1> QED
  BY <1>1, <1>2, <1>3, <1>4 DEF a

\* The newest packet a lottery of the queue can have been held for.
Front(pq, b) == IF pq.fifo = <<>> THEN b ELSE Head(pq.fifo).uid

LEMMA FrontAdvances ==
    ASSUME TypeOK, NEW q \in NQueue, NEW r, QueueStep(q, r), r # NewQueue,
           NEW l \in Nat, Ordered(q.packets.fifo, l, uid_base, now),
           NEW b \in {uid_base, uid_base + 1}
    PROVE  /\ Front(q.packets, uid_base) \in Nat /\ Front(r.packets, b) \in Nat
           /\ Front(q.packets, uid_base) <= Front(r.packets, b)
<1> DEFINE s == q.packets.fifo
           u == r.packets.fifo
<1>1. /\ q.packets \in PacketsT /\ s \in Seq(Packet)
      /\ uid_base \in Nat /\ now \in Nat /\ b \in Nat /\ uid_base <= b
  BY DEF NQueue, PacketsT, TypeOK
<1>2. s # <<>> => Head(s).uid \in Nat /\ Head(s).uid <= uid_base
  BY <1>1, OrderedFront
<1>3. CASE u = s
  BY <1>1, <1>2, <1>3 DEF Front
<1>4. CASE s # <<>> /\ u = Tail(s)
  <2>1. /\ Head(s).uid \in Nat /\ Head(s).uid <= uid_base
        /\ u # <<>> => Head(u).uid \in Nat /\ Head(s).uid <= Head(u).uid
    BY <1>1, <1>4, OrderedFront
  <2>2. Front(q.packets, uid_base) = Head(s).uid
    BY <1>4 DEF Front
  <2> HIDE DEF s, u
  <2>3. CASE u = <<>>
    BY <1>1, <2>1, <2>2, <2>3 DEF Front, u
  <2>4. CASE u # <<>>
    BY <1>1, <2>1, <2>2, <2>4 DEF Front, u
  <2> QED
    BY <2>3, <2>4
<1>5. ASSUME NEW p \in Packet, p.uid = uid_base + 1, u = Append(s, p)
      PROVE  /\ Front(q.packets, uid_base) \in Nat /\ Front(r.packets, b) \in Nat
             /\ Front(q.packets, uid_base) <= Front(r.packets, b)
  <2>1. /\ u # <<>>
        /\ s = <<>> => Head(u) = p
        /\ s # <<>> => Head(u) = Head(s)
    BY <1>1, <1>5, AppendHead
  <2>2. Front(r.packets, b) = Head(u).uid
    BY <2>1 DEF Front
  <2>3. Front(q.packets, uid_base) = IF s = <<>> THEN uid_base ELSE Head(s).uid
    BY DEF Front
  <2> HIDE DEF s, u
  <2>4. CASE s = <<>>
    BY <1>1, <1>5, <2>1, <2>2, <2>3, <2>4
  <2>5. CASE s # <<>>
    BY <1>1, <1>2, <2>1, <2>2, <2>3, <2>5
  <2> QED
    BY <2>4, <2>5
<1>6. \/ u = s \/ (s # <<>> /\ u = Tail(s))
      \/ \E p \in Packet : p.uid = uid_base + 1 /\ u = Append(s, p)
  <2>1. CASE Idle(q, r)
    BY <2>1 DEF Idle
  <2>2. CASE Dropped(q, r) \/ Popped(q, r)
    BY <1>1, <2>2, PopFields DEF Dropped, Popped
  <2>3. CASE Relimited(q, r)
    BY <1>1, <2>3 DEF Relimited, PacketsT
  <2>4. ASSUME NEW p \in Packet, p.uid = uid_base + 1, Pushed(q, r, p)
        PROVE  u = s \/ u = Append(s, p)
    BY <1>1, <2>4, PushFields DEF Pushed
  <2> QED
    BY <2>1, <2>2, <2>3, <2>4, QueuePackets
<1> QED
  BY <1>3, <1>4, <1>5, <1>6

\* The disciplines that have drawn for no packet newer than m.
Tested(m) == {d \in Disc : d.type = "rloss" => d.last_uid <= m}

LEMMA KeepsTested ==
    ASSUME TypeOK, NEW q \in NQueue, NEW r, QueueStep(q, r), r # NewQueue,
           NEW l \in Nat, Ordered(q.packets.fifo, l, uid_base, now),
           NEW b \in {uid_base, uid_base + 1},
           q.discs \in Seq(Tested(Front(q.packets, uid_base)))
    PROVE  r.discs \in Seq(Tested(Front(r.packets, b)))
<1> DEFINE m == Front(q.packets, uid_base)
           n == Front(r.packets, b)
<1>1. m \in Nat /\ n \in Nat /\ m <= n
  BY FrontAdvances
<1>2. q.discs \in Seq(Tested(m))
  OBVIOUS
<1>3. \A d, e : Drew(q, d, e) => e \in Disc /\ e.last_uid = m
  <2> SUFFICES ASSUME NEW d, NEW e, Drew(q, d, e)
               PROVE  e \in Disc /\ e.last_uid = m
    OBVIOUS
  <2>1. Head(q.packets.fifo) \in Packet
    BY DEF Drew, NQueue, PacketsT
  <2>2. Head(q.packets.fifo).uid = m
    BY DEF Drew, Front
  <2> HIDE DEF m
  <2> QED
    BY <2>1, <2>2 DEF Drew, Packet, Rloss, Disc
<1> HIDE DEF m, n
<1>4. Tested(m) \subseteq Tested(n)
  BY <1>1 DEF Tested, Disc, Rloss, Band, Delay
<1>5. q.discs \in Seq(Tested(n)) /\ \A j \in 1..Len(q.discs) : q.discs[j] \in Tested(n)
  BY <1>2, <1>4
<1>6. ASSUME NEW j \in 1..Len(q.discs), NEW e,
             \/ Created(e) \/ Drew(q, q.discs[j], e)
             \/ Earned(q.discs[j], e) \/ Charged(q.discs[j], e)
      PROVE  e \in Tested(n)
  <2>1. CASE Created(e)
    BY <1>1, <2>1, CreatedFields DEF Tested
  <2>2. CASE Drew(q, q.discs[j], e)
    BY <1>1, <1>3, <2>2 DEF Tested
  <2>3. CASE Earned(q.discs[j], e) \/ Charged(q.discs[j], e)
    <3>1. e \in Band
      BY <2>3, AccrueType, ChargeType DEF Earned, Charged
    <3> QED
      BY <3>1 DEF Tested, Disc, Band
  <2> QED
    BY <1>6, <2>1, <2>2, <2>3
<1>7. \A e : Created(e) => e \in Tested(n)
  BY <1>1, CreatedFields DEF Tested
<1>8. r.discs \in Seq(Tested(n))
  <2>1. CASE r.discs = q.discs \/ r.discs = <<>>
    BY <1>5, <2>1, EmptyOver, Zenon
  <2>2. ASSUME NEW e \in Tested(n), r.discs = Append(q.discs, e)
        PROVE  r.discs \in Seq(Tested(n))
    BY <1>5, <2>2, ChainOver
  <2>3. ASSUME NEW e \in Tested(n), NEW j \in 1..Len(q.discs),
               r.discs = [q.discs EXCEPT ![j] = e]
        PROVE  r.discs \in Seq(Tested(n))
    BY <1>5, <2>3, ChainOver
  <2> QED
    BY <1>6, <1>7, <2>1, <2>2, <2>3, QueueChain, Zenon
<1> QED
  BY <1>8 DEF n

\* No packet faces the same lottery twice: an rloss discipline has drawn for
\* nothing newer than the front packet, although the disciplines around it
\* drop and send packets between its draws, because uids only grow along a
\* queue and the front only moves to newer packets.
THEOREM LotteriesAreHeldOnce == Spec => []LotteryOnce
<1> DEFINE Fair(q, b) == q.discs \in Seq(Tested(Front(q.packets, b)))
           Inv == TypeOK /\ ArrivalOrder /\ \A k \in QKeys : Fair(nq_list[k], uid_base)
<1>1. Init => Inv
  <2> SUFFICES ASSUME Init PROVE Inv
    OBVIOUS
  <2>1. \A k \in QKeys : nq_list[k].discs = <<>>
    BY DEF Init, NewQueue
  <2>2. \A k \in QKeys : Fair(nq_list[k], uid_base)
    BY <2>1, EmptyOver, Zenon
  <2>3. ArrivalOrder
    BY DEF Init, ArrivalOrder, fifo, NewQueue, NewPackets
  <2> QED
    BY <2>2, <2>3, InitType
<1>2. Inv /\ [Next]_vars => Inv'
  <2> SUFFICES ASSUME Inv, [Next]_vars PROVE Inv'
    OBVIOUS
  <2>1. ASSUME NEW k \in QKeys
        PROVE  Fair(nq_list'[k], uid_base')
    <3>1. nq_list[k] \in NQueue /\ nq_list[k].last \in Nat
      BY DEF TypeOK, NQueue
    <3>2. Ordered(nq_list[k].packets.fifo, nq_list[k].last, uid_base, now)
      BY OrderedQueues DEF fifo, Last
    <3>3. QueueStep(nq_list[k], nq_list'[k]) /\ uid_base' \in {uid_base, uid_base + 1}
      BY NextQueues
    <3>4. CASE nq_list'[k] = NewQueue
      <4>1. nq_list'[k].discs = <<>>
        BY <3>4 DEF NewQueue
      <4> QED
        BY <4>1, EmptyOver, Zenon
    <3>5. CASE nq_list'[k] # NewQueue
      BY <3>1, <3>2, <3>3, <3>5, KeepsTested
    <3> QED
      BY <3>4, <3>5
  <2>2. TypeOK' /\ ArrivalOrder'
    BY NextType, NextOrdered
  <2> QED
    BY <2>1, <2>2
<1>3. Inv => LotteryOnce
  <2> SUFFICES ASSUME Inv, NEW k \in QKeys, NEW n \in 1..Len(nq_list[k].discs),
                      nq_list[k].discs[n].type = "rloss"
               PROVE  /\ nq_list[k].discs[n].last_uid <= uid_base
                      /\ fifo(k) # <<>> => nq_list[k].discs[n].last_uid <= Head(fifo(k)).uid
    BY DEF LotteryOnce
  <2> DEFINE d == nq_list[k].discs[n]
  <2>1. d \in Tested(Front(nq_list[k].packets, uid_base)) /\ d \in Disc
    <3> DEFINE S == Tested(Front(nq_list[k].packets, uid_base))
    <3>1. nq_list[k].discs \in Seq(S)
      OBVIOUS
    <3> HIDE DEF S
    <3>2. d \in S
      BY <3>1
    <3> QED
      BY <3>2 DEF S, Tested
  <2>2. d.last_uid <= Front(nq_list[k].packets, uid_base) /\ d.last_uid \in Nat
    BY <2>1 DEF Tested, Disc, Rloss, Band, Delay
  <2>3. /\ fifo(k) \in Seq(Packet) /\ Last(k) \in Nat /\ uid_base \in Nat /\ now \in Nat
        /\ Ordered(fifo(k), Last(k), uid_base, now)
    BY QueueTypes, OrderedQueues DEF TypeOK
  <2>4. fifo(k) # <<>> => Head(fifo(k)).uid \in Nat /\ Head(fifo(k)).uid <= uid_base
    BY <2>3, OrderedFront
  <2> DEFINE last == d.last_uid
             base == uid_base
             head == Head(fifo(k)).uid
  <2>5. last = d.last_uid /\ base = uid_base /\ head = Head(fifo(k)).uid
    OBVIOUS
  <2>6. /\ last \in Nat /\ base \in Nat
        /\ last <= Front(nq_list[k].packets, uid_base)
        /\ fifo(k) # <<>> => head \in Nat /\ head <= base
    BY <2>2, <2>3, <2>4, Zenon
  <2>7. Front(nq_list[k].packets, uid_base) = IF fifo(k) = <<>> THEN base ELSE head
    BY Zenon DEF Front, fifo
  <2> HIDE DEF d, last, base, head
  <2>8. last <= base /\ (fifo(k) # <<>> => last <= head)
    <3>1. CASE fifo(k) = <<>>
      BY <2>6, <2>7, <3>1
    <3>2. CASE fifo(k) # <<>>
      BY <2>6, <2>7, <3>2
    <3> QED
      BY <3>1, <3>2
  <2> QED
    BY <2>5, <2>8, Zenon DEF d
<1> QED
  BY <1>1, <1>2, <1>3, PTL DEF Spec
-----------------------------------------------------------------------------
(***************************************************************************)
(* The pass of the worker.                                                 *)
(***************************************************************************)

\* packet_out is at discipline n of queue q, at time t: its index is good; a
\* queue that has run empty since a discipline that needs a packet said true
\* was emptied by the discipline packet_out is at, which needs one too; and
\* the front packet is not overdue for any discipline already passed.
PassOK(q, n, t) ==
    /\ n <= Len(q.discs) + 1
    /\ /\ q.packets.fifo = <<>>
       /\ \E m \in 1..Len(q.discs) : m < n /\ NeedsPacket(q.discs[m])
       => n <= Len(q.discs) /\ NeedsPacket(q.discs[n])
    /\ \A m \in 1..Len(q.discs) :
         m < n /\ q.discs[m].type = "band" /\ q.discs[m].rate > 0
            => ~Overdue(q.discs[m], t, q.packets)

LEMMA PassStart ==
    ASSUME NEW q \in NQueue, NEW t
    PROVE  PassOK(q, 1, t)
<1>1. Len(q.discs) \in Nat
  BY DEF NQueue
<1> QED
  BY <1>1 DEF PassOK

LEMMA AlikeNeeds ==
    ASSUME NEW d, NEW e, Alike(d, e)
    PROVE  /\ NeedsPacket(e) <=> NeedsPacket(d)
           /\ d.type = "band" => \A t, pq : Overdue(e, t, pq) <=> Overdue(d, t, pq)
BY DEF Alike, NeedsPacket, Overdue

\* A discipline that says true takes packet_out one further.
LEMMA AdmittingOK ==
    ASSUME TypeOK, NEW k \in QKeys, ChainMove(k), PassOK(nq_list[k], i, time),
           Admitting(k, nq_list'[k].packets)
    PROVE  PassOK(nq_list'[k], i', time)
<1> DEFINE q == nq_list[k]
           r == nq_list'[k]
<1>1. /\ i \in Nat \ {0} /\ i \in 1..Len(q.discs) /\ i' = i + 1
      /\ Len(q.discs) \in Nat /\ Len(r.discs) = Len(q.discs)
      /\ r.packets.fifo = q.packets.fifo
  BY DEF TypeOK, NQueue, ChainMove, Admitting, fifo, discs
<1>2. \A m \in 1..Len(q.discs) : Alike(q.discs[m], r.discs[m])
  BY DEF ChainMove, discs
<1>3. ASSUME r.packets.fifo = <<>>, NEW m \in 1..Len(r.discs), m < i',
             NeedsPacket(r.discs[m])
      PROVE  FALSE
  <2>1. NeedsPacket(q.discs[m])
    BY <1>1, <1>2, <1>3, AlikeNeeds
  <2>2. ~NeedsPacket(q.discs[i])
    BY <1>1, <1>3 DEF Admitting, fifo, discs
  <2>3. m < i
    BY <1>1, <1>3, <2>1, <2>2
  <2> QED
    BY <1>1, <1>3, <2>1, <2>2, <2>3 DEF PassOK
<1>4. ASSUME NEW m \in 1..Len(r.discs), m < i',
             r.discs[m].type = "band", r.discs[m].rate > 0
      PROVE  ~Overdue(r.discs[m], time, r.packets)
  <2>1. q.discs[m].type = "band" /\ q.discs[m].rate > 0
    BY <1>1, <1>2, <1>4 DEF Alike
  <2>2. ~Overdue(q.discs[m], time, q.packets)
    <3>1. CASE m = i
      BY <2>1, <3>1 DEF Admitting, discs
    <3>2. CASE m < i
      BY <1>1, <2>1, <3>2 DEF PassOK
    <3> QED
      BY <1>1, <1>4, <3>1, <3>2
  <2>3. ~Overdue(q.discs[m], time, r.packets)
    BY <1>1, <2>2 DEF Overdue
  <2> QED
    BY <1>1, <1>2, <2>1, <2>3, AlikeNeeds
<1>5. i' <= Len(r.discs) + 1
  BY <1>1
<1> HIDE DEF q, r
<1>6. PassOK(r, i', time)
  BY <1>3, <1>4, <1>5 DEF PassOK
<1> QED
  BY <1>6 DEF r

\* A drop inside can_pop only moves the front to a newer packet.
LEMMA StayingOK ==
    ASSUME TypeOK, ArrivalOrder, NEW k \in QKeys, ChainMove(k),
           PassOK(nq_list[k], i, time), Staying(k, nq_list'[k].packets)
    PROVE  PassOK(nq_list'[k], i', time)
<1> DEFINE q == nq_list[k]
           r == nq_list'[k]
           s == q.packets.fifo
           u == r.packets.fifo
<1>1. /\ i \in 1..Len(q.discs) /\ i' = i
      /\ Len(q.discs) \in Nat /\ Len(r.discs) = Len(q.discs)
      /\ NeedsPacket(q.discs[i]) /\ s # <<>> /\ u \in {s, Tail(s)}
  <2>1. /\ i \in 1..Len(q.discs) /\ i' = i /\ NeedsPacket(q.discs[i])
        /\ s # <<>> /\ u \in {s, Tail(s)}
    BY Zenon DEF Staying, fifo, discs
  <2>2. Len(q.discs) \in Nat
    <3>1. q \in NQueue
      BY Zenon DEF TypeOK
    <3> QED
      BY <3>1 DEF NQueue
  <2>3. Len(r.discs) = Len(q.discs)
    BY Zenon DEF ChainMove, discs
  <2> QED
    BY <2>1, <2>2, <2>3, Zenon
<1>2. \A m \in 1..Len(q.discs) : Alike(q.discs[m], r.discs[m])
  BY DEF ChainMove, discs
<1>3. /\ s \in Seq(Packet) /\ Last(k) \in Nat /\ uid_base \in Nat /\ now \in Nat
      /\ Ordered(s, Last(k), uid_base, now) /\ time \in Nat
  BY QueueTypes, OrderedQueues DEF TypeOK, fifo
<1>4. /\ Head(s).in_time \in Nat
      /\ u # <<>> => Head(u).in_time \in Nat /\ Head(s).in_time <= Head(u).in_time
  <2>1. /\ Head(s).in_time \in Nat
        /\ Tail(s) # <<>> =>
              Head(Tail(s)).in_time \in Nat /\ Head(s).in_time <= Head(Tail(s)).in_time
    BY <1>1, <1>3, OrderedFront
  <2>2. CASE u = s
    BY <2>1, <2>2
  <2>3. CASE u = Tail(s)
    BY <2>1, <2>3
  <2> QED
    BY <1>1, <2>2, <2>3
<1>5. ASSUME NEW m \in 1..Len(r.discs), m < i',
             r.discs[m].type = "band", r.discs[m].rate > 0
      PROVE  ~Overdue(r.discs[m], time, r.packets)
  <2>1. q.discs[m].type = "band" /\ q.discs[m].rate > 0
    BY <1>1, <1>2, <1>5 DEF Alike
  <2>2. q.discs[m].max_delay \in Nat
    <3>1. q.discs[m] \in Disc
      BY <1>1, <1>5 DEF TypeOK, NQueue
    <3> QED
      BY <2>1, <3>1 DEF Disc, Rloss, Band, Delay
  <2>3. ~Overdue(q.discs[m], time, q.packets)
    BY <1>1, <1>5, <2>1 DEF PassOK
  <2>4. q.discs[m].max_delay = 0 \/ ~(time - Head(s).in_time > q.discs[m].max_delay)
    BY <1>1, <2>3 DEF Overdue
  <2>5. q.discs[m].max_delay = 0 \/ u = <<>>
          \/ ~(time - Head(u).in_time > q.discs[m].max_delay)
    <3> DEFINE x == q.discs[m].max_delay
               a == Head(s).in_time
               b == Head(u).in_time
    <3>1. u # <<>> => b \in Nat /\ a <= b
      BY <1>4
    <3>2. a \in Nat /\ x \in Nat /\ (x = 0 \/ ~(time - a > x))
      BY <1>4, <2>2, <2>4
    <3> HIDE DEF a, b, x
    <3>3. x = 0 \/ u = <<>> \/ ~(time - b > x)
      BY <1>3, <3>1, <3>2
    <3> QED
      BY <3>3 DEF b, x
  <2>6. ~Overdue(q.discs[m], time, r.packets)
    BY <2>5 DEF Overdue
  <2>7. Alike(q.discs[m], r.discs[m])
    BY <1>1, <1>2, <1>5
  <2>8. Overdue(r.discs[m], time, r.packets) <=> Overdue(q.discs[m], time, r.packets)
    <3> HIDE DEF q, r
    <3> QED
      BY <2>1, <2>7, AlikeNeeds
  <2> QED
    BY <2>6, <2>8
<1>6. i' <= Len(r.discs) /\ NeedsPacket(r.discs[i'])
  BY <1>1, <1>2, AlikeNeeds
<1>7. i' <= Len(r.discs) + 1
  BY <1>1
<1> HIDE DEF q, r
<1>8. PassOK(r, i', time)
  BY <1>5, <1>6, <1>7 DEF PassOK
<1> QED
  BY <1>8 DEF r

LEMMA OneAt ==
    ASSUME itr \subseteq QKeys, NEW k \in QKeys, NEW j \in QKeys, At(k), At(j)
    PROVE  j = k
<1>1. k \in Int /\ j \in Int /\ k <= j /\ j <= k
  BY DispatcherAssumption DEF At
<1> QED
  BY <1>1

\* The steps a pass can see.
LEMMA PassSteps ==
    ASSUME TypeOK, [Next]_vars
    PROVE  \/ pc' # "pass"
           \/ i' = 1 /\ itr' = keys' /\ UNCHANGED <<keys, nq_list>>
           \/ UNCHANGED <<pc, itr, i, time, keys, nq_list>>
           \/ pc = "pass" /\ \E k \in QKeys : ChainMove(k)
<1>1. CASE \E f \in Flows, s \in Sizes : PushPacket(f, s)
  BY <1>1 DEF PushPacket, MainCanLock, worker
<1>2. CASE Command
  BY <1>2 DEF Command, SetQsize, SetFilter, PushBackQdisc, SetQdisc, FailedCommand,
         ClearQueue, Touch, MainCanLock, worker
<1>3. CASE \E k \in QKeys : ChainStep(k)
  BY <1>3, ChainStepMoves DEF Moves, ChainMove, At
<1>4. CASE LoopTest \/ WaitNewPacket \/ ReadClock \/ EndPass
  BY <1>4 DEF LoopTest, WaitNewPacket, ReadClock, EndPass
<1>5. CASE BeginPass
  BY <1>5 DEF BeginPass
<1>6. CASE Stop \/ Tick \/ UNCHANGED vars
  BY <1>6 DEF Stop, Tick, vars, worker
<1> QED
  BY <1>1, <1>2, <1>3, <1>4, <1>5, <1>6 DEF Next, Main, Worker

PassInv == \A k \in QKeys : At(k) => PassOK(nq_list[k], i, time)

LEMMA NextPass == TypeOK /\ ArrivalOrder /\ PassInv /\ [Next]_vars => PassInv'
<1> SUFFICES ASSUME TypeOK, ArrivalOrder, PassInv, [Next]_vars,
                    NEW j \in QKeys, At(j)'
             PROVE  PassOK(nq_list'[j], i', time')
  BY DEF PassInv
<1>1. TypeOK' /\ nq_list'[j] \in NQueue /\ pc' = "pass" /\ itr' \subseteq QKeys
  <2>1. TypeOK'
    BY NextType
  <2> QED
    BY <2>1 DEF TypeOK, At
<1>2. CASE i' = 1
  BY <1>1, <1>2, PassStart
<1>3. CASE UNCHANGED <<pc, itr, i, time, keys, nq_list>>
  BY <1>3 DEF PassInv, At
<1>4. ASSUME NEW k \in QKeys, ChainMove(k), i' # 1
      PROVE  PassOK(nq_list'[j], i', time')
  <2>1. /\ At(k) /\ time' = time
        /\ Admitting(k, nq_list'[k].packets) \/ Staying(k, nq_list'[k].packets)
    BY <1>1, <1>4 DEF ChainMove, Leaving
  <2>2. PassOK(nq_list[k], i, time)
    BY <2>1 DEF PassInv
  <2>3. PassOK(nq_list'[k], i', time)
    BY <1>4, <2>1, <2>2, AdmittingOK, StayingOK
  <2>4. At(j) /\ itr \subseteq QKeys
    BY <1>1, <2>1 DEF At, Admitting, Staying
  <2>5. j = k
    BY <2>1, <2>4, OneAt
  <2> QED
    BY <2>1, <2>3, <2>5
<1> QED
  BY <1>1, <1>2, <1>3, <1>4, PassSteps

LEMMA InitPass == Init => TypeOK /\ ArrivalOrder /\ PassInv
<1>1. Init => ArrivalOrder
  BY DEF Init, ArrivalOrder, fifo, NewQueue, NewPackets
<1>2. Init => PassInv
  BY DEF Init, PassInv, At
<1> QED
  BY <1>1, <1>2, InitType

\* A chain with a lossy or a rate-limiting discipline anywhere in it never
\* makes packet_out pop an empty queue, whatever the disciplines behind it
\* drop: the one that empties the queue says false itself.
THEOREM PopIsSafe == Spec => []PopsAPacket
<1>1. TypeOK /\ ArrivalOrder /\ PassInv /\ [Next]_vars
        => (TypeOK /\ ArrivalOrder /\ PassInv)'
  BY NextType, NextOrdered, NextPass
<1>2. TypeOK /\ PassInv => PopsAPacket
  <2> SUFFICES ASSUME TypeOK, PassInv, NEW k \in itr, At(k),
                      i > Len(nq_list[k].discs),
                      NEW n \in 1..Len(nq_list[k].discs),
                      NeedsPacket(nq_list[k].discs[n]),
                      fifo(k) = <<>>
               PROVE  FALSE
    BY DEF PopsAPacket
  <2>1. PassOK(nq_list[k], i, time) /\ i \in Nat /\ Len(nq_list[k].discs) \in Nat
    BY DEF PassInv, TypeOK, NQueue
  <2>2. n < i
    BY <2>1
  <2> QED
    BY <2>1, <2>2 DEF PassOK, fifo
<1> QED
  BY InitPass, <1>1, <1>2, PTL DEF Spec

\* When packet_out charges for, or sends, the front packet, it is within
\* max_delay of every rate-limiting discipline that has said true: later
\* disciplines only uncover packets that are no older.
THEOREM DelaysAreBounded == Spec => []WithinMaxDelay
<1>1. TypeOK /\ ArrivalOrder /\ PassInv /\ [Next]_vars
        => (TypeOK /\ ArrivalOrder /\ PassInv)'
  BY NextType, NextOrdered, NextPass
<1>2. TypeOK /\ PassInv => WithinMaxDelay
  <2> SUFFICES ASSUME TypeOK, PassInv, NEW k \in itr, At(k),
                      NEW n \in 1..Len(nq_list[k].discs), n < i,
                      nq_list[k].discs[n].type = "band", nq_list[k].discs[n].rate > 0
               PROVE  ~Overdue(nq_list[k].discs[n], time, nq_list[k].packets)
    BY DEF WithinMaxDelay
  <2>1. PassOK(nq_list[k], i, time)
    BY DEF PassInv, TypeOK
  <2> QED
    BY <2>1 DEF PassOK
<1> QED
  BY InitPass, <1>1, <1>2, PTL DEF Spec

\* The names the worker has still to visit are in the map, and an erased
\* queue is as good as new.
MapOK ==
    /\ pc = "pass" => itr \subseteq keys
    /\ \A k \in QKeys \ keys : nq_list[k] = NewQueue

LEMMA CommandMap ==
    ASSUME TypeOK, MapOK, Command
    PROVE  MapOK'
<1>1. pc' # "pass"
  BY DEF Command, SetQsize, SetFilter, PushBackQdisc, SetQdisc, FailedCommand,
         ClearQueue, Touch, MainCanLock, worker
<1>2. nq_list \in [QKeys -> NQueue]
  BY DEF TypeOK
<1>3. PICK k \in QKeys :
        \/ \E n \in Limits : SetQsize(k, n)
        \/ \E f \in Filters : SetFilter(k, f)
        \/ \E c \in Configs, g \in Garbage : PushBackQdisc(k, c, g)
        \/ \E n \in 1..MaxDiscs, c \in Configs, g \in Garbage : SetQdisc(k, n, c, g)
        \/ FailedCommand(k)
        \/ ClearQueue(k)
  BY DEF Command
<1>4. \A j \in QKeys \ {k} : nq_list'[j] = nq_list[j]
  BY <1>2, <1>3 DEF SetQsize, SetFilter, PushBackQdisc, SetQdisc, FailedCommand, ClearQueue
<1>5. CASE keys' = keys \cup {k}
  BY <1>1, <1>4, <1>5 DEF MapOK
<1>6. CASE ClearQueue(k)
  BY <1>1, <1>2, <1>4, <1>6 DEF MapOK, ClearQueue
<1> QED
  BY <1>3, <1>5, <1>6 DEF SetQsize, SetFilter, PushBackQdisc, SetQdisc, FailedCommand, Touch

LEMMA NextMap == TypeOK /\ MapOK /\ [Next]_vars => MapOK'
<1> SUFFICES ASSUME TypeOK, MapOK, [Next]_vars
             PROVE  MapOK'
  OBVIOUS
<1>1. ASSUME NEW f \in Flows, NEW s \in Sizes, PushPacket(f, s)
      PROVE  MapOK'
  <2>1. nq_list \in [QKeys -> NQueue] /\ keys' = keys /\ pc' # "pass"
    BY <1>1 DEF TypeOK, PushPacket, MainCanLock, worker
  <2>2. \A j \in QKeys \ keys : nq_list'[j] = nq_list[j]
    BY <1>1, <2>1 DEF PushPacket
  <2> QED
    BY <2>1, <2>2 DEF MapOK
<1>2. CASE Command
  BY <1>2, CommandMap
<1>3. ASSUME NEW k \in QKeys, ChainStep(k)
      PROVE  MapOK'
  <2>1. ChainMove(k)
    BY <1>3, ChainStepMoves DEF Moves
  <2>2. /\ k \in keys /\ keys' = keys /\ itr \subseteq keys
        /\ \A j \in QKeys \ {k} : nq_list'[j] = nq_list[j]
    BY <2>1 DEF ChainMove, At, MapOK
  <2>3. pc' = "pass" => itr' \subseteq keys'
    BY <2>1, <2>2 DEF ChainMove, Admitting, Staying, Leaving
  <2> QED
    BY <2>2, <2>3 DEF MapOK
<1>4. CASE LoopTest \/ WaitNewPacket \/ ReadClock \/ BeginPass \/ EndPass
  BY <1>4 DEF LoopTest, WaitNewPacket, ReadClock, BeginPass, EndPass, MapOK
<1>5. CASE Stop \/ Tick \/ UNCHANGED vars
  BY <1>5 DEF Stop, Tick, vars, worker, MapOK
<1> QED
  BY <1>1, <1>2, <1>3, <1>4, <1>5 DEF Next, Main, Worker

\* No command erases the node the worker's iterator stands on, or shrinks
\* the chain under its index: the lock is held for the whole pass.
THEOREM IteratorsStayValid == Spec => []IteratorValid
<1> DEFINE Inv == TypeOK /\ ArrivalOrder /\ PassInv /\ MapOK
<1>1. Init => Inv
  <2>1. Init => MapOK
    BY DEF Init, MapOK
  <2> QED
    BY <2>1, InitPass
<1>2. Inv /\ [Next]_vars => Inv'
  BY NextType, NextOrdered, NextPass, NextMap
<1>3. Inv => IteratorValid
  BY DEF TypeOK, PassInv, PassOK, MapOK, IteratorValid
<1> QED
  BY <1>1, <1>2, <1>3, PTL DEF Spec
=============================================================================
