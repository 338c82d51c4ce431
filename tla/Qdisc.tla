------------------------------- MODULE Qdisc -------------------------------
(***************************************************************************)
(* The three queueing disciplines of nqueue.h: rloss_qdisc, band_qdisc and *)
(* delay_qdisc.  A discipline is a record; what can_pop reads and assigns  *)
(* is given by the operators below, and the loops inside can_pop are steps *)
(* of QueueDispatcher.                                                     *)
(***************************************************************************)
EXTENDS PacketsRawQueue

\* What the text of a push_back or set command parses to.
Config ==
    [type : {"rloss"}, rloss : Nat]
    \cup [type : {"band"}, rate : Nat, burst : Nat, max_delay : Nat]
    \cup [type : {"delay"}, delay : Nat]

Rloss == [type : {"rloss"}, rloss : Nat, last_uid : Nat]
Band  == [type : {"band"}, rate : Nat, burst : Nat, max_delay : Nat,
          quota : Int, last_ts : Int]
Delay == [type : {"delay"}, delay : Nat]
Disc  == Rloss \cup Band \cup Delay

\* Mistake: rloss_qdisc leaves last_uid uninitialised as well.
CreateQdiscUninitialised(c, garbage) ==
    CASE c.type = "rloss" -> [type |-> "rloss", rloss |-> c.rloss, last_uid |-> garbage]
      [] c.type = "band"  -> [type |-> "band", rate |-> c.rate, burst |-> c.burst,
                              max_delay |-> c.max_delay, quota |-> 0,
                              last_ts |-> garbage]
      [] c.type = "delay" -> [type |-> "delay", delay |-> c.delay]

\* Create_qdisc and the constructors.  band_qdisc leaves last_ts
\* uninitialised: it starts as whatever the memory held.
CreateQdisc(c, garbage) ==
    CASE c.type = "rloss" -> [type |-> "rloss", rloss |-> c.rloss, last_uid |-> 0]
      [] c.type = "band"  -> [type |-> "band", rate |-> c.rate, burst |-> c.burst,
                              max_delay |-> c.max_delay, quota |-> 0,
                              last_ts |-> garbage]
      [] c.type = "delay" -> [type |-> "delay", delay |-> c.delay]

AbsVal(n) == IF n < 0 THEN -n ELSE n
Least(a, b) == IF a < b THEN a ELSE b

\* The first half of band_qdisc::can_pop: the quota earned since last_ts,
\* rounded down to whole bytes and capped at burst.  A second application
\* at the same time changes nothing.
Accrue(d, time) ==
    [d EXCEPT !.quota = Least(d.burst, @ + ((AbsVal(time - d.last_ts) * d.rate) \div 1000)),
              !.last_ts = time]

\* The loop condition of band_qdisc::can_pop.
Overdue(d, time, pq) ==
    /\ d.max_delay # 0
    /\ pq.fifo # <<>>
    /\ time - Head(pq.fifo).in_time > d.max_delay

\* Mistake: a band whose quota is used up lets one more packet through.
AffordableAtZero(d) == d.quota >= 0

\* The quota test of band_qdisc::can_pop: any quota left is enough for a
\* packet of any size, which then takes the quota below zero.
Affordable(d) == d.quota > 0

\* What letting packet p through costs: its bytes less the Ethernet header.
Charge(d, p) == [d EXCEPT !.quota = @ - (p.size - 14)]

\* The loop condition of rloss_qdisc::can_pop: the front packet has not been
\* through this discipline's lottery.
Untested(d, pq) == pq.fifo # <<>> /\ d.last_uid # Head(pq.fifo).uid

\* The outcomes `rand() % 100 < rloss' can have; TRUE drops the packet.
Lottery(d) == {b \in BOOLEAN : IF b THEN d.rloss > 0 ELSE d.rloss < 100}
=============================================================================
