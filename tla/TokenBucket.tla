---------------------------- MODULE TokenBucket ----------------------------
(***************************************************************************)
(* The rate limiter of nqueue.h, band_qdisc::can_pop, in the arithmetic it *)
(* is compiled to: an int wraps at Half, and so do the millisecond clock,  *)
(* the product of time and rate, and the quota.  QueueDispatcher has the   *)
(* same discipline among others, with unbounded integers and coarse time.  *)
(*                                                                         *)
(* One band with a rate is polled by the worker.  What its queue holds at  *)
(* a poll, after the over-delayed packets are dropped, is any packet or    *)
(* none.                                                                   *)
(***************************************************************************)
EXTENDS Qdisc

CONSTANTS
    Half,       \* 2^31: an int is in -Half..Half-1
    Second,     \* 1000: the milliseconds of a second
    Rate,       \* rate, in bytes per second
    Burst,      \* burst, in bytes
    Garbage,    \* values the uninitialised last_ts can hold
    Gaps,       \* the milliseconds that can pass between two polls
    MaxTime     \* bound: the clock stops here

Ints == (-Half)..(Half - 1)

ASSUME BucketAssumption ==
    /\ Half \in Nat \ {0} /\ Second \in Nat \ {0}
    /\ Rate \in Ints /\ Rate > 0
    /\ Burst \in Ints /\ Burst >= 0
    /\ \A s \in Sizes : 14 <= s /\ s - 14 < Half
    /\ Garbage \subseteq Ints
    /\ Gaps \subseteq Nat
    /\ MaxTime \in Nat

VARIABLES
    now,       \* the milliseconds that have passed
    quota, last_ts,
    last,      \* history: the time of the last poll, Never before the first
    since,     \* history: the time a count of what the band sends began
    sent,      \* history: the bytes sent in that count
    refused    \* history: the time the packet that waits was first refused,
               \* Never if none waits

vars == <<now, quota, last_ts, last, since, sent, refused>>

Never == -1

\* What a result n is when it is stored in an int.
Wrap(n) == IF n \in Ints THEN n ELSE ((n + Half) % (2 * Half)) - Half

Init ==
    /\ now = 0
    /\ quota = 0
    /\ last_ts \in Garbage
    /\ last = Never
    /\ since = 0
    /\ sent = 0
    /\ refused = Never

\* Mistake: the clock is wider than an int.
ClockWide == now

\* Timer::get_time.
Clock == Wrap(now)

\* abs( delta_t * rate / 1000 ); the division is towards zero.
DeltaTraffic ==
    LET delta_t == Wrap(Clock - last_ts)
    IN  AbsVal(Wrap(delta_t * Rate)) \div Second

\* Mistake: the quota is not capped.
CollectedUncapped == Wrap(quota + DeltaTraffic)

\* min( burst, quota + delta_traffic ).
Collected == Least(Burst, Wrap(quota + DeltaTraffic))

\* can_pop with an empty queue.
PollEmpty ==
    /\ quota' = Collected
    /\ refused' = Never
    /\ UNCHANGED sent

\* can_pop with a packet of this size at the front and quota left.
PollSend(size) ==
    /\ Collected > 0
    /\ quota' = Wrap(Collected - (size - 14))
    /\ sent' = sent + (size - 14)
    /\ refused' = Never

\* can_pop with a packet at the front and no quota left.
PollRefuse ==
    /\ Collected <= 0
    /\ quota' = Collected
    /\ refused' = IF refused = Never THEN now ELSE refused
    /\ UNCHANGED sent

\* The worker polls the band; both assignments of can_pop to quota and the
\* one to last_ts.
Poll ==
    /\ \/ PollEmpty
       \/ \E size \in Sizes : PollSend(size)
       \/ PollRefuse
    /\ last_ts' = Clock
    /\ last' = now
    /\ UNCHANGED <<now, since>>

\* Time passes from one pass of the worker to the next.
Pass ==
    /\ last = now
    /\ \E gap \in Gaps :
          /\ now + gap <= MaxTime
          /\ now' = now + gap
    /\ UNCHANGED <<quota, last_ts, last, since, sent, refused>>

\* An observer starts to count what the band sends.
StartCount ==
    /\ since' = now
    /\ sent' = 0
    /\ UNCHANGED <<now, quota, last_ts, last, refused>>

Next == Poll \/ Pass \/ StartCount

Spec == Init /\ [][Next]_vars
-----------------------------------------------------------------------------
(***************************************************************************)
(* Properties.                                                             *)
(***************************************************************************)

TypeOK ==
    /\ now \in Nat
    /\ quota \in Ints
    /\ last_ts \in Ints
    /\ last \in Nat \cup {Never}
    /\ since \in Nat
    /\ sent \in Nat
    /\ refused \in Nat \cup {Never}

\* From any moment on, the band sends no more than its burst, what its rate
\* earns in the time since, and the rest of one packet, although its first
\* quota is earned over an arbitrary time and time, product and quota wrap:
\* no overflow ever earns it more than it is due.
RateBound ==
    sent > 0 =>
        \E size \in Sizes :
            Second * (sent + 1) <= Second * (Burst + (size - 14)) + Rate * (now - since)

\* A band sends n bytes per second: a packet is not refused for longer than
\* the rate takes to earn back the packet that went before it, and the time
\* to the next poll.
KeepsRate ==
    refused # Never =>
        \E size \in Sizes, gap \in Gaps :
            Rate * ((last - refused) - gap) < Second * (size - 14)
=============================================================================
