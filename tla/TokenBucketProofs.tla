------------------------- MODULE TokenBucketProofs -------------------------
(***************************************************************************)
(* Proofs about TokenBucket: its types, and that no overflow lets a band   *)
(* send more than its rate and its burst allow.                            *)
(***************************************************************************)
EXTENDS TokenBucket, TLAPS

USE DEF Never

(***************************************************************************)
(* An int that overflows never gets larger in size.                        *)
(***************************************************************************)

\* Storing an integer in an int yields an int that differs from it by a
\* multiple of the range, the remainder being one of division by it.
LEMMA WrapMeans ==
    ASSUME NEW n \in Int
    PROVE  /\ Wrap(n) \in Ints
           /\ n \in Ints => Wrap(n) = n
           /\ \E k \in Int : Wrap(n) = n - ((2 * Half) * k)
<1> USE BucketAssumption
<1> DEFINE W == 2 * Half
           m == n + Half
<1>1. W \in Nat /\ W > 0 /\ m \in Int
  OBVIOUS
<1> HIDE DEF W, m
<1>2. m % W \in 0..(W - 1) /\ m = (W * (m \div W)) + (m % W) /\ m \div W \in Int
  BY <1>1
<1>3. CASE n \in Ints
  <2>1. Wrap(n) = n - (W * 0)
    BY <1>1, <1>3 DEF Wrap
  <2> QED
    BY <1>3, <2>1 DEF Wrap, W
<1>4. CASE n \notin Ints
  <2>1. Wrap(n) = (m % W) - Half
    BY <1>4 DEF Wrap, W, m
  <2>2. Wrap(n) = n - (W * (m \div W))
    BY <1>1, <1>2, <2>1 DEF m
  <2>3. Wrap(n) \in Ints
    BY <1>2, <2>1 DEF Ints, W
  <2> QED
    BY <1>2, <1>4, <2>2, <2>3 DEF W
<1> QED
  BY <1>3, <1>4

LEMMA WrapSmaller ==
    ASSUME NEW n \in Int
    PROVE  /\ AbsVal(Wrap(n)) <= AbsVal(n)
           /\ n >= -Half => Wrap(n) <= n
  BY BucketAssumption, WrapMeans DEF AbsVal, Ints

\* Two ints that differ by a multiple of the range are one.
LEMMA Unique ==
    ASSUME NEW a \in Ints, NEW b \in Ints, NEW k \in Int,
           a = b - ((2 * Half) * k)
    PROVE  a = b
<1> USE BucketAssumption DEF Ints
<1>1. k >= 1 => (2 * Half) * k >= 2 * Half
  OBVIOUS
<1>2. k <= -1 => (2 * Half) * k <= -(2 * Half)
  OBVIOUS
<1>3. k = 0
  BY <1>1, <1>2
<1> QED
  BY <1>3

\* The time between two polls, taken from two wrapped clocks, is never more
\* than what has passed.
LEMMA ElapsedBound ==
    ASSUME NEW a \in Nat, NEW b \in Nat, b <= a
    PROVE  /\ Wrap(Wrap(a) - Wrap(b)) \in Int
           /\ AbsVal(Wrap(Wrap(a) - Wrap(b))) <= a - b
<1> USE BucketAssumption
<1> DEFINE W == 2 * Half
           d == Wrap(Wrap(a) - Wrap(b))
<1>0. \A n \in Int : Wrap(n) \in Int /\ \E k \in Int : Wrap(n) = n - ((2 * Half) * k)
  <2>1. Ints \subseteq Int
    BY DEF Ints
  <2> QED
    BY <2>1, WrapMeans, Zenon
<1>1. /\ W \in Nat /\ a \in Int /\ b \in Int
      /\ Wrap(a) \in Int /\ Wrap(b) \in Int /\ Wrap(a) - Wrap(b) \in Int
  BY <1>0
<1>2. PICK k1 \in Int : Wrap(a) = a - (W * k1)
  BY <1>0, <1>1
<1>3. PICK k2 \in Int : Wrap(b) = b - (W * k2)
  BY <1>0, <1>1
<1>4. d \in Ints
  BY <1>1, WrapMeans
<1>5. PICK k3 \in Int : d = (Wrap(a) - Wrap(b)) - (W * k3)
  BY <1>0, <1>1
<1> HIDE DEF W, d
<1>6. (k1 - k2) + k3 \in Int /\ d = (a - b) - (W * ((k1 - k2) + k3))
  BY <1>1, <1>2, <1>3, <1>4, <1>5 DEF Ints
<1>7. CASE a - b \in Ints
  <2>1. d = a - b
    BY <1>4, <1>6, <1>7, Unique DEF W
  <2> QED
    BY <1>1, <2>1 DEF d, AbsVal
<1>8. CASE a - b \notin Ints
  BY <1>4, <1>8 DEF d, Ints, AbsVal
<1> QED
  BY <1>4, <1>7, <1>8 DEF d, Ints

\* A quota is an int and never more than the burst.
Capped == quota \in Ints /\ quota <= Burst

\* What a poll earns is no more than the rate yields in the time since the
\* last one.
EarnsItsRate ==
    last # Never => Second * DeltaTraffic <= Rate * (now - last)

\* The quota left and the bytes of a count that some poll has been part of
\* come from the burst and the time of the count; a count that no poll has
\* been part of is zero.
Accounted ==
    /\ last < since => sent = 0
    /\ last >= since =>
          Second * (sent + quota) <= (Second * Burst) + (Rate * (last - since))

\* The clock that the last poll has stored is that of its time.
Remembers == last # Never => last <= now /\ last_ts = Wrap(last)

Inductive == TypeOK /\ Capped /\ Remembers /\ since <= now /\ Accounted /\ RateBound

LEMMA DeltaTrafficType ==
    ASSUME TypeOK
    PROVE  DeltaTraffic \in Nat
<1> USE BucketAssumption
<1> DEFINE delta_t == Wrap(Clock - last_ts)
           p == Wrap(delta_t * Rate)
<1>1. Clock \in Int /\ last_ts \in Int
  BY WrapMeans DEF TypeOK, Clock, Ints
<1>2. delta_t \in Int
  BY <1>1, WrapMeans DEF Ints
<1>3. delta_t * Rate \in Int
  BY <1>2 DEF Ints
<1>4. p \in Int
  BY <1>3, WrapMeans DEF Ints
<1> HIDE DEF p
<1>5. AbsVal(p) \in Nat
  BY <1>4 DEF AbsVal
<1>6. AbsVal(p) \div Second \in Nat
  BY <1>5
<1> QED
  BY <1>6 DEF DeltaTraffic, p

LEMMA EarnedBound ==
    ASSUME TypeOK, Remembers
    PROVE  EarnsItsRate
<1> USE BucketAssumption
<1> SUFFICES ASSUME last # Never PROVE Second * DeltaTraffic <= Rate * (now - last)
  BY DEF EarnsItsRate
<1> DEFINE delta_t == Wrap(Clock - last_ts)
           p == Wrap(delta_t * Rate)
           dt == now - last
<1>1. dt \in Nat /\ delta_t \in Int /\ AbsVal(delta_t) <= dt
  BY ElapsedBound DEF TypeOK, Remembers, Clock
<1>2. DeltaTraffic = AbsVal(p) \div Second
  BY DEF DeltaTraffic
<1>3. Rate \in Nat
  BY DEF Ints
<1>a. delta_t * Rate \in Int
  BY <1>1, <1>3
<1>4. p \in Int /\ AbsVal(p) <= AbsVal(delta_t * Rate)
  BY <1>a, WrapMeans, WrapSmaller DEF Ints
<1> HIDE DEF p, delta_t, dt
<1>5. AbsVal(delta_t * Rate) <= Rate * dt
  <2>1. CASE delta_t >= 0
    BY <1>1, <1>3, <2>1 DEF AbsVal
  <2>2. CASE delta_t < 0
    BY <1>1, <1>3, <2>2 DEF AbsVal
  <2> QED
    BY <1>1, <2>1, <2>2
<1>6. AbsVal(p) \in Nat /\ Second * (AbsVal(p) \div Second) <= AbsVal(p)
  BY <1>4 DEF AbsVal
<1>7. AbsVal(p) \div Second \in Nat /\ AbsVal(delta_t * Rate) \in Nat /\ Rate * dt \in Nat
  BY <1>1, <1>3, <1>6 DEF AbsVal
<1> QED
  BY <1>2, <1>4, <1>5, <1>6, <1>7 DEF dt

LEMMA CollectedCapped ==
    ASSUME TypeOK
    PROVE  /\ Collected \in Ints /\ Collected <= Burst
           /\ Collected <= quota + DeltaTraffic
<1> USE BucketAssumption
<1>1. DeltaTraffic \in Nat /\ quota \in Int /\ quota >= -Half /\ quota + DeltaTraffic \in Int
  BY DeltaTrafficType DEF TypeOK, Ints
<1>2. Wrap(quota + DeltaTraffic) \in Ints
  BY <1>1, WrapMeans
<1>3. Wrap(quota + DeltaTraffic) <= quota + DeltaTraffic
  BY <1>1, WrapSmaller
<1> HIDE DEF TypeOK
<1> QED
  BY <1>1, <1>2, <1>3 DEF Collected, Least, Ints

\* A poll accounts for what it collects, whatever it is in the middle of.
LEMMA CollectedAccounted ==
    ASSUME Inductive
    PROVE  Second * (sent + Collected) <= (Second * Burst) + (Rate * (now - since))
<1> USE BucketAssumption
<1>1. /\ Collected \in Int /\ Collected <= Burst /\ Collected <= quota + DeltaTraffic
      /\ DeltaTraffic \in Nat
  BY CollectedCapped, DeltaTrafficType DEF Inductive, Ints
<1>2. /\ now \in Nat /\ since \in Nat /\ since <= now /\ sent \in Nat /\ quota \in Int
      /\ Rate \in Nat /\ Second \in Nat /\ Burst \in Nat
      /\ last \in Nat \cup {Never}
  BY DEF Inductive, TypeOK, Ints
<1>3. CASE last < since
  <2>1. sent = 0
    BY <1>3 DEF Inductive, Accounted
  <2>2. Second * Collected <= Second * Burst /\ Rate * (now - since) >= 0
    BY <1>1, <1>2
  <2> QED
    BY <1>1, <1>2, <2>1, <2>2
<1>4. CASE last >= since
  <2>1. Second * (sent + quota) <= (Second * Burst) + (Rate * (last - since))
    BY <1>4 DEF Inductive, Accounted
  <2>2. Second * DeltaTraffic <= Rate * (now - last)
    BY <1>2, <1>4, EarnedBound DEF Inductive, EarnsItsRate
  <2>3. Second * (sent + Collected) <= Second * ((sent + quota) + DeltaTraffic)
    BY <1>1, <1>2
  <2>4. Second * ((sent + quota) + DeltaTraffic)
            = (Second * (sent + quota)) + (Second * DeltaTraffic)
    BY <1>1, <1>2
  <2>5. (Rate * (last - since)) + (Rate * (now - last)) = Rate * (now - since)
    BY <1>2
  <2> QED
    BY <1>1, <1>2, <2>1, <2>2, <2>3, <2>4, <2>5
<1> QED
  BY <1>2, <1>3, <1>4

(***************************************************************************)
(* The invariant.                                                          *)
(***************************************************************************)

LEMMA InitHolds == Init => Inductive
  BY BucketAssumption
  DEF Init, Inductive, TypeOK, Capped, Remembers, Accounted, RateBound, Ints

\* What every poll does to the time stamps.
LEMMA PollStamps ==
    ASSUME Inductive, Poll
    PROVE  /\ now' = now /\ since' = since /\ last' = now
           /\ last_ts' = Wrap(last') /\ last_ts' \in Ints /\ now \in Nat
<1>1. now \in Nat /\ now \in Int
  BY DEF Inductive, TypeOK
<1>2. Wrap(now) \in Ints
  BY <1>1, WrapMeans
<1> QED
  BY <1>1, <1>2 DEF Poll, Clock

\* A packet that is let through takes the quota to less than a packet below
\* zero, which no int overflows at.
LEMMA PollSendHolds ==
    ASSUME Inductive, Poll, NEW size \in Sizes, PollSend(size)
    PROVE  Inductive'
<1> USE BucketAssumption
<1> DEFINE payload == size - 14
<1>1. /\ payload \in Nat /\ payload < Half /\ Collected \in Int /\ Collected > 0
      /\ Collected <= Burst /\ Collected \in Ints
  BY CollectedCapped, SizesAssumption DEF Inductive, Ints, PollSend
<1>2. Collected - payload \in Ints /\ Collected - payload \in Int
  BY <1>1 DEF Ints
<1>3. quota' = Collected - payload /\ sent' = sent + payload /\ refused' = Never
  BY <1>2, WrapMeans DEF PollSend
<1>4. /\ sent \in Nat /\ since \in Nat /\ since <= now /\ Second \in Nat
      /\ Burst \in Nat /\ Rate \in Nat
  BY DEF Inductive, TypeOK, Ints
<1>5. /\ now' = now /\ since' = since /\ last' = now
      /\ last_ts' = Wrap(last') /\ last_ts' \in Ints /\ now \in Nat
  BY PollStamps
<1>6. Second * (sent + Collected) <= (Second * Burst) + (Rate * (now - since))
  BY CollectedAccounted
<1> HIDE DEF payload
<1>7. sent' \in Nat /\ sent' + quota' = sent + Collected
  BY <1>1, <1>3, <1>4
<1>8. Accounted'
  BY <1>4, <1>5, <1>6, <1>7 DEF Accounted
<1>9. RateBound'
  <2>1. Second * (sent' + 1) <= Second * ((sent + Collected) + payload)
    BY <1>1, <1>3, <1>4
  <2>2. Second * ((sent + Collected) + payload)
            = (Second * (sent + Collected)) + (Second * payload)
    BY <1>1, <1>4
  <2>3. Second * (Burst + payload) = (Second * Burst) + (Second * payload)
    BY <1>1, <1>4
  <2>4. /\ Second * (sent' + 1) \in Int /\ Second * (sent + Collected) \in Int
        /\ Second * payload \in Int /\ Second * Burst \in Int
        /\ Rate * (now - since) \in Int
    BY <1>1, <1>4, <1>5, <1>7
  <2>5. Second * (sent' + 1) <= (Second * (Burst + payload)) + (Rate * (now - since))
    BY <1>6, <2>1, <2>2, <2>3, <2>4
  <2> QED
    BY <1>5, <2>5 DEF RateBound, payload
<1>10. TypeOK' /\ Capped' /\ Remembers' /\ since' <= now'
  BY <1>1, <1>2, <1>3, <1>4, <1>5, <1>7 DEF TypeOK, Capped, Remembers, Ints
<1> QED
  BY <1>8, <1>9, <1>10 DEF Inductive

\* A poll that lets nothing through keeps what it has collected.
LEMMA PollKeepHolds ==
    ASSUME Inductive, Poll, PollEmpty \/ PollRefuse
    PROVE  Inductive'
<1> USE BucketAssumption
<1>1. Collected \in Int /\ Collected <= Burst /\ Collected \in Ints
  BY CollectedCapped DEF Inductive, Ints
<1>2. quota' = Collected /\ sent' = sent /\ refused' \in {Never, now, refused}
  BY DEF PollEmpty, PollRefuse
<1>3. /\ sent \in Nat /\ since \in Nat /\ since <= now
      /\ refused \in Nat \cup {Never}
  BY DEF Inductive, TypeOK
<1>4. /\ now' = now /\ since' = since /\ last' = now
      /\ last_ts' = Wrap(last') /\ last_ts' \in Ints /\ now \in Nat
  BY PollStamps
<1>5. Second * (sent + Collected) <= (Second * Burst) + (Rate * (now - since))
  BY CollectedAccounted
<1>6. Accounted'
  BY <1>2, <1>3, <1>4, <1>5 DEF Accounted
<1>7. RateBound'
  BY <1>2, <1>4 DEF Inductive, RateBound
<1>8. TypeOK' /\ Capped' /\ Remembers' /\ since' <= now'
  BY <1>1, <1>2, <1>3, <1>4 DEF TypeOK, Capped, Remembers
<1> QED
  BY <1>6, <1>7, <1>8 DEF Inductive

\* Time only adds to what the rate allows.
LEMMA PassHolds == Inductive /\ Pass => Inductive'
<1> USE BucketAssumption
<1> SUFFICES ASSUME Inductive, Pass PROVE Inductive'
  OBVIOUS
<1>1. PICK gap \in Gaps : now' = now + gap
  BY DEF Pass
<1>2. /\ gap \in Nat /\ now \in Nat /\ since \in Nat /\ sent \in Nat
      /\ Rate \in Nat /\ Second \in Nat /\ Burst \in Nat
  BY DEF Inductive, TypeOK, Ints
<1>3. UNCHANGED <<quota, last_ts, last, since, sent, refused>>
  BY DEF Pass
<1>4. RateBound'
  <2> SUFFICES ASSUME sent > 0
               PROVE  \E size \in Sizes :
                   Second * (sent + 1) <= (Second * (Burst + (size - 14)))
                                              + (Rate * (now' - since))
    BY <1>3 DEF RateBound
  <2>1. PICK size \in Sizes :
            Second * (sent + 1) <= (Second * (Burst + (size - 14))) + (Rate * (now - since))
    BY DEF Inductive, RateBound
  <2>2. Rate * (now' - since) = (Rate * (now - since)) + (Rate * gap) /\ Rate * gap \in Nat
    BY <1>1, <1>2
  <2>3. size \in Int
    BY SizesAssumption
  <2> QED
    BY <1>1, <1>2, <2>1, <2>2, <2>3
<1>5. TypeOK' /\ Capped' /\ Remembers' /\ since' <= now' /\ Accounted'
  BY <1>1, <1>2, <1>3 DEF Inductive, TypeOK, Capped, Remembers, Accounted
<1> QED
  BY <1>4, <1>5 DEF Inductive

\* A count that starts is zero, and what is left of the quota is no more
\* than the burst.
LEMMA StartCountHolds == Inductive /\ StartCount => Inductive'
<1> USE BucketAssumption
<1> SUFFICES ASSUME Inductive, StartCount PROVE Inductive'
  OBVIOUS
<1>1. /\ since' = now /\ sent' = 0
      /\ UNCHANGED <<now, quota, last_ts, last, refused>>
  BY DEF StartCount
<1>2. /\ now \in Nat /\ quota \in Int /\ quota <= Burst /\ Second \in Nat /\ Burst \in Int
      /\ last \in Nat \cup {Never}
      /\ last # Never => last <= now
  BY DEF Inductive, TypeOK, Capped, Remembers, Ints
<1>3. Accounted'
  <2>1. Second * (0 + quota) <= Second * Burst
    BY <1>2
  <2>2. (last >= now => last - now = 0) /\ Rate * 0 = 0
    BY <1>2 DEF Ints
  <2> QED
    BY <1>1, <1>2, <2>1, <2>2 DEF Accounted
<1> QED
  BY <1>1, <1>2, <1>3 DEF Inductive, TypeOK, Capped, Remembers, RateBound

LEMMA StepHolds == Inductive /\ [Next]_vars => Inductive'
<1> SUFFICES ASSUME Inductive, [Next]_vars PROVE Inductive'
  OBVIOUS
<1>1. CASE Poll
  BY <1>1, PollSendHolds, PollKeepHolds DEF Poll
<1>2. CASE Pass
  BY <1>2, PassHolds
<1>3. CASE StartCount
  BY <1>3, StartCountHolds
<1>4. CASE UNCHANGED vars
  BY <1>4 DEF vars, Inductive, TypeOK, Capped, Remembers, Accounted, RateBound
<1> QED
  BY <1>1, <1>2, <1>3, <1>4 DEF Next

\* band_qdisc never sends more than its burst, its rate and the rest of one
\* packet, from any moment on, for every rate, burst, width of int and
\* uninitialised time stamp, although clock, product and quota overflow.
THEOREM BandKeepsItsBound == Spec => [](TypeOK /\ RateBound)
<1>1. Inductive => TypeOK /\ RateBound
  BY DEF Inductive
<1> QED
  BY InitHolds, StepHolds, <1>1, PTL DEF Spec

\* The quota and the time stamp stay ints and the counts stay numbers, for
\* every width of int: nothing can_pop computes leaves the type it is stored
\* in.
THEOREM BandTypeCorrect == Spec => []TypeOK
BY BandKeepsItsBound, PTL
=============================================================================
