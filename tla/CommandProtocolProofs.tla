----------------------- MODULE CommandProtocolProofs -----------------------
(***************************************************************************)
(* Proofs about CommandProtocol, for every script, number of tries and     *)
(* number of lost and repeated datagrams: what a reported success means,   *)
(* and that a gateway that has stopped does nothing more.                  *)
(*                                                                         *)
(* The argument for success: a reply is only ever made by an execution     *)
(* (Honest), and while a client runs that was started on a quiet network,  *)
(* every datagram on its way is about its own command (Isolated).          *)
(***************************************************************************)
EXTENDS CommandProtocol, TLAPS

-----------------------------------------------------------------------------
(***************************************************************************)
(* Type correctness.                                                       *)
(***************************************************************************)

\* The client is running a command of the script; a command that has not been
\* run yet is not counted as run on a quiet network.
Underway ==
    /\ pc # "closed" => Current <= Len(script)
    /\ clean \subseteq 1..Current
    /\ pc = "closed" => Current \notin clean

LEMMA Consumed ==
    ASSUME NEW b, NEW a, NEW m, Consume(b, a, m), lost \in Nat, duplicated \in Nat
    PROVE  a \subseteq b /\ lost' \in Nat /\ duplicated' \in Nat
BY DEF Consume, faults

LEMMA ScriptType ==
    ASSUME TypeOK
    PROVE  script \in Seq(Kinds) /\ Len(script) \in Nat /\ Current \in Nat \ {0}
<1>1. script \in Seq(Kinds)
  BY CommandAssumption DEF TypeOK
<1>2. Len(results) \in Nat
  BY DEF TypeOK
<1> QED
  BY <1>1, <1>2 DEF Current

LEMMA InitType == Init => TypeOK /\ Underway
<1> SUFFICES ASSUME Init PROVE TypeOK /\ Underway
  OBVIOUS
<1>1. /\ script \in Scripts /\ pc = "closed" /\ tries = 0 /\ clean = {} /\ toClient = {}
      /\ running = Gateways /\ lost = 0 /\ duplicated = 0
      /\ toGateway = [g \in Gateways |-> {}]
  BY DEF Init
<1>2. socket = <<>> /\ results = <<>> /\ log = [g \in Gateways |-> <<>>]
  BY DEF Init
<1>3. /\ socket \in Seq(Replies) /\ results \in Seq({0, 1})
      /\ log \in [Gateways -> Seq(1..Len(script))]
  BY <1>2
<1>4. TypeOK
  BY <1>1, <1>3, CommandAssumption DEF TypeOK
<1> QED
  BY <1>1, <1>2, <1>4 DEF Underway

LEMMA SendType ==
    ASSUME TypeOK, Underway, SendRequest
    PROVE  TypeOK' /\ Underway'
<1> USE DEF SendRequest, faults
<1>1. /\ tries + 1 \in 1..Tries /\ Current \in 1..Len(script)
  BY ScriptType, CommandAssumption DEF TypeOK, Underway
<1>2. [cmd |-> Current, try |-> tries + 1] \in Requests
  BY <1>1 DEF Requests
<1>3. UNCHANGED <<script, socket, results, clean, running, log, toClient, faults>>
  BY DEF gateway
<1>4. Requests' = Requests /\ Replies' = Replies /\ Current' = Current
  BY <1>3 DEF Requests, Replies, Current
<1>5. toGateway' \in [Gateways -> SUBSET Requests]
  BY <1>2 DEF TypeOK
<1>6. TypeOK'
  BY <1>1, <1>3, <1>4, <1>5 DEF TypeOK
<1> QED
  BY <1>3, <1>4, <1>6 DEF Underway

LEMMA OpenType ==
    ASSUME TypeOK, Underway, Open
    PROVE  TypeOK' /\ Underway'
<1>1. /\ UNCHANGED <<script, results, running, log, toGateway, toClient, faults>>
      /\ pc' = "send" /\ tries' = 0 /\ socket' = <<>>
      /\ clean' \in {clean, clean \cup {Current}}
      /\ Current <= Len(script)
  BY DEF Open, gateway
<1>2. Requests' = Requests /\ Replies' = Replies /\ Current' = Current
  BY <1>1 DEF Requests, Replies, Current
<1>3. Current \in 1..Len(script) /\ Current \in 1..Current
  BY <1>1, ScriptType
<1>4. socket' \in Seq(Replies)
  BY <1>1
<1>5. TypeOK'
  BY <1>1, <1>2, <1>3, <1>4, CommandAssumption DEF TypeOK, faults
<1> QED
  BY <1>1, <1>2, <1>3, <1>5 DEF Underway

LEMMA ReturnType ==
    ASSUME TypeOK, Underway, NEW r \in {0, 1}, Return(r)
    PROVE  TypeOK' /\ Underway'
<1>1. /\ UNCHANGED <<script, tries, clean, running, log, toGateway, toClient, faults>>
      /\ pc' = "closed" /\ socket' = <<>> /\ results' = Append(results, r)
  BY DEF Return, gateway
<1>2. Requests' = Requests /\ Replies' = Replies
  BY <1>1 DEF Requests, Replies
<1>3. /\ results' \in Seq({0, 1}) /\ Current' = Current + 1
  BY <1>1 DEF TypeOK, Current
<1>4. socket' \in Seq(Replies)
  BY <1>1
<1>5. TypeOK'
  BY <1>1, <1>2, <1>3, <1>4 DEF TypeOK, faults
<1>6. clean \subseteq 1..(Current + 1) /\ Current + 1 \notin clean
  BY ScriptType DEF Underway
<1> QED
  BY <1>1, <1>3, <1>5, <1>6 DEF Underway

LEMMA ReadReturns ==
    ASSUME TypeOK, Read
    PROVE  /\ Head(socket) \in Replies /\ Head(socket).result \in {0, 1}
           /\ Head(socket) = socket[1] /\ 1 \in 1..Len(socket)
<1>1. Head(socket) \in Replies /\ Head(socket) = socket[1] /\ 1 \in 1..Len(socket)
  BY DEF TypeOK, Read
<1> QED
  BY <1>1 DEF Replies

LEMMA DeliverType ==
    ASSUME TypeOK, Underway, Deliver
    PROVE  TypeOK' /\ Underway'
<1>1. PICK m \in toClient :
          /\ Consume(toClient, toClient', m)
          /\ socket' = IF pc = "closed" THEN socket ELSE Append(socket, m)
  BY DEF Deliver
<1>2. UNCHANGED <<script, pc, tries, results, clean, running, log, toGateway>>
  BY DEF Deliver, gateway
<1>3. Requests' = Requests /\ Replies' = Replies /\ Current' = Current
  BY <1>2 DEF Requests, Replies, Current
<1>4. toClient' \subseteq toClient /\ lost' \in Nat /\ duplicated' \in Nat
  BY <1>1, Consumed DEF TypeOK
<1>5. socket' \in Seq(Replies)
  BY <1>1 DEF TypeOK
<1>6. TypeOK'
  BY <1>2, <1>3, <1>4, <1>5 DEF TypeOK
<1> QED
  BY <1>2, <1>3, <1>6 DEF Underway

LEMMA LoseType ==
    ASSUME TypeOK, Underway, Lose
    PROVE  /\ TypeOK' /\ Underway' /\ UNCHANGED <<client, gateway>>
           /\ toClient' \subseteq toClient
           /\ \A g \in Gateways : toGateway'[g] \subseteq toGateway[g]
<1>1. UNCHANGED <<client, gateway>> /\ lost' \in Nat /\ duplicated' \in Nat
  BY DEF Lose, TypeOK
<1>2. /\ toClient' \subseteq toClient
      /\ toGateway' \in [Gateways -> SUBSET Requests]
      /\ \A g \in Gateways : toGateway'[g] \subseteq toGateway[g]
  BY DEF Lose, TypeOK
<1>3. Requests' = Requests /\ Replies' = Replies /\ Current' = Current
  BY <1>1 DEF Requests, Replies, Current, client
<1>4. TypeOK'
  BY <1>1, <1>2, <1>3 DEF TypeOK, client, gateway
<1> QED
  BY <1>1, <1>2, <1>3, <1>4 DEF Underway, client

LEMMA CapturesType ==
    ASSUME TypeOK, NEW g \in Gateways, NEW m, Captures(g, m)
    PROVE  /\ toGateway' \in [Gateways -> SUBSET Requests]
           /\ \A h \in Gateways : toGateway'[h] \subseteq toGateway[h]
           /\ lost' \in Nat /\ duplicated' \in Nat
<1>1. PICK rest \in SUBSET toGateway[g] :
        /\ Consume(toGateway[g], rest, m)
        /\ toGateway' = [toGateway EXCEPT ![g] = rest]
  BY DEF Captures
<1>2. lost' \in Nat /\ duplicated' \in Nat
  BY <1>1, Consumed DEF TypeOK
<1> QED
  BY <1>1, <1>2 DEF TypeOK

\* The reply to a request.
Reply(m) == [result |-> Result(script[m.cmd]), cmd |-> m.cmd, try |-> m.try]

LEMMA DispatchType ==
    ASSUME TypeOK, Underway, NEW g \in Gateways, NEW m \in toGateway[g], Dispatch(g, m)
    PROVE  TypeOK' /\ Underway'
<1>1. /\ UNCHANGED <<script, pc, tries, socket, results, clean>>
      /\ log' = [log EXCEPT ![g] = Append(@, m.cmd)]
      /\ running' \subseteq running
      /\ toClient' \subseteq toClient \cup {Reply(m)}
  BY DEF Dispatch, Execute, client, Reply
<1>2. m \in Requests
  BY DEF TypeOK
<1>3. m.cmd \in 1..Len(script) /\ Reply(m) \in Replies
  BY <1>2 DEF Requests, Replies, Reply, Result
<1>4. Requests' = Requests /\ Replies' = Replies /\ Current' = Current
  BY <1>1 DEF Requests, Replies, Current
<1>5. log' \in [Gateways -> Seq(1..Len(script))]
  BY <1>1, <1>3 DEF TypeOK
<1>6. TypeOK'
  BY <1>1, <1>3, <1>4, <1>5, CapturesType DEF TypeOK, Dispatch
<1> QED
  BY <1>1, <1>4, <1>6 DEF Underway

LEMMA DisregardType ==
    ASSUME TypeOK, Underway, NEW g \in Gateways, NEW m \in toGateway[g], Disregard(g, m)
    PROVE  TypeOK' /\ Underway'
<1>1. UNCHANGED <<client, gateway, toClient>>
  BY DEF Disregard
<1>2. Requests' = Requests /\ Replies' = Replies /\ Current' = Current
  BY <1>1 DEF Requests, Replies, Current, client
<1>3. TypeOK'
  BY <1>1, <1>2, CapturesType DEF TypeOK, Disregard, client, gateway
<1> QED
  BY <1>1, <1>2, <1>3 DEF Underway, client

LEMMA StillType ==
    ASSUME TypeOK, Underway, Timeout \/ UNCHANGED vars
    PROVE  TypeOK' /\ Underway'
<1>1. UNCHANGED <<script, tries, socket, results, clean, gateway, toGateway, toClient, faults>>
  BY DEF Timeout, vars, client
<1>2. pc' = pc \/ (pc = "wait" /\ pc' = "send")
  BY DEF Timeout, vars, client
<1>3. Requests' = Requests /\ Replies' = Replies /\ Current' = Current
  BY <1>1 DEF Requests, Replies, Current
<1>4. TypeOK'
  BY <1>1, <1>2, <1>3 DEF TypeOK, gateway, faults
<1> QED
  BY <1>1, <1>2, <1>3, <1>4 DEF Underway

LEMMA NextType == TypeOK /\ Underway /\ [Next]_vars => (TypeOK /\ Underway)'
<1> SUFFICES ASSUME TypeOK, Underway, [Next]_vars
             PROVE  TypeOK' /\ Underway'
  OBVIOUS
<1>1. CASE Read
  BY <1>1, ReadReturns, ReturnType DEF Read
<1>2. CASE GiveUp
  BY <1>2, ReturnType DEF GiveUp
<1>3. CASE Gateway
  BY <1>3, DispatchType, DisregardType DEF Gateway
<1> QED
  BY <1>1, <1>2, <1>3, OpenType, SendType, StillType, DeliverType, LoseType
  DEF Next, Client
\* The variables keep their types: no reply or request names a command that
\* is not in the script, and no client tries more than Tries times.
THEOREM TypeCorrect == Spec => []TypeOK
BY InitType, NextType, PTL DEF Spec

-----------------------------------------------------------------------------
(***************************************************************************)
(* Stopping.                                                               *)
(***************************************************************************)

\* NothingAfterStop of one gateway, with log l.
Stopped(g, l) ==
    /\ g \notin running <=> \E n \in 1..Len(l) : script[l[n]] \in Ending
    /\ \A n \in 1..Len(l) : script[l[n]] \in Ending => n = Len(l)

LEMMA DispatchStops ==
    ASSUME TypeOK, NothingAfterStop,
           NEW g \in Gateways, NEW m \in toGateway[g], Dispatch(g, m)
    PROVE  NothingAfterStop'
<1> DEFINE l == log[g]
           a == Append(l, m.cmd)
<1>1. /\ script' = script /\ g \in running
      /\ log' = [log EXCEPT ![g] = a]
      /\ running' = IF script[m.cmd] \in Ending THEN running \ {g} ELSE running
  BY DEF Dispatch, Execute, client
<1>2. /\ l \in Seq(1..Len(script)) /\ m.cmd \in 1..Len(script)
      /\ log \in [Gateways -> Seq(1..Len(script))]
  BY DEF TypeOK, Requests
<1>3. /\ Len(a) = Len(l) + 1 /\ Len(l) \in Nat
      /\ a[Len(l) + 1] = m.cmd
      /\ \A n \in 1..Len(l) : a[n] = l[n]
  BY <1>2
<1>4. \A n \in 1..Len(l) : script[l[n]] \notin Ending
  BY <1>1 DEF NothingAfterStop
<1>5. log'[g] = a /\ \A h \in Gateways \ {g} : log'[h] = log[h]
  BY <1>1, <1>2
<1> HIDE DEF a, l
<1>6. \A n \in 1..Len(a) : script[a[n]] \in Ending <=> n = Len(a) /\ script[m.cmd] \in Ending
  BY <1>3, <1>4
<1>7. g \notin running' <=> script[m.cmd] \in Ending
  BY <1>1
<1>8. /\ g \notin running' <=> \E n \in 1..Len(a) : script[a[n]] \in Ending
      /\ \A n \in 1..Len(a) : script[a[n]] \in Ending => n = Len(a)
  BY <1>3, <1>6, <1>7
<1>9. ASSUME NEW h \in Gateways \ {g}
      PROVE  /\ h \notin running' <=> \E n \in 1..Len(log[h]) : script[log[h][n]] \in Ending
             /\ \A n \in 1..Len(log[h]) : script[log[h][n]] \in Ending => n = Len(log[h])
  BY <1>1 DEF NothingAfterStop
<1> QED
  BY <1>1, <1>5, <1>8, <1>9 DEF NothingAfterStop

\* A gateway ends only for a command that names it and ends it, and executes
\* nothing after it: neither another copy of the request nor a later command
\* has any effect, however they are repeated and reordered.
THEOREM StopIsFinal == Spec => []NothingAfterStop
<1> DEFINE Inv == TypeOK /\ Underway /\ NothingAfterStop
<1>1. Init => Inv
  BY InitType DEF Init, NothingAfterStop
<1>2. Inv /\ [Next]_vars => Inv'
  <2> SUFFICES ASSUME Inv, [Next]_vars PROVE Inv'
    OBVIOUS
  <2>1. CASE Client \/ Deliver \/ Lose \/ UNCHANGED vars
    <3>1. UNCHANGED <<script, running, log>>
      BY <2>1 DEF Client, Open, SendRequest, Read, Timeout, GiveUp, Return, Deliver, Lose,
             vars, client, gateway
    <3> QED
      BY <3>1, NextType DEF NothingAfterStop
  <2>2. ASSUME NEW g \in Gateways, NEW m \in toGateway[g], Dispatch(g, m)
        PROVE  Inv'
    BY <2>2, DispatchStops, NextType
  <2>3. ASSUME NEW g \in Gateways, NEW m \in toGateway[g], Disregard(g, m)
        PROVE  Inv'
    BY <2>3, NextType DEF Disregard, NothingAfterStop, client, gateway
  <2> QED
    BY <2>1, <2>2, <2>3 DEF Next, Gateway
<1> QED
  BY <1>1, <1>2, PTL DEF Spec

-----------------------------------------------------------------------------
(***************************************************************************)
(* What success means.                                                     *)
(***************************************************************************)

\* An execution stands behind this reply.
Earned(m) ==
    /\ m.result = Result(script[m.cmd])
    /\ script[m.cmd] # "bad_filter"
    /\ Executed(Wanted, m.cmd)

Honest ==
    /\ \A m \in toClient : Earned(m)
    /\ \A n \in 1..Len(socket) : Earned(socket[n])

\* While a command that was run on a quiet network is run, every datagram is
\* about it.
Isolated ==
    Current \in clean =>
        /\ \A g \in Gateways : \A m \in toGateway[g] : m.cmd = Current
        /\ \A m \in toClient : m.cmd = Current
        /\ \A n \in 1..Len(socket) : socket[n].cmd = Current

Kept == TypeOK /\ Underway /\ Honest /\ Isolated /\ SuccessMeansExecuted

\* The steps that change neither the log nor a result keep what is known.
LEMMA SameLog ==
    ASSUME UNCHANGED <<script, log>>
    PROVE  /\ \A c : Executed(Wanted, c)' <=> Executed(Wanted, c)
           /\ \A m : Earned(m)' <=> Earned(m)
BY DEF Executed, Earned, Result

LEMMA OpenKeeps ==
    ASSUME Kept, Open
    PROVE  Honest' /\ Isolated' /\ SuccessMeansExecuted'
<1>1. /\ UNCHANGED <<script, results, log, toGateway, toClient>>
      /\ socket' = <<>> /\ pc = "closed"
      /\ clean' = IF Quiet THEN clean \cup {Current} ELSE clean
      /\ Current' = Current
  BY DEF Open, gateway, Current
<1>2. Current \notin clean /\ Current \in Nat /\ Len(results) \in Nat
  BY <1>1, ScriptType DEF Kept, Underway, TypeOK
<1>3. Honest'
  BY <1>1, SameLog DEF Kept, Honest
<1>4. Isolated'
  BY <1>1, <1>2 DEF Isolated, Quiet
<1>5. SuccessMeansExecuted'
  <2>1. \A c \in clean' : c <= Len(results) => c \in clean
    BY <1>1, <1>2 DEF Current
  <2> QED
    BY <1>1, <2>1, SameLog DEF Kept, SuccessMeansExecuted
<1> QED
  BY <1>3, <1>4, <1>5

LEMMA SendKeeps ==
    ASSUME Kept, SendRequest
    PROVE  Honest' /\ Isolated' /\ SuccessMeansExecuted'
<1>1. /\ UNCHANGED <<script, results, log, toClient, socket, clean>>
      /\ toGateway' = [g \in Gateways |->
            toGateway[g] \cup {[cmd |-> Current, try |-> tries + 1]}]
      /\ Current' = Current
  BY DEF SendRequest, gateway, Current
<1>2. Honest' /\ SuccessMeansExecuted'
  BY <1>1, SameLog DEF Kept, Honest, SuccessMeansExecuted
<1>3. Isolated'
  BY <1>1 DEF Kept, Isolated
<1> QED
  BY <1>2, <1>3

\* A client returns r; a success is the one its command has earned.
LEMMA ReturnKeeps ==
    ASSUME Kept, NEW r \in {0, 1}, Return(r),
           Current \in clean /\ r = 1 =>
                script[Current] \notin {"throws", "bad_filter"} /\ Executed(Wanted, Current)
    PROVE  Honest' /\ Isolated' /\ SuccessMeansExecuted'
<1>1. /\ UNCHANGED <<script, clean, log, toGateway, toClient>>
      /\ socket' = <<>> /\ results' = Append(results, r)
  BY DEF Return, gateway
<1>2. /\ Len(results) \in Nat /\ Len(results') = Len(results) + 1
      /\ results'[Len(results) + 1] = r
      /\ \A n \in 1..Len(results) : results'[n] = results[n]
      /\ Current' = Current + 1 /\ Current = Len(results) + 1
      /\ clean \subseteq 1..Current
  BY <1>1 DEF Kept, TypeOK, Underway, Current
<1>3. Honest'
  BY <1>1, SameLog DEF Kept, Honest
<1>4. Isolated'
  BY <1>1, <1>2 DEF Isolated
<1>5. ASSUME NEW c \in clean, c <= Len(results'), results'[c] = 1
      PROVE  script[c] \notin {"throws", "bad_filter"} /\ Executed(Wanted, c)
  <2>1. CASE c = Current
    BY <1>2, <1>5, <2>1
  <2>2. CASE c # Current
    <3>1. c \in 1..Len(results)
      BY <1>2, <2>2
    <3> QED
      BY <1>2, <1>5, <3>1 DEF Kept, SuccessMeansExecuted
  <2> QED
    BY <2>1, <2>2
<1>6. SuccessMeansExecuted'
  BY <1>1, <1>5, SameLog DEF SuccessMeansExecuted
<1> QED
  BY <1>3, <1>4, <1>6

LEMMA ReadKeeps ==
    ASSUME Kept, Read
    PROVE  Honest' /\ Isolated' /\ SuccessMeansExecuted'
<1> DEFINE m == Head(socket)
<1>1. /\ m \in Replies /\ m.result \in {0, 1} /\ Return(m.result)
      /\ m = socket[1] /\ 1 \in 1..Len(socket)
  BY ReadReturns DEF Kept, Read
<1>2. Earned(m)
  BY <1>1 DEF Kept, Honest
<1>3. ASSUME Current \in clean, m.result = 1
      PROVE  script[Current] \notin {"throws", "bad_filter"} /\ Executed(Wanted, Current)
  <2>1. m.cmd = Current
    BY <1>1, <1>3 DEF Kept, Isolated
  <2> QED
    BY <1>2, <1>3, <2>1 DEF Earned, Result
<1> QED
  BY <1>1, <1>3, ReturnKeeps

LEMMA DeliverKeeps ==
    ASSUME Kept, Deliver
    PROVE  Honest' /\ Isolated' /\ SuccessMeansExecuted'
<1>1. PICK m \in toClient :
          /\ Consume(toClient, toClient', m)
          /\ socket' = IF pc = "closed" THEN socket ELSE Append(socket, m)
  BY DEF Deliver
<1>2. UNCHANGED <<script, results, clean, log, toGateway>> /\ Current' = Current
  BY DEF Deliver, gateway, Current
<1>3. toClient' \subseteq toClient
  BY <1>1, Consumed DEF Kept, TypeOK
<1>4. \A n \in 1..Len(socket') : socket'[n] = m \/ \E j \in 1..Len(socket) : socket'[n] = socket[j]
  <2>1. CASE socket' = socket
    BY <2>1
  <2>2. CASE socket' = Append(socket, m)
    <3>1. /\ Len(socket') = Len(socket) + 1 /\ Len(socket) \in Nat
          /\ socket'[Len(socket) + 1] = m
          /\ \A n \in 1..Len(socket) : socket'[n] = socket[n]
      BY <2>2 DEF Kept, TypeOK
    <3> QED
      BY <3>1
  <2> QED
    BY <1>1, <2>1, <2>2
<1>5. \A x : Earned(x)' <=> Earned(x)
  BY <1>2, SameLog
<1>6. Honest'
  <2>1. (\A x \in toClient : Earned(x)) /\ \A n \in 1..Len(socket) : Earned(socket[n])
    BY DEF Kept, Honest
  <2>2. \A n \in 1..Len(socket') : Earned(socket'[n])
    BY <1>4, <2>1
  <2> QED
    BY <1>3, <1>5, <2>1, <2>2 DEF Honest
<1>7. Isolated'
  BY <1>2, <1>3, <1>4 DEF Kept, Isolated
<1>8. SuccessMeansExecuted'
  BY <1>2, SameLog DEF Kept, SuccessMeansExecuted
<1> QED
  BY <1>6, <1>7, <1>8

\* Datagrams disappear, and nothing else changes.
LEMMA FewerKeeps ==
    ASSUME Kept, UNCHANGED <<script, results, clean, log, socket>>,
           toClient' \subseteq toClient,
           \A g \in Gateways : toGateway'[g] \subseteq toGateway[g]
    PROVE  Honest' /\ Isolated' /\ SuccessMeansExecuted'
<1>1. Current' = Current
  BY DEF Current
<1>2. Honest' /\ SuccessMeansExecuted'
  BY SameLog DEF Kept, Honest, SuccessMeansExecuted
<1>3. Isolated'
  BY <1>1 DEF Kept, Isolated
<1> QED
  BY <1>2, <1>3

LEMMA DispatchKeeps ==
    ASSUME Kept, NEW g \in Gateways, NEW m \in toGateway[g], Dispatch(g, m)
    PROVE  Honest' /\ Isolated' /\ SuccessMeansExecuted'
<1>1. /\ UNCHANGED <<script, pc, tries, socket, results, clean>> /\ g = Wanted
      /\ log' = [log EXCEPT ![g] = Append(@, m.cmd)]
      /\ \A x \in toClient' : x \in toClient \/ (x = Reply(m) /\ script[m.cmd] # "bad_filter")
      /\ Current' = Current
  BY DEF Dispatch, Execute, client, Reply, Current
<1>2. /\ log[g] \in Seq(1..Len(script)) /\ g \in Gateways
      /\ log \in [Gateways -> Seq(1..Len(script))] /\ m \in Requests
  BY DEF Kept, TypeOK
<1>3. /\ Len(log'[g]) = Len(log[g]) + 1 /\ Len(log[g]) \in Nat
      /\ log'[g][Len(log[g]) + 1] = m.cmd
      /\ \A n \in 1..Len(log[g]) : log'[g][n] = log[g][n]
  BY <1>1, <1>2 DEF Requests
<1>4. Executed(Wanted, m.cmd)' /\ \A c : Executed(Wanted, c) => Executed(Wanted, c)'
  BY <1>1, <1>3 DEF Executed
<1>5. \A x : Earned(x) => Earned(x)'
  BY <1>1, <1>4 DEF Earned, Result
<1>6. ASSUME NEW x, x = Reply(m), script[m.cmd] # "bad_filter"
      PROVE  Earned(x)'
  <2>1. x.result = Result(script[m.cmd]) /\ x.cmd = m.cmd
    BY <1>6 DEF Reply
  <2> QED
    BY <1>1, <1>4, <1>6, <2>1 DEF Earned, Result
<1>7. Honest'
  BY <1>1, <1>5, <1>6 DEF Kept, Honest
<1>8. Isolated'
  <2>1. \A h \in Gateways : toGateway'[h] \subseteq toGateway[h]
    BY CapturesType DEF Kept, Dispatch
  <2>2. Current \in clean => m.cmd = Current
    BY DEF Kept, Isolated
  <2> QED
    BY <1>1, <2>1, <2>2 DEF Kept, Isolated, Reply
<1>9. SuccessMeansExecuted'
  BY <1>1, <1>4 DEF Kept, SuccessMeansExecuted
<1> QED
  BY <1>7, <1>8, <1>9

\* A client that reports success has had its command executed without an
\* error by the gateway it named, whatever was lost or repeated and however
\* often it was retried, if no datagram of an earlier command was on its way
\* when it was run.
THEOREM SuccessIsExecution == Spec => []SuccessMeansExecuted
<1>1. Init => Kept
  BY InitType DEF Init, Kept, Honest, Isolated, SuccessMeansExecuted
<1>2. Kept /\ [Next]_vars => Kept'
  <2> SUFFICES ASSUME Kept, [Next]_vars
               PROVE  Honest' /\ Isolated' /\ SuccessMeansExecuted'
    BY NextType DEF Kept
  <2>1. CASE Open \/ SendRequest \/ Read \/ Deliver
    BY <2>1, OpenKeeps, SendKeeps, ReadKeeps, DeliverKeeps
  <2>2. CASE GiveUp
    BY <2>2, ReturnKeeps DEF GiveUp
  <2>3. CASE Timeout \/ UNCHANGED vars
    BY <2>3, FewerKeeps DEF Timeout, vars, client, gateway
  <2>4. CASE Lose
    BY <2>4, LoseType, FewerKeeps DEF Kept, client, gateway
  <2>5. ASSUME NEW g \in Gateways, NEW m \in toGateway[g], Dispatch(g, m)
        PROVE  Honest' /\ Isolated' /\ SuccessMeansExecuted'
    BY <2>5, DispatchKeeps
  <2>6. ASSUME NEW g \in Gateways, NEW m \in toGateway[g], Disregard(g, m)
        PROVE  Honest' /\ Isolated' /\ SuccessMeansExecuted'
    BY <2>6, CapturesType, FewerKeeps DEF Kept, Disregard, client, gateway
  <2> QED
    BY <2>1, <2>2, <2>3, <2>4, <2>5, <2>6 DEF Next, Client, Gateway
<1>3. Kept => SuccessMeansExecuted
  BY DEF Kept
<1> QED
  BY <1>1, <1>2, <1>3, PTL DEF Spec
=============================================================================
