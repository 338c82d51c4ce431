------------------------- MODULE DhcpClientProofs -------------------------
(***************************************************************************)
(* Theorems about DhcpClient and about the option parser it reads replies  *)
(* with.                                                                   *)
(*                                                                         *)
(* The client, for any number of servers and addresses and any bounds on   *)
(* what the network loses and repeats: one invariant serves all theorems,  *)
(* what the client holds and what is on its way to it can be traced to     *)
(* what a server has done.                                                 *)
(*                                                                         *)
(* The parser, for every list of fields and every limit: written one after *)
(* the other, the fields start at certain positions; the loop stops at     *)
(* these and at End, and nowhere else within the limit.                    *)
(***************************************************************************)
EXTENDS DhcpReplies, TLAPS, WellFoundedInduction

\* A client that is not in its loop is not configured.
Quiet == pc # "running" => ~is_configured

\* Before the loop ends nothing is released, by history or by datagram.
Unreleased ==
    pc \in {"start", "running"} =>
        /\ releases = <<>>
        /\ \A s \in Servers : \A m \in toServer[s] : m.type # "release"

\* What the client goes by, and what it is offered, is what a server has set
\* aside for it.
Traced ==
    /\ ip = None <=> server = None
    /\ server # None => ip = binding[server]
    /\ \A m \in toClient : m.ours /\ m.type = "offer" => m.ip = binding[m.server]

\* A REQUEST and a positive answer to one mean that there was an offer.
Answered ==
    /\ \A s \in Servers : \A m \in toServer[s] : m.type = "request" => ip # None
    /\ \A m \in toClient : m.ours /\ m.type = "ack" => ip # None
    /\ is_configured => ip # None

\* As long as nothing is released, an ACK, and a configuration, mean that a
\* server has committed its lease.
Held ==
    pc \in {"start", "running"} =>
        /\ \A m \in toClient : m.ours /\ m.type = "ack" => lease[m.server] = "committed"
        /\ is_configured => \E s \in Servers : lease[s] = "committed"

IInv == TypeOK /\ Quiet /\ Unreleased /\ Traced /\ Answered /\ Held
-----------------------------------------------------------------------------
(***************************************************************************)
(* What the network does.                                                  *)
(***************************************************************************)

\* What is delivered leaves no more than there was, and the count of
\* repetitions a number.
LEMMA ConsumeShrinks ==
  ASSUME TypeOK, NEW before, NEW after, NEW m, Consume(before, after, m)
  PROVE  /\ after \subseteq before
         /\ lost' \in Nat /\ duplicated' \in Nat
BY SMT DEF TypeOK, Consume, faults

\* To have fewer datagrams on their way takes nothing from the invariant.
LEMMA FewerDatagrams ==
  ASSUME IInv, UNCHANGED <<client, servers>>,
         lost' \in Nat, duplicated' \in Nat,
         toServer' \in [Servers -> SUBSET Requests],
         \A s \in Servers : toServer'[s] \subseteq toServer[s],
         toClient' \subseteq toClient
  PROVE  IInv'
<1> USE DEF client, servers
<1>1. TypeOK' BY DEF IInv, TypeOK
<1>2. Quiet' BY DEF IInv, Quiet
<1>3. Unreleased' BY DEF IInv, Unreleased
<1>4. Traced' BY DEF IInv, Traced
<1>5. Answered' BY DEF IInv, Answered
<1>6. Held' BY DEF IInv, Held
<1> QED BY <1>1, <1>2, <1>3, <1>4, <1>5, <1>6 DEF IInv

\* A broadcast adds one datagram to what is on its way to each server.
LEMMA BroadcastAdds ==
  ASSUME TypeOK, NEW m \in Requests, Broadcast(m)
  PROVE  /\ toServer' \in [Servers -> SUBSET Requests]
         /\ \A s \in Servers : toServer'[s] = toServer[s] \cup {m}
BY SMT DEF TypeOK, Broadcast

LEMMA LoseKeeps ==
  ASSUME IInv, Lose
  PROVE  IInv'
<1>1. lost' \in Nat /\ duplicated' \in Nat
  BY SMT DEF IInv, TypeOK, Lose
<1>2. UNCHANGED <<client, servers>> BY DEF Lose
<1>3. CASE \E s \in Servers : \E m \in toServer[s] :
              /\ toServer' = [toServer EXCEPT ![s] = @ \ {m}]
              /\ UNCHANGED toClient
  <2>1. toServer' \in [Servers -> SUBSET Requests]
    BY <1>3, SMT DEF IInv, TypeOK
  <2>2. \A s \in Servers : toServer'[s] \subseteq toServer[s]
    BY <1>3, SMT DEF IInv, TypeOK
  <2> QED BY <1>1, <1>2, <1>3, <2>1, <2>2, FewerDatagrams
<1>4. CASE \E m \in toClient : toClient' = toClient \ {m} /\ UNCHANGED toServer
  <2>1. toServer' \in [Servers -> SUBSET Requests] BY <1>4 DEF IInv, TypeOK
  <2>2. \A s \in Servers : toServer'[s] \subseteq toServer[s] BY <1>4
  <2>3. toClient' \subseteq toClient BY <1>4
  <2> QED BY <1>1, <1>2, <2>1, <2>2, <2>3, FewerDatagrams
<1> QED BY <1>3, <1>4 DEF Lose
-----------------------------------------------------------------------------
(***************************************************************************)
(* What the client does.                                                   *)
(***************************************************************************)

LEMMA EmptyOver == \A S : <<>> \in Seq(S)
OBVIOUS

LEMMA InitKeeps ==
  ASSUME Init
  PROVE  IInv
<1> USE DhcpAssumption DEF Init
<1>1. TypeOK
  <2>1. releases \in Seq(Requests) BY EmptyOver, Zenon
  <2>2. toClient \subseteq Replies BY SMT
  <2>3. toServer \in [Servers -> SUBSET Requests] BY SMT
  <2>4. lease \in [Servers -> {"free", "offered", "committed"}] BY SMT
  <2>5. pc \in {"start", "running", "leaving", "gone"} /\ is_configured \in BOOLEAN
    OBVIOUS
  <2>6. lost \in Nat /\ duplicated \in Nat BY SMT
  <2>7. ip \in Addresses \cup {None} /\ server \in Servers \cup {None} OBVIOUS
  <2>8. binding \in [Servers -> Addresses] OBVIOUS
  <2> QED BY <2>1, <2>2, <2>3, <2>4, <2>5, <2>6, <2>7, <2>8, Zenon DEF TypeOK
<1>2. Quiet BY DEF Quiet
<1>3. Unreleased BY SMT DEF Unreleased
<1>4. Traced BY SMT DEF Traced, Replies
<1>5. Answered BY SMT DEF Answered, Replies
<1>6. Held BY SMT DEF Held, Replies
<1> QED BY <1>1, <1>2, <1>3, <1>4, <1>5, <1>6 DEF IInv

LEMMA SendDiscoverKeeps ==
  ASSUME IInv, SendDiscover
  PROVE  IInv'
<1> DEFINE m == [type |-> "discover"]
<1>1. m \in Requests BY DEF Requests
<1>2. /\ toServer' \in [Servers -> SUBSET Requests]
      /\ \A s \in Servers : toServer'[s] = toServer[s] \cup {m}
  BY <1>1, BroadcastAdds DEF IInv, SendDiscover
<1>3. /\ pc = "start" /\ pc' = "running"
      /\ is_configured' = FALSE
      /\ UNCHANGED <<ip, server, releases, toClient, servers, faults>>
  BY DEF SendDiscover
<1>4. m.type = "discover" OBVIOUS
<1> HIDE DEF m
<1> USE DEF servers, faults
<1>5. TypeOK' BY <1>2, <1>3 DEF IInv, TypeOK
<1>6. Quiet' BY <1>3 DEF Quiet
<1>7. Unreleased' BY <1>2, <1>3, <1>4, SMT DEF IInv, Unreleased
<1>8. Traced' BY <1>3 DEF IInv, Traced
<1>9. Answered' BY <1>2, <1>3, <1>4, SMT DEF IInv, Answered
<1>10. Held' BY <1>3, SMT DEF IInv, Held
<1> QED BY <1>5, <1>6, <1>7, <1>8, <1>9, <1>10 DEF IInv

LEMMA RecvOfferKeeps ==
  ASSUME IInv, NEW r \in toClient, RecvOffer(r)
  PROVE  IInv'
<1> DEFINE m == [type |-> "request", ip |-> r.ip, server |-> r.server]
<1>1. r \in Replies BY DEF IInv, TypeOK
<1>2. r.ip \in Addresses /\ r.server \in Servers BY <1>1 DEF Replies
<1>3. m \in Requests BY <1>2 DEF Requests
<1>4. /\ toServer' \in [Servers -> SUBSET Requests]
      /\ \A s \in Servers : toServer'[s] = toServer[s] \cup {m}
  BY <1>3, BroadcastAdds DEF IInv, RecvOffer
<1>5. toClient' \subseteq toClient /\ lost' \in Nat /\ duplicated' \in Nat
  BY ConsumeShrinks DEF IInv, RecvOffer, Hears
<1>6. /\ pc = "running" /\ pc' = pc
      /\ is_configured' = FALSE
      /\ ip' = r.ip /\ server' = r.server
      /\ UNCHANGED <<releases, servers>>
      /\ r.ours /\ r.type = "offer"
  BY DEF RecvOffer, Hears
<1>7. m.type = "request" OBVIOUS
<1>8. ip' # None /\ server' # None BY <1>2, <1>6, DhcpAssumption
<1> HIDE DEF m
<1> USE DEF servers
<1>9. TypeOK' BY <1>2, <1>4, <1>5, <1>6 DEF IInv, TypeOK
<1>10. Quiet' BY <1>6 DEF Quiet
<1>11. Unreleased' BY <1>4, <1>6, <1>7, SMT DEF IInv, Unreleased
<1>12. Traced' BY <1>5, <1>6, <1>8, SMT DEF IInv, Traced
<1>13. Answered' BY <1>5, <1>8 DEF Answered
<1>14. Held' BY <1>5, <1>6, SMT DEF IInv, Held
<1> QED BY <1>9, <1>10, <1>11, <1>12, <1>13, <1>14 DEF IInv

LEMMA RecvAckKeeps ==
  ASSUME IInv, NEW r \in toClient, RecvAck(r)
  PROVE  IInv'
<1>1. toClient' \subseteq toClient /\ lost' \in Nat /\ duplicated' \in Nat
  BY ConsumeShrinks DEF IInv, RecvAck, Hears
<1>2. /\ pc = "running" /\ pc' = pc
      /\ is_configured' = TRUE
      /\ UNCHANGED <<ip, server, releases, toServer, servers>>
      /\ r.ours /\ r.type = "ack"
  BY DEF RecvAck, Hears
<1>3. r.server \in Servers BY DEF IInv, TypeOK, Replies
<1> USE DEF servers
<1>4. TypeOK' BY <1>1, <1>2 DEF IInv, TypeOK
<1>5. Quiet' BY <1>2 DEF Quiet
<1>6. Unreleased' BY <1>2 DEF IInv, Unreleased
<1>7. Traced' BY <1>1, <1>2 DEF IInv, Traced
<1>8. Answered' BY <1>1, <1>2 DEF IInv, Answered
<1>9. Held' BY <1>1, <1>2, <1>3 DEF IInv, Held
<1> QED BY <1>4, <1>5, <1>6, <1>7, <1>8, <1>9 DEF IInv

\* What is only printed, or not read at all.
LEMMA UnheardKeeps ==
  ASSUME IInv, NEW r \in toClient, RecvNak(r) \/ Ignore(r)
  PROVE  IInv'
<1>1. Consume(toClient, toClient', r) /\ UNCHANGED <<client, toServer, servers>>
  BY DEF RecvNak, Hears, Ignore
<1>2. toClient' \subseteq toClient /\ lost' \in Nat /\ duplicated' \in Nat
  BY <1>1, ConsumeShrinks DEF IInv
<1>3. /\ toServer' \in [Servers -> SUBSET Requests]
      /\ \A s \in Servers : toServer'[s] \subseteq toServer[s]
  BY <1>1 DEF IInv, TypeOK
<1> QED BY <1>1, <1>2, <1>3, FewerDatagrams

\* send_release sends a RELEASE for the lease in use, or nothing.
LEMMA ReleaseShape ==
  ASSUME IInv, pc \in {"start", "running"} \/ ~is_configured, SendRelease
  PROVE  LET m == [type |-> "release", ip |-> ip, server |-> server]
         IN  /\ toServer' \in [Servers -> SUBSET Requests]
             /\ \A s \in Servers : toServer[s] \subseteq toServer'[s]
             /\ \A s \in Servers : \A d \in toServer'[s] : d \in toServer[s] \/ d.type = "release"
             /\ releases' \in Seq(Requests)
             /\ ~is_configured' /\ UNCHANGED <<ip, server>>
             /\ is_configured => releases' = <<m>>
             /\ ~is_configured => releases' = releases
<1> DEFINE m == [type |-> "release", ip |-> ip, server |-> server]
<1>1. ~is_configured' /\ UNCHANGED <<ip, server>> BY DEF SendRelease
<1>2. CASE ~is_configured
  <2>1. UNCHANGED <<toServer, releases>> BY <1>2 DEF SendRelease
  <2> QED BY <1>1, <1>2, <2>1 DEF IInv, TypeOK
<1>3. CASE is_configured
  <2>1. ip # None /\ server # None BY <1>3 DEF IInv, Answered, Traced
  <2>2. ip \in Addresses /\ server \in Servers BY <2>1 DEF IInv, TypeOK
  <2>3. m \in Requests BY <2>2 DEF Requests
  <2>4. Broadcast(m) /\ releases' = Append(releases, m) BY <1>3 DEF SendRelease
  <2>5. m.type = "release" OBVIOUS
  <2>6. releases = <<>> BY <1>3 DEF IInv, Unreleased
  <2> HIDE DEF m
  <2>7. /\ toServer' \in [Servers -> SUBSET Requests]
        /\ \A s \in Servers : toServer'[s] = toServer[s] \cup {m}
    BY <2>3, <2>4, BroadcastAdds DEF IInv
  <2>8. releases' = <<m>> /\ releases' \in Seq(Requests) BY <2>3, <2>4, <2>6
  <2>9. /\ \A s \in Servers : toServer[s] \subseteq toServer'[s]
        /\ \A s \in Servers : \A d \in toServer'[s] : d \in toServer[s] \/ d.type = "release"
    BY <2>5, <2>7
  <2> QED BY <1>1, <1>3, <2>7, <2>8, <2>9 DEF m
<1> QED BY <1>2, <1>3

LEMMA LeavingKeeps ==
  ASSUME IInv, ExitLoop \/ Destroy \/ Unwind
  PROVE  IInv'
<1>1. /\ pc \in {"running", "leaving"} /\ pc' \in {"leaving", "gone"}
      /\ SendRelease
      /\ UNCHANGED <<toClient, servers, faults>>
  BY DEF ExitLoop, Destroy, Unwind
<1>2. pc \in {"start", "running"} \/ ~is_configured BY <1>1 DEF IInv, Quiet
<1>3. /\ toServer' \in [Servers -> SUBSET Requests]
      /\ \A s \in Servers : \A d \in toServer'[s] : d \in toServer[s] \/ d.type = "release"
      /\ releases' \in Seq(Requests)
      /\ ~is_configured' /\ UNCHANGED <<ip, server>>
  BY <1>1, <1>2, ReleaseShape
<1>4. is_configured' = FALSE BY <1>1 DEF SendRelease
<1> USE DEF servers, faults
<1>5. TypeOK' BY <1>1, <1>3, <1>4 DEF IInv, TypeOK
<1>6. Quiet' BY <1>3 DEF Quiet
<1>7. Unreleased' BY <1>1 DEF Unreleased
<1>8. Traced' BY <1>1, <1>3 DEF IInv, Traced
<1>9. Answered' BY <1>1, <1>3 DEF IInv, Answered
<1>10. Held' BY <1>1 DEF Held
<1> QED BY <1>5, <1>6, <1>7, <1>8, <1>9, <1>10 DEF IInv
-----------------------------------------------------------------------------
(***************************************************************************)
(* What the servers do.                                                    *)
(***************************************************************************)

\* A server that hears a datagram leaves the client alone.
LEMMA HearingShrinks ==
  ASSUME IInv, NEW s \in Servers, NEW m \in toServer[s], ServerHears(s, m)
  PROVE  /\ toServer' \in [Servers -> SUBSET Requests]
         /\ \A t \in Servers : toServer'[t] \subseteq toServer[t]
         /\ lost' \in Nat /\ duplicated' \in Nat
         /\ UNCHANGED client
         /\ m \in Requests
<1>1. PICK rest \in SUBSET toServer[s] :
          /\ Consume(toServer[s], rest, m)
          /\ toServer' = [toServer EXCEPT ![s] = rest]
  BY DEF ServerHears
<1>2. lost' \in Nat /\ duplicated' \in Nat
  BY <1>1, SMT DEF IInv, TypeOK, Consume, faults
<1>3. toServer \in [Servers -> SUBSET Requests] BY DEF IInv, TypeOK
<1>4. /\ toServer' \in [Servers -> SUBSET Requests]
      /\ \A t \in Servers : toServer'[t] \subseteq toServer[t]
  BY <1>1, <1>3
<1> QED BY <1>2, <1>3, <1>4 DEF ServerHears

\* What a server answers, and what becomes of its lease, keep the invariant:
\* before a RELEASE a lease that is committed stays so, an ACK is of a committed
\* lease and answers a REQUEST, an offer is of the address set aside.
LEMMA AnswerKeeps ==
  ASSUME IInv, NEW s \in Servers, NEW m \in toServer[s], ServerHears(s, m),
         NEW l \in {"free", "offered", "committed"}, MarkLease(s, l),
         \A r \in toClient' \ toClient :
             /\ r \in Replies
             /\ r.type = "offer" => r.server = s /\ r.ip = binding[s]
             /\ r.type = "ack" => r.server = s /\ l = "committed" /\ m.type = "request",
         lease[s] = "committed" /\ pc \in {"start", "running"} => l = "committed"
  PROVE  IInv'
<1>1. /\ toServer' \in [Servers -> SUBSET Requests]
      /\ \A t \in Servers : toServer'[t] \subseteq toServer[t]
      /\ lost' \in Nat /\ duplicated' \in Nat
      /\ UNCHANGED <<pc, is_configured, ip, server, releases>>
  BY HearingShrinks DEF client
<1>2. binding' = binding /\ lease' = [lease EXCEPT ![s] = l] BY DEF MarkLease
<1>3. TypeOK
  BY DEF IInv
<1>4. /\ lease' \in [Servers -> {"free", "offered", "committed"}]
      /\ lease'[s] = l
      /\ \A t \in Servers \ {s} : lease'[t] = lease[t]
  BY <1>2, <1>3 DEF TypeOK
<1>5. TypeOK' BY <1>1, <1>2, <1>3, <1>4 DEF TypeOK
<1>6. Quiet' BY <1>1 DEF IInv, Quiet
<1>7. Unreleased' BY <1>1 DEF IInv, Unreleased
<1>8. Traced' BY <1>1, <1>2 DEF IInv, Traced
<1>9. Answered'
  <2>1. m.type = "request" => ip # None BY DEF IInv, Answered
  <2> QED BY <1>1, <2>1 DEF IInv, Answered
<1>10. Held'
  <2>1. SUFFICES ASSUME pc \in {"start", "running"} PROVE Held'
    BY <1>1 DEF Held
  <2>2. \A t \in Servers : lease[t] = "committed" => lease'[t] = "committed"
    BY <1>4, <2>1
  <2>3. \A r \in toClient : r.server \in Servers BY <1>3 DEF TypeOK, Replies
  <2> QED BY <1>1, <1>4, <2>1, <2>2, <2>3 DEF IInv, Held
<1> QED BY <1>5, <1>6, <1>7, <1>8, <1>9, <1>10 DEF IInv

LEMMA ServerKeeps ==
  ASSUME IInv, NEW s \in Servers, NEW m \in toServer[s],
         \/ MakeOffer(s, m) \/ Commit(s, m) \/ Refuse(s, m)
         \/ Withdraw(s, m) \/ Discard(s, m)
  PROVE  IInv'
<1> DEFINE reply(type, a) == [type |-> type, ip |-> a, server |-> s, ours |-> TRUE]
<1>1. ServerHears(s, m)
  BY DEF MakeOffer, Commit, Refuse, Withdraw, Discard
<1>2. m \in Requests /\ binding[s] \in Addresses
      /\ lease[s] \in {"free", "offered", "committed"}
  BY DEF IInv, TypeOK
<1>3. CASE MakeOffer(s, m)
  <2> DEFINE l == IF lease[s] = "free" THEN "offered" ELSE lease[s]
             r == reply("offer", binding[s])
  <2>1. r \in Replies BY <1>2 DEF Replies
  <2>2. MarkLease(s, l) /\ toClient' = toClient \cup {r}
    BY <1>3 DEF MakeOffer, Answer
  <2>3. /\ r.server = s /\ r.ours /\ r.type = "offer" /\ r.ip = binding[s]
        /\ l \in {"free", "offered", "committed"}
        /\ lease[s] = "committed" => l = "committed"
    BY <1>2
  <2> HIDE DEF l, r
  <2>4. r.type # "ack" BY <2>3
  <2> QED BY <1>1, <2>1, <2>2, <2>3, <2>4, AnswerKeeps
<1>4. CASE Commit(s, m)
  <2> DEFINE r == reply("ack", m.ip)
  <2>1. m.type = "request" BY <1>4 DEF Commit
  <2>2. m.ip \in Addresses BY <1>2, <2>1 DEF Requests
  <2>3. r \in Replies BY <2>2 DEF Replies
  <2>4. MarkLease(s, "committed") /\ toClient' = toClient \cup {r}
    BY <1>4 DEF Commit, Answer
  <2>5. r.server = s /\ r.ours /\ r.type = "ack" OBVIOUS
  <2> HIDE DEF r
  <2>6. r.type # "offer" BY <2>5
  <2> QED BY <1>1, <2>1, <2>3, <2>4, <2>5, <2>6, AnswerKeeps
<1>5. CASE Refuse(s, m)
  <2> DEFINE r == reply("nak", m.ip)
  <2>1. m.type = "request" /\ lease[s] # "committed" BY <1>5 DEF Refuse
  <2>2. m.ip \in Addresses BY <1>2, <2>1 DEF Requests
  <2>3. r \in Replies BY <2>2 DEF Replies
  <2>4. MarkLease(s, "free") /\ toClient' = toClient \cup {r}
    BY <1>5 DEF Refuse, Answer
  <2>5. r.server = s /\ r.ours /\ r.type = "nak" OBVIOUS
  <2> HIDE DEF r
  <2>6. r.type # "offer" /\ r.type # "ack" BY <2>5
  <2> QED BY <1>1, <2>1, <2>3, <2>4, <2>5, <2>6, AnswerKeeps
<1>6. CASE Withdraw(s, m)
  <2> DEFINE l == IF lease[s] = "offered" THEN "free" ELSE lease[s]
  <2>1. MarkLease(s, l) /\ toClient' = toClient
    BY <1>6 DEF Withdraw
  <2>2. /\ l \in {"free", "offered", "committed"}
        /\ lease[s] = "committed" => l = "committed"
    BY <1>2
  <2> HIDE DEF l
  <2> QED BY <1>1, <2>1, <2>2, AnswerKeeps
<1>7. CASE Discard(s, m)
  <2> DEFINE l == IF m.server = s THEN "free" ELSE lease[s]
  <2>1. MarkLease(s, l) /\ toClient' = toClient
    BY <1>7 DEF Discard
  <2>2. l \in {"free", "offered", "committed"} BY <1>2
  <2>3. pc \notin {"start", "running"} BY <1>7 DEF Discard, IInv, Unreleased
  <2> HIDE DEF l
  <2> QED BY <1>1, <2>1, <2>2, <2>3, AnswerKeeps
<1> QED BY <1>3, <1>4, <1>5, <1>6, <1>7
-----------------------------------------------------------------------------
(***************************************************************************)
(* The theorems.                                                           *)
(***************************************************************************)

LEMMA NextKeeps ==
  ASSUME IInv, [Next]_vars
  PROVE  IInv'
<1>1. CASE UNCHANGED vars
  BY <1>1 DEF vars, client, servers, faults, IInv, TypeOK, Quiet, Unreleased,
              Traced, Answered, Held
<1>2. CASE SendDiscover BY <1>2, SendDiscoverKeeps
<1>3. CASE Receive BY <1>3, RecvOfferKeeps, RecvAckKeeps, UnheardKeeps DEF Receive
<1>4. CASE ExitLoop \/ Destroy \/ Unwind BY <1>4, LeavingKeeps
<1>5. CASE ServerStep BY <1>5, ServerKeeps DEF ServerStep
<1>6. CASE Lose BY <1>6, LoseKeeps
<1> QED BY <1>1, <1>2, <1>3, <1>4, <1>5, <1>6 DEF Next

LEMMA Invariance == Spec => []IInv
BY InitKeeps, NextKeeps, PTL DEF Spec

\* The client's fields, the datagrams and the leases keep their types; above
\* all, a RELEASE names a real address and a real server (dhcp_client.h:108).
THEOREM TypeCorrect == Spec => []TypeOK
<1>1. IInv => TypeOK BY DEF IInv
<1> QED BY <1>1, Invariance, PTL

\* Whatever is lost, repeated and reordered, a configured client holds a lease,
\* and goes by it if it is the only one (dhcp_client.h:74 and 82).
THEOREM LeaseIsUsed == Spec => []LoneLeaseIsUsed
<1>1. IInv => LoneLeaseIsUsed
  <2> SUFFICES ASSUME IInv, is_configured,
                      \A s \in Servers \ {server} : lease[s] # "committed"
               PROVE  /\ server \in Servers
                      /\ lease[server] = "committed"
                      /\ binding[server] = ip
    BY DEF LoneLeaseIsUsed
  <2>1. server # None /\ ip # None BY DEF IInv, Answered, Traced
  <2>2. server \in Servers BY <2>1 DEF IInv, TypeOK
  <2>3. \E s \in Servers : lease[s] = "committed" BY DEF IInv, Quiet, Held
  <2>4. lease[server] = "committed" BY <2>3
  <2> QED BY <2>1, <2>2, <2>4 DEF IInv, Traced
<1> QED BY <1>1, Invariance, PTL

\* The address is given up when it is released and only then, and there is one
\* RELEASE, of the lease in use (dhcp_client.h:108).
THEOREM LeaseIsReleased == Spec => ReleasesItsLease
<1> DEFINE Gives ==
      /\ is_configured /\ ~is_configured' <=> releases' # releases
      /\ releases' # releases =>
            releases' = <<[type |-> "release", ip |-> ip, server |-> server]>>
<1>1. IInv /\ [Next]_vars => [Gives]_vars
  <2> SUFFICES ASSUME IInv, Next PROVE Gives
    OBVIOUS
  <2>1. CASE SendDiscover \/ Receive \/ ServerStep \/ Lose
    <3>1. UNCHANGED releases
      BY <2>1 DEF SendDiscover, Receive, RecvOffer, RecvAck, RecvNak, Ignore, ServerStep,
                  MakeOffer, Commit, Refuse, Withdraw, Discard, ServerHears, Lose, client
    <3>2. is_configured => is_configured'
      BY <2>1 DEF SendDiscover, Receive, RecvOffer, RecvAck, RecvNak, Hears, Ignore, ServerStep,
                  MakeOffer, Commit, Refuse, Withdraw, Discard, ServerHears, Lose, client,
                  IInv, Quiet
    <3> QED BY <3>1, <3>2
  <2>2. CASE ExitLoop \/ Destroy \/ Unwind
    <3>1. SendRelease /\ pc \in {"running", "leaving"}
      BY <2>2 DEF ExitLoop, Destroy, Unwind
    <3>2. pc \in {"start", "running"} \/ ~is_configured BY <3>1 DEF IInv, Quiet
    <3>3. is_configured => releases = <<>> BY <3>1, <3>2 DEF IInv, Unreleased
    <3>4. /\ ~is_configured'
          /\ is_configured =>
                releases' = <<[type |-> "release", ip |-> ip, server |-> server]>>
          /\ ~is_configured => releases' = releases
      BY <3>1, <3>2, ReleaseShape
    <3>5. is_configured => releases' # releases BY <3>3, <3>4
    <3> QED BY <3>4, <3>5
  <2> QED BY <2>1, <2>2 DEF Next
<1> QED BY <1>1, Invariance, PTL DEF Spec, ReleasesItsLease

-----------------------------------------------------------------------------
\* Induction over numbers, from the well-foundedness of their order.
LEMMA LeastNumber ==
    ASSUME NEW T, T \subseteq Nat, T # {}
    PROVE  \E x \in T : \A y \in T : ~(y < x)
<1> DEFINE R == OpToRel(<, Nat)
<1>1. IsWellFoundedOn(R, Nat)
  BY NatLessThanWellFounded
<1>2. \A x, y \in Nat : y < x => <<y, x>> \in R
  BY Zenon DEF OpToRel
<1> HIDE DEF R
<1>3. PICK x \in T : \A y \in T : <<y, x>> \notin R
  BY <1>1, WFMin
<1>4. \A y \in T : ~(y < x)
  BY <1>2, <1>3
<1> QED
  BY <1>4

LEMMA Induction ==
    ASSUME NEW S, 0 \in S, \A n \in Nat : n \in S => n + 1 \in S
    PROVE  Nat \subseteq S
<1> DEFINE T == Nat \ S
<1> SUFFICES ASSUME T # {} PROVE FALSE
  OBVIOUS
<1>1. PICK x \in T : \A y \in T : ~(y < x)
  BY LeastNumber, Zenon
<1>2. x \in Nat /\ x # 0
  BY <1>1
<1>3. x - 1 \in Nat /\ x - 1 < x /\ x = (x - 1) + 1
  BY <1>2
<1>4. x - 1 \in S
  BY <1>1, <1>3
<1> QED
  BY <1>1, <1>3, <1>4

-----------------------------------------------------------------------------
(***************************************************************************)
(* What the fields are written as.                                         *)
(***************************************************************************)

\* f[n] is what the first n fields are written as.
Grows(f, fields) ==
    /\ f \in [0..Len(fields) -> Seq(Octet)]
    /\ f[0] = <<>>
    /\ \A n \in 1..Len(fields) : f[n] = f[n - 1] \o Written(fields[n])

LEMMA Concatenated ==
    ASSUME NEW s \in Seq(Octet), NEW t \in Seq(Octet)
    PROVE  /\ s \o t \in Seq(Octet)
           /\ Len(s \o t) = Len(s) + Len(t)
           /\ \A k \in 1..Len(s) : (s \o t)[k] = s[k]
           /\ \A k \in 1..Len(t) : (s \o t)[Len(s) + k] = t[k]
<1>1. s \o t \in Seq(Octet)
  OBVIOUS
<1>2. Len(s \o t) = Len(s) + Len(t)
  OBVIOUS
<1>3. \A k \in 1..Len(s) : (s \o t)[k] = s[k]
  OBVIOUS
<1>4. \A k \in 1..Len(t) : (s \o t)[Len(s) + k] = t[k]
  OBVIOUS
<1> QED
  BY <1>1, <1>2, <1>3, <1>4

LEMMA FieldIs ==
    ASSUME NEW f \in Field
    PROVE  f.code # End /\ f.data \in Seq(Octet) /\ Len(f.data) \in Nat
<1>1. f.data \in Seq(Octet) /\ f.code \in Octet \ {Pad, End}
  BY DEF Field
<1>2. Len(f.data) \in Nat
  BY <1>1
<1> QED
  BY <1>1, <1>2

\* The octets w of one field: its code, the length of its data, the data.
Option(w, c, n, d) ==
    /\ w \in Seq(Octet)
    /\ Len(d) \in Nat
    /\ Len(w) = Len(d) + 2
    /\ w[1] = c
    /\ w[2] = n
    /\ \A k \in 1..Len(d) : w[k + 2] = d[k]

LEMMA HeadedShape ==
    ASSUME NEW c \in Octet, NEW n \in Octet, NEW d \in Seq(Octet)
    PROVE  Option(<<c, n>> \o d, c, n, d)
<1> DEFINE h == <<c, n>>
<1>0. h \in Seq(Octet)
  OBVIOUS
<1>1. Len(h) = 2 /\ h[1] = c /\ h[2] = n
  OBVIOUS
<1> HIDE DEF h
<1>2. /\ h \o d \in Seq(Octet) /\ Len(h \o d) = Len(h) + Len(d)
      /\ \A k \in 1..Len(h) : (h \o d)[k] = h[k]
      /\ \A k \in 1..Len(d) : (h \o d)[Len(h) + k] = d[k]
  <2>1. h \o d \in Seq(Octet) /\ Len(h \o d) = Len(h) + Len(d)
    BY <1>0, Concatenated, Zenon
  <2>2. \A k \in 1..Len(h) : (h \o d)[k] = h[k]
    BY <1>0, Concatenated, Zenon
  <2>3. \A k \in 1..Len(d) : (h \o d)[Len(h) + k] = d[k]
    BY <1>0, Concatenated, Zenon
  <2> QED
    BY <2>1, <2>2, <2>3, Zenon
<1>3. 1 \in 1..2 /\ 2 \in 1..2 /\ Len(d) \in Nat /\ 2 + Len(d) = Len(d) + 2
  OBVIOUS
<1>4. \A k \in 1..Len(d) : 2 + k = k + 2
  OBVIOUS
<1>5. \A k \in 1..Len(d) : (h \o d)[k + 2] = d[k]
  BY <1>1, <1>2, <1>4, Zenon
<1> QED
  BY <1>1, <1>2, <1>3, <1>5, Zenon DEF h, Option

LEMMA WrittenShape ==
    ASSUME NEW f \in Field
    PROVE  /\ Option(Written(f), f.code, Len(f.data), f.data)
           /\ Written(f) \in Seq(Octet)
<1>1. f.code \in Octet /\ f.data \in Seq(Octet) /\ Len(f.data) \in Octet
  BY DEF Field
<1>2. Option(Written(f), f.code, Len(f.data), f.data)
  BY <1>1, HeadedShape, Zenon DEF Written
<1> QED
  BY <1>2, Zenon DEF Option

LEMMA GrowsExists ==
    ASSUME NEW fields \in Seq(Field)
    PROVE  \E f : Grows(f, fields)
<1> DEFINE N == Len(fields)
           Upto(m, f) == /\ f \in [0..m -> Seq(Octet)]
                         /\ f[0] = <<>>
                         /\ \A n \in 1..m : f[n] = f[n - 1] \o Written(fields[n])
           S == {m \in Nat : m <= N => \E f : Upto(m, f)}
<1>1. 0 \in S
  <2>1. Upto(0, [n \in 0..0 |-> <<>>])
    OBVIOUS
  <2> QED
    BY <2>1
<1> HIDE DEF Upto
<1>2. ASSUME NEW m \in Nat, m \in S
      PROVE  m + 1 \in S
  <2> SUFFICES ASSUME m + 1 <= N
               PROVE  \E f : Upto(m + 1, f)
    OBVIOUS
  <2>1. N \in Nat /\ m <= N /\ m + 1 \in 1..N
    OBVIOUS
  <2>2. PICK f : Upto(m, f)
    BY <1>2, <2>1
  <2> DEFINE w == Written(fields[m + 1])
             g == [n \in 0..(m + 1) |-> IF n <= m THEN f[n] ELSE f[m] \o w]
  <2>3. w \in Seq(Octet)
    BY <2>1, WrittenShape
  <2> HIDE DEF w
  <2>4. f[m] \o w \in Seq(Octet)
    BY <2>2, <2>3 DEF Upto
  <2>5. g \in [0..(m + 1) -> Seq(Octet)] /\ g[0] = <<>>
    BY <2>2, <2>4 DEF Upto
  <2>6. \A n \in 1..(m + 1) : g[n] = g[n - 1] \o Written(fields[n])
    <3>1. \A n \in 1..m : g[n] = f[n] /\ g[n - 1] = f[n - 1]
      OBVIOUS
    <3>2. g[m + 1] = g[m] \o w
      <4>1. g[m] = f[m]
        OBVIOUS
      <4>2. g[m + 1] = f[m] \o w
        OBVIOUS
      <4> HIDE DEF g
      <4> QED
        BY <4>1, <4>2, Zenon
    <3>3. \A n \in 1..(m + 1) : n \in 1..m \/ n = m + 1
      OBVIOUS
    <3>4. (m + 1) - 1 = m
      OBVIOUS
    <3> HIDE DEF g
    <3>5. \A n \in 1..m : g[n] = g[n - 1] \o Written(fields[n])
      BY <2>2, <3>1, Zenon DEF Upto
    <3> QED
      BY <3>2, <3>3, <3>4, <3>5, Zenon DEF w
  <2>7. Upto(m + 1, g)
    BY <2>5, <2>6, Zenon DEF Upto
  <2> HIDE DEF g
  <2> QED
    BY <2>7
<1>3. N \in S
  <2> HIDE DEF S
  <2>1. N \in Nat
    OBVIOUS
  <2> QED
    BY <1>1, <1>2, <2>1, Induction
<1>4. PICK f : Upto(N, f)
  BY <1>3
<1> QED
  BY <1>4, Zenon DEF Grows, Upto

LEMMA EncodedIs ==
    ASSUME NEW fields \in Seq(Field), NEW f, Grows(f, fields)
    PROVE  Encoded(fields) = f[Len(fields)]
<1> DEFINE N == Len(fields)
           s == [n \in 1..N |-> Written(fields[n])]
           Flat(g) == [n \in 1..N |-> IF n = 1 THEN s[n] ELSE g[n - 1] \o s[n]]
           flat == CHOOSE g : g = Flat(g)
<1>1. N \in Nat /\ Len(s) = N
  OBVIOUS
<1>2. CASE N = 0
  <2>1. s = <<>>
    BY <1>2
  <2>2. Encoded(fields) = s
    BY <1>1, <1>2, Zenon DEF Encoded, FlattenSeq
  <2> QED
    BY <1>2, <2>1, <2>2 DEF Grows
<1>3. CASE N # 0
  <2>1. \A n \in 1..N : s[n] = Written(fields[n]) /\ s[n] \in Seq(Octet)
    BY WrittenShape
  <2>2. \A n \in 1..N : f[n] = IF n = 1 THEN s[n] ELSE f[n - 1] \o s[n]
    <3> HIDE DEF s
    <3>1. f[1] = s[1]
      <4>1. 1 \in 1..N /\ 1 - 1 = 0
        BY <1>1, <1>3
      <4>2. f[1] = <<>> \o s[1] /\ s[1] \in Seq(Octet)
        BY <2>1, <4>1 DEF Grows
      <4> QED
        BY <4>2
    <3> QED
      BY <2>1, <3>1 DEF Grows
  <2>3. \E g : g = Flat(g)
    <3> DEFINE g == [n \in 1..N |-> f[n]]
    <3>1. \A n \in 1..N : n = 1 \/ n - 1 \in 1..N
      BY <1>1
    <3>2. \A n \in 1..N : g[n] = Flat(g)[n]
      <4> HIDE DEF s
      <4> QED
        BY <2>2, <3>1
    <3>3. g = Flat(g)
      BY <3>2
    <3> QED
      BY <3>3, Zenon
  <2>4. flat = Flat(flat)
    BY <2>3, Zenon
  <2>5. Encoded(fields) = flat[N]
    BY <1>1, <1>3, Zenon DEF Encoded, FlattenSeq
  <2> HIDE DEF flat
  <2>6. \A n \in 1..N : flat[n] = IF n = 1 THEN s[n] ELSE flat[n - 1] \o s[n]
    BY <2>4, Zenon
  <2> HIDE DEF s, Flat
  <2> DEFINE S == {m \in Nat : m \in 1..N => flat[m] = f[m]}
  <2>7. 0 \in S
    OBVIOUS
  <2>8. ASSUME NEW m \in Nat, m \in S
        PROVE  m + 1 \in S
    <3> SUFFICES ASSUME m + 1 \in 1..N
                 PROVE  flat[m + 1] = f[m + 1]
      OBVIOUS
    <3>1. CASE m = 0
      BY <2>2, <2>6, <3>1
    <3>2. CASE m # 0
      <4>1. m \in 1..N /\ m + 1 # 1 /\ (m + 1) - 1 = m
        BY <1>1, <3>2
      <4>2. flat[m] = f[m]
        BY <2>8, <4>1
      <4>3. flat[m + 1] = flat[m] \o s[m + 1]
        BY <2>6, <4>1
      <4>4. f[m + 1] = f[m] \o s[m + 1]
        BY <2>2, <4>1
      <4> QED
        BY <4>2, <4>3, <4>4, Zenon
    <3> QED
      BY <3>1, <3>2
  <2>9. N \in S
    <3> HIDE DEF S
    <3> QED
      BY <1>1, <2>7, <2>8, Induction
  <2> QED
    BY <1>1, <1>3, <2>5, <2>9
<1> QED
  BY <1>2, <1>3

LEMMA FrontIs ==
    ASSUME NEW fields \in Seq(Field), NEW f, Grows(f, fields), fields # <<>>
    PROVE  Encoded(Front(fields)) = f[Len(fields) - 1]
<1> DEFINE N == Len(fields)
           g == [n \in 0..(N - 1) |-> f[n]]
           front == Front(fields)
<1>1. N \in Nat /\ N - 1 \in Nat /\ N - 1 \in 0..(N - 1)
  OBVIOUS
<1>2. /\ front \in Seq(Field) /\ Len(front) = N - 1
      /\ \A n \in 1..(N - 1) : front[n] = fields[n]
  <2>1. front = [n \in 1..(N - 1) |-> fields[n]]
    BY <1>1 DEF Front
  <2>2. \A n \in 1..(N - 1) : fields[n] \in Field
    BY <1>1
  <2> HIDE DEF front
  <2> QED
    BY <1>1, <2>1, <2>2
<1>3. \A n \in 0..(N - 1) : n \in 0..N
  BY <1>1
<1>4. \A n \in 1..(N - 1) : n \in 1..N /\ n \in 0..(N - 1) /\ n - 1 \in 0..(N - 1)
  BY <1>1
<1>5. g \in [0..(N - 1) -> Seq(Octet)] /\ g[0] = <<>> /\ g[N - 1] = f[N - 1]
  BY <1>1, <1>3 DEF Grows
<1>6. \A n \in 1..(N - 1) : g[n] = f[n] /\ g[n - 1] = f[n - 1]
  BY <1>4
<1> HIDE DEF g, front
<1>7. ASSUME NEW n \in 1..(N - 1)
      PROVE  g[n] = g[n - 1] \o Written(front[n])
  <2>1. f[n] = f[n - 1] \o Written(fields[n])
    BY <1>4, Zenon DEF Grows
  <2> QED
    BY <1>2, <1>6, <2>1, Zenon
<1>8. Grows(g, front)
  BY <1>2, <1>5, <1>7, Zenon DEF Grows
<1>9. Encoded(front) = g[N - 1]
  BY <1>2, <1>8, EncodedIs, Zenon
<1> QED
  BY <1>5, <1>9, Zenon DEF front
-----------------------------------------------------------------------------
(***************************************************************************)
(* Where the fields lie in memory.                                         *)
(***************************************************************************)

LEMMA Rising ==
    ASSUME NEW N \in Nat, NEW P \in [0..N -> Nat],
           \A n \in 1..N : P[n - 1] < P[n]
    PROVE  \A m, n \in 0..N : n < m => P[n] < P[m]
<1> DEFINE S == {m \in Nat : m <= N => \A n \in 0..N : n < m => P[n] < P[m]}
<1>1. 0 \in S
  OBVIOUS
<1>2. ASSUME NEW m \in Nat, m \in S
      PROVE  m + 1 \in S
  <2> SUFFICES ASSUME m + 1 <= N, NEW n \in 0..N, n < m + 1
               PROVE  P[n] < P[m + 1]
    OBVIOUS
  <2>1. m \in 0..N /\ m + 1 \in 0..N /\ m + 1 \in 1..N /\ (m + 1) - 1 = m
    OBVIOUS
  <2>2. P[m] < P[m + 1]
    BY <2>1
  <2>3. P[n] \in Nat /\ P[m] \in Nat /\ P[m + 1] \in Nat
    BY <2>1
  <2>4. n = m \/ P[n] < P[m]
    BY <1>2, <2>1
  <2> QED
    BY <2>2, <2>3, <2>4
<1>3. Nat \subseteq S
  <2> HIDE DEF S
  <2> QED
    BY <1>1, <1>2, Induction
<1> QED
  BY <1>3

\* The memory M holds the fields and End; P[n - 1] is where the n-th begins.
Laid(M, P, fields) ==
    /\ M \in [Nat -> Octet]
    /\ P \in [0..Len(fields) -> Nat]
    /\ P[0] = 0
    /\ \A n \in 1..Len(fields) :
          /\ P[n] = P[n - 1] + (Len(fields[n].data) + 2)
          /\ M[P[n - 1]] = fields[n].code
          /\ M[P[n - 1] + 1] = Len(fields[n].data)
          /\ \A k \in 1..Len(fields[n].data) : M[P[n - 1] + (k + 1)] = fields[n].data[k]
    /\ M[P[Len(fields)]] = End

\* The lengths of f are positions as Laid wants them, and each field stays
\* where it is when others are written behind it.
Placed(P, f, fields) ==
    /\ P \in [0..Len(fields) -> Nat] /\ P[0] = 0
    /\ \A n \in 1..Len(fields) : P[n] = P[n - 1] + (Len(fields[n].data) + 2)
    /\ \A m \in 0..Len(fields) : \A n \in 1..m :
          \A k \in 1..(Len(fields[n].data) + 2) :
             f[m][P[n - 1] + k] = Written(fields[n])[k]

LEMMA Positions ==
    ASSUME NEW fields \in Seq(Field), NEW f, Grows(f, fields),
           NEW P, P = [n \in 0..Len(fields) |-> Len(f[n])]
    PROVE  Placed(P, f, fields)
<1> DEFINE N == Len(fields)
           L(n) == Len(fields[n].data) + 2
<1>1. N \in Nat
  OBVIOUS
<1>2. \A n \in 0..N : f[n] \in Seq(Octet) /\ P[n] = Len(f[n])
  BY DEF Grows
<1>3. P \in [0..N -> Nat] /\ P[0] = 0
  BY <1>1, <1>2 DEF Grows
<1>4. \A n \in 1..N : fields[n] \in Field
  OBVIOUS
<1>5. \A n \in 1..N : /\ Written(fields[n]) \in Seq(Octet)
                      /\ Len(Written(fields[n])) = L(n)
                      /\ L(n) \in Nat /\ 0 < L(n)
  <2>1. ASSUME NEW n \in 1..N
        PROVE  Option(Written(fields[n]), fields[n].code, Len(fields[n].data), fields[n].data)
    BY <1>4, WrittenShape, Zenon
  <2> QED
    BY <2>1 DEF Option
<1> HIDE DEF L
<1>6. \A n \in 1..N : n \in 0..N /\ n - 1 \in 0..N
  BY <1>1
<1>7. \A n \in 1..N : f[n] = f[n - 1] \o Written(fields[n])
  BY DEF Grows
<1>8. ASSUME NEW n \in 1..N
      PROVE  P[n] = P[n - 1] + L(n)
  <2>1. f[n - 1] \in Seq(Octet) /\ Written(fields[n]) \in Seq(Octet)
    BY <1>2, <1>5, <1>6
  <2>2. Len(f[n]) = Len(f[n - 1]) + Len(Written(fields[n]))
    BY <1>7, <2>1, Concatenated, Zenon
  <2> QED
    BY <1>2, <1>5, <1>6, <2>2, Zenon
<1>9. ASSUME NEW n \in 1..N
      PROVE  P[n - 1] < P[n]
  <2>1. P[n - 1] \in Nat /\ P[n] = P[n - 1] + L(n) /\ L(n) \in Nat /\ 0 < L(n)
    BY <1>3, <1>5, <1>6, <1>8
  <2> DEFINE x == P[n - 1]
             y == P[n]
             l == L(n)
  <2>2. x \in Nat /\ y = x + l /\ l \in Nat /\ 0 < l
    BY <2>1, Zenon
  <2> HIDE DEF x, y, l
  <2>3. x < y
    BY <2>2
  <2> QED
    BY <2>3, Zenon DEF x, y
<1>10. \A m, n \in 0..N : n < m => P[n] < P[m]
  BY <1>1, <1>3, <1>9, Rising, Zenon
<1> DEFINE Stays(m) == \A n \in 1..m : \A k \in 1..L(n) :
                            f[m][P[n - 1] + k] = Written(fields[n])[k]
           S == {m \in Nat : m \in 0..N => Stays(m)}
<1>11. 0 \in S
  OBVIOUS
<1> HIDE DEF Stays
<1>12. ASSUME NEW m \in Nat, m \in S
       PROVE  m + 1 \in S
  <2> SUFFICES ASSUME m + 1 \in 0..N
               PROVE  Stays(m + 1)
    OBVIOUS
  <2> SUFFICES ASSUME NEW n \in 1..(m + 1), NEW k \in 1..L(n)
               PROVE  f[m + 1][P[n - 1] + k] = Written(fields[n])[k]
    BY Zenon DEF Stays
  <2>1. m \in 0..N /\ m + 1 \in 1..N /\ (m + 1) - 1 = m
    BY <1>1
  <2>2. f[m] \in Seq(Octet) /\ Written(fields[m + 1]) \in Seq(Octet) /\ P[m] = Len(f[m])
    BY <1>2, <1>5, <2>1
  <2>3. f[m + 1] = f[m] \o Written(fields[m + 1])
    BY <1>7, <2>1
  <2>4. CASE n = m + 1
    <3>1. k \in 1..Len(Written(fields[m + 1])) /\ P[n - 1] = Len(f[m])
      BY <1>5, <2>1, <2>2, <2>4
    <3>2. (f[m] \o Written(fields[m + 1]))[Len(f[m]) + k] = Written(fields[m + 1])[k]
      BY <2>2, <3>1, Concatenated, Zenon
    <3> QED
      BY <2>3, <2>4, <3>1, <3>2, Zenon
  <2>5. CASE n # m + 1
    <3>1. n \in 1..m /\ n \in 1..N /\ n \in 0..N /\ n - 1 \in 0..N
      BY <2>1, <2>5
    <3>2. f[m][P[n - 1] + k] = Written(fields[n])[k]
      <4>1. Stays(m)
        BY <1>12, <2>1
      <4> QED
        BY <3>1, <4>1, Zenon DEF Stays
    <3>3. P[n] = P[n - 1] + L(n) /\ P[n] <= P[m]
      <4>1. n = m \/ n < m
        BY <3>1
      <4>2. P[n] \in Nat /\ P[m] \in Nat
        BY <1>3, <2>1, <3>1
      <4>3. n < m => P[n] < P[m]
        BY <1>10, <2>1, <3>1, Zenon
      <4>4. P[n] <= P[m]
        BY <4>1, <4>2, <4>3
      <4> QED
        BY <1>8, <3>1, <4>4, Zenon
    <3>4. P[n - 1] + k \in 1..Len(f[m])
      <4> DEFINE x == P[n - 1]
                 y == P[n]
                 z == P[m]
                 l == L(n)
      <4>1. x \in Nat /\ y = x + l /\ y <= z /\ l \in Nat /\ k \in 1..l
        BY <1>3, <1>5, <3>1, <3>3, Zenon
      <4>2. z \in Nat /\ z = Len(f[m])
        BY <1>3, <2>1, <2>2, Zenon
      <4> HIDE DEF x, y, z, l
      <4>3. x + k \in 1..z
        BY <4>1, <4>2
      <4> QED
        BY <4>2, <4>3, Zenon DEF x
    <3>5. (f[m] \o Written(fields[m + 1]))[P[n - 1] + k] = f[m][P[n - 1] + k]
      BY <2>2, <3>4, Concatenated, Zenon
    <3> QED
      BY <2>3, <3>2, <3>5, Zenon
  <2> QED
    BY <2>4, <2>5
<1>13. Nat \subseteq S
  <2> HIDE DEF S
  <2> QED
    BY <1>11, <1>12, Induction
<1>14. \A m \in 0..N : \A n \in 1..m : \A k \in 1..L(n) :
           f[m][P[n - 1] + k] = Written(fields[n])[k]
  <2>1. \A m \in 0..N : Stays(m)
    BY <1>1, <1>13
  <2> QED
    BY <2>1, Zenon DEF Stays
<1> QED
  BY <1>3, <1>8, <1>14, Zenon DEF L, Placed

LEMMA MemoryLaid ==
    ASSUME NEW fields \in Seq(Field), NEW f, Grows(f, fields), NEW beyond \in Octet
    PROVE  Laid(Memory(f[Len(fields)] \o <<End>>, beyond),
                [n \in 0..Len(fields) |-> Len(f[n])], fields)
<1> DEFINE N == Len(fields)
           L(n) == Len(fields[n].data) + 2
           P == [n \in 0..N |-> Len(f[n])]
           e == f[N]
           tail == <<End>>
           o == e \o tail
           M == Memory(o, beyond)
<1>1. N \in Nat /\ N \in 0..N /\ End \in Octet
  BY DEF End, Octet
<1>2. e \in Seq(Octet) /\ P[N] = Len(e) /\ P[N] \in Nat
  BY <1>1 DEF Grows
<1>3. tail \in Seq(Octet) /\ Len(tail) = 1 /\ tail[1] = End
  BY <1>1
<1> HIDE DEF e, tail, P
<1>4. o \in Seq(Octet) /\ Len(o) = P[N] + 1
  <2>1. o \in Seq(Octet)
    BY <1>2, <1>3, Concatenated, Zenon
  <2>2. Len(o) = Len(e) + Len(tail)
    BY <1>2, <1>3, Concatenated, Zenon
  <2> QED
    BY <1>2, <1>3, <2>1, <2>2, Zenon
<1>5. \A j \in 1..P[N] : o[j] = e[j]
  <2>1. \A j \in 1..Len(e) : o[j] = e[j]
    BY <1>2, <1>3, Concatenated, Zenon
  <2> QED
    BY <1>2, <2>1, Zenon
<1>6. o[P[N] + 1] = End
  <2>1. 1 \in 1..Len(tail)
    BY <1>3
  <2>2. o[Len(e) + 1] = tail[1]
    BY <1>2, <1>3, <2>1, Concatenated, Zenon
  <2> QED
    BY <1>2, <1>3, <2>2, Zenon
<1> HIDE DEF o
<1>7. M \in [Nat -> Octet]
  BY <1>2, <1>4 DEF Memory
<1>8. \A i \in Nat : i < P[N] + 1 => M[i] = o[i + 1]
  BY <1>4 DEF Memory
<1>9. M[P[N]] = End
  BY <1>2, <1>6, <1>8
<1>10. /\ P \in [0..N -> Nat] /\ P[0] = 0
       /\ \A n \in 1..N : P[n] = P[n - 1] + L(n)
       /\ \A m \in 0..N : \A n \in 1..m : \A k \in 1..L(n) :
             f[m][P[n - 1] + k] = Written(fields[n])[k]
  <2>1. Placed(P, f, fields)
    BY Positions, Zenon DEF P
  <2> QED
    BY <2>1, Zenon DEF Placed
<1>11. \A n \in 1..N : Option(Written(fields[n]), fields[n].code, Len(fields[n].data), fields[n].data)
  <2>1. \A n \in 1..N : fields[n] \in Field
    OBVIOUS
  <2> QED
    BY <2>1, WrittenShape, Zenon
<1> HIDE DEF M
<1>12. ASSUME NEW n \in 1..N
       PROVE  /\ P[n] = P[n - 1] + (Len(fields[n].data) + 2)
              /\ M[P[n - 1]] = fields[n].code
              /\ M[P[n - 1] + 1] = Len(fields[n].data)
              /\ \A k \in 1..Len(fields[n].data) : M[P[n - 1] + (k + 1)] = fields[n].data[k]
  <2> DEFINE x == P[n - 1]
             l == Len(fields[n].data)
             w == Written(fields[n])
  <2>1. /\ n \in 0..N /\ n - 1 \in 0..N
        /\ x \in Nat /\ l \in Nat /\ P[n] = x + (l + 2) /\ P[n] \in Nat
    <3>1. n \in 0..N /\ n - 1 \in 0..N
      BY <1>1
    <3>2. l \in Nat
      BY <1>11, Zenon DEF Option
    <3> QED
      BY <1>10, <3>1, <3>2, Zenon
  <2>2. P[n] <= P[N]
    <3>1. \A k \in 1..N : P[k - 1] < P[k]
      <4> SUFFICES ASSUME NEW k \in 1..N
                   PROVE  P[k - 1] < P[k]
        OBVIOUS
      <4>1. k - 1 \in 0..N /\ L(k) \in Nat /\ 0 < L(k) /\ P[k] = P[k - 1] + L(k)
        BY <1>10, <1>11 DEF Option
      <4>2. P[k - 1] \in Nat
        BY <1>10, <4>1
      <4> HIDE DEF L
      <4> QED
        BY <4>1, <4>2
    <3>2. n < N => P[n] < P[N]
      BY <1>1, <1>10, <2>1, <3>1, Rising, Zenon
    <3>3. n = N \/ n < N
      OBVIOUS
    <3> QED
      BY <1>2, <2>1, <3>2, <3>3
  <2>3. \A k \in 1..(l + 2) : e[x + k] = w[k]
    BY <1>1, <1>10, Zenon DEF e
  <2> HIDE DEF x, l, w
  <2>4. ASSUME NEW k \in Nat, k < l + 2
        PROVE  M[x + k] = w[k + 1]
    <3>1. /\ x + k \in Nat /\ x + k < P[N] + 1 /\ (x + k) + 1 \in 1..P[N]
          /\ (x + k) + 1 = x + (k + 1) /\ k + 1 \in 1..(l + 2)
      <4> DEFINE y == P[n]
                 z == P[N]
      <4>1. y = x + (l + 2) /\ y <= z /\ z \in Nat /\ x \in Nat /\ l \in Nat
        BY <1>2, <2>1, <2>2, Zenon
      <4> HIDE DEF y, z
      <4>2. /\ x + k \in Nat /\ x + k < z + 1 /\ (x + k) + 1 \in 1..z
            /\ (x + k) + 1 = x + (k + 1) /\ k + 1 \in 1..(l + 2)
        BY <2>4, <4>1
      <4> QED
        BY <4>2, Zenon DEF z
    <3> QED
      BY <1>5, <1>8, <2>3, <3>1, Zenon
  <2>5. Option(w, fields[n].code, l, fields[n].data)
    BY <1>11, Zenon DEF l, w
  <2>6. M[x] = fields[n].code
    <3>1. 0 \in Nat /\ 0 < l + 2 /\ x + 0 = x /\ 0 + 1 = 1
      BY <2>1
    <3>2. M[x + 0] = w[0 + 1]
      BY <2>4, <3>1, Zenon
    <3> QED
      BY <2>5, <3>1, <3>2 DEF Option
  <2>7. M[x + 1] = l
    <3>1. 1 \in Nat /\ 1 < l + 2 /\ 1 + 1 = 2
      BY <2>1
    <3>2. M[x + 1] = w[1 + 1]
      BY <2>4, <3>1, Zenon
    <3> QED
      BY <2>5, <3>1, <3>2 DEF Option
  <2>8. ASSUME NEW k \in 1..l
        PROVE  M[x + (k + 1)] = fields[n].data[k]
    <3>1. k + 1 \in Nat /\ k + 1 < l + 2 /\ (k + 1) + 1 = k + 2
      BY <2>1
    <3>2. M[x + (k + 1)] = w[k + 2]
      BY <2>4, <3>1, Zenon
    <3>3. l = Len(fields[n].data)
      BY DEF l
    <3> QED
      BY <2>5, <3>2, <3>3, Zenon DEF Option
  <2> QED
    BY <2>1, <2>6, <2>7, <2>8, Zenon DEF x, l
<1>13. Laid(M, P, fields)
  BY <1>7, <1>9, <1>10, <1>12, Zenon DEF Laid
<1> QED
  BY <1>13, Zenon DEF M, P, o, e, tail
-----------------------------------------------------------------------------
(***************************************************************************)
(* Where the loop stops.                                                   *)
(***************************************************************************)

LEMMA FollowingIs ==
    ASSUME NEW M, NEW i, NEW at, at = IF M[i] = End THEN 9999 ELSE i
    PROVE  Following(M, i) = at + M[at + 1] + 2
  BY DEF Following

\* Every step of the loop goes forwards.
LEMMA Ahead ==
    ASSUME NEW M \in [Nat -> Octet], NEW i \in Nat, i < Limit
    PROVE  Following(M, i) \in Nat /\ i < Following(M, i)
<1> DEFINE at == IF M[i] = End THEN 9999 ELSE i
           a == M[at + 1]
<1>1. at \in Nat /\ i <= at
  BY OptionsAssumption
<1> HIDE DEF at
<1>2. a \in Nat
  BY <1>1 DEF Octet
<1>3. Following(M, i) = at + a + 2
  BY DEF Following, at
<1> HIDE DEF a
<1> QED
  BY <1>1, <1>2, <1>3

\* From each position on, those that the loop stops at.
Stops(M, g) == [i \in Nat |-> IF i < Limit THEN {i} \cup g[Following(M, i)] ELSE {}]

LEMMA StopsExist ==
    ASSUME NEW M \in [Nat -> Octet]
    PROVE  \E g : g = Stops(M, g)
<1> DEFINE Behind(m, g) == /\ g \in [Nat -> SUBSET Nat]
                           /\ \A i \in Nat : i + m >= Limit => g[i] = Stops(M, g)[i]
           S == {m \in Nat : m <= Limit => \E g : Behind(m, g)}
<1>1. Limit \in Nat /\ 0 < Limit
  BY OptionsAssumption
<1>2. \A g, i : i \in Nat =>
          Stops(M, g)[i] = IF i < Limit THEN {i} \cup g[Following(M, i)] ELSE {}
  BY Zenon DEF Stops
<1>3. 0 \in S
  <2> DEFINE g == [i \in Nat |-> {}]
  <2>1. g \in [Nat -> SUBSET Nat] /\ \A i \in Nat : g[i] = {}
    OBVIOUS
  <2> HIDE DEF g
  <2>2. ASSUME NEW i \in Nat, i + 0 >= Limit
        PROVE  g[i] = Stops(M, g)[i]
    <3>1. ~(i < Limit)
      BY <1>1, <2>2
    <3> QED
      BY <1>2, <2>1, <3>1, Zenon
  <2>3. Behind(0, g)
    BY <2>1, <2>2, Zenon
  <2> HIDE DEF Behind
  <2> QED
    BY <2>3
<1>4. ASSUME NEW m \in Nat, m \in S
      PROVE  m + 1 \in S
  <2> HIDE DEF Behind
  <2> SUFFICES ASSUME m + 1 <= Limit
               PROVE  \E g : Behind(m + 1, g)
    OBVIOUS
  <2>1. PICK g : Behind(m, g)
    BY <1>1, <1>4
  <2> DEFINE j == Limit - (m + 1)
             h == [g EXCEPT ![j] = {j} \cup g[Following(M, j)]]
  <2>2. j \in Nat /\ j < Limit
    BY <1>1
  <2>3. Following(M, j) \in Nat /\ j < Following(M, j)
    BY <2>2, Ahead, Zenon
  <2>4. g \in [Nat -> SUBSET Nat]
    BY <2>1, Zenon DEF Behind
  <2>5. \A i \in Nat : i + (m + 1) >= Limit => i = j \/ (i + m >= Limit /\ j < i)
    BY <1>1
  <2> HIDE DEF j
  <2>6. h \in [Nat -> SUBSET Nat]
    BY <2>2, <2>3, <2>4
  <2>7. h[j] = {j} \cup g[Following(M, j)]
    BY <2>2, <2>4
  <2>8. \A i \in Nat : i # j => h[i] = g[i]
    BY <2>4
  <2> HIDE DEF h
  <2>9. ASSUME NEW i \in Nat, i + (m + 1) >= Limit
        PROVE  h[i] = Stops(M, h)[i]
    <3>1. CASE i = j
      <4>1. Following(M, j) # j
        BY <2>2, <2>3
      <4>2. h[Following(M, j)] = g[Following(M, j)]
        BY <2>3, <2>8, <4>1, Zenon
      <4> QED
        BY <1>2, <2>2, <2>7, <3>1, <4>2, Zenon
    <3>2. CASE i + m >= Limit /\ j < i
      <4>1. i # j
        BY <2>2, <3>2
      <4>2. h[i] = g[i] /\ g[i] = Stops(M, g)[i]
        BY <2>1, <2>8, <3>2, <4>1, Zenon DEF Behind
      <4>3. i < Limit => h[Following(M, i)] = g[Following(M, i)]
        <5> SUFFICES ASSUME i < Limit
                     PROVE  h[Following(M, i)] = g[Following(M, i)]
          OBVIOUS
        <5>1. Following(M, i) \in Nat /\ i < Following(M, i)
          BY Ahead, Zenon
        <5>2. Following(M, i) # j
          BY <2>2, <3>2, <5>1
        <5> QED
          BY <2>8, <5>1, <5>2, Zenon
      <4>4. Stops(M, h)[i] = Stops(M, g)[i]
        <5>1. CASE i < Limit
          <6>1. Stops(M, h)[i] = {i} \cup h[Following(M, i)]
            BY <1>2, <5>1, Zenon
          <6>2. Stops(M, g)[i] = {i} \cup g[Following(M, i)]
            BY <1>2, <5>1, Zenon
          <6> QED
            BY <4>3, <5>1, <6>1, <6>2, Zenon
        <5>2. CASE ~(i < Limit)
          BY <1>2, <5>2, Zenon
        <5> QED
          BY <5>1, <5>2, Zenon
      <4> QED
        BY <4>2, <4>4, Zenon
    <3> QED
      BY <2>5, <2>9, <3>1, <3>2, Zenon
  <2>10. Behind(m + 1, h)
    BY <2>6, <2>9, Zenon DEF Behind
  <2> QED
    BY <2>10, Zenon
<1>5. Limit \in S
  <2> HIDE DEF S
  <2> QED
    BY <1>1, <1>3, <1>4, Induction
<1>6. PICK g : Behind(Limit, g)
  <2> HIDE DEF Behind
  <2> QED
    BY <1>1, <1>5
<1>7. \A i \in Nat : i + Limit >= Limit
  BY <1>1
<1>8. \A i \in Nat : g[i] = Stops(M, g)[i]
  BY <1>6, <1>7, Zenon
<1>9. g = Stops(M, g)
  BY <1>6, <1>8 DEF Stops
<1> QED
  BY <1>9, Zenon

LEMMA VisitedIs ==
    ASSUME NEW M \in [Nat -> Octet]
    PROVE  \E g : g = Stops(M, g) /\ Visited(M) = g[0]
<1> DEFINE from == CHOOSE g : g = Stops(M, g)
<1>1. from = Stops(M, from)
  BY StopsExist, Zenon
<1>2. Visited(M) = from[0]
  BY Zenon DEF Visited, Stops
<1> QED
  BY <1>1, <1>2, Zenon

LEMMA VisitedAre ==
    ASSUME NEW fields \in Seq(Field), NEW M, NEW P, Laid(M, P, fields),
           fields # <<>> => P[Len(fields) - 1] < Limit
    PROVE  /\ \A n \in 1..Len(fields) : P[n - 1] \in Visited(M)
           /\ \A i \in Visited(M) :
                 \/ \E n \in 1..Len(fields) : i = P[n - 1]
                 \/ i = P[Len(fields)]
<1> DEFINE N == Len(fields)
<1>1. N \in Nat /\ N \in 0..N /\ (N # 0 => P[N - 1] < Limit)
  OBVIOUS
<1>2. M \in [Nat -> Octet] /\ P \in [0..N -> Nat] /\ P[0] = 0 /\ M[P[N]] = End
  BY DEF Laid
<1>3. PICK g : g = Stops(M, g) /\ Visited(M) = g[0]
  BY <1>2, VisitedIs, Zenon
<1>4. \A i \in Nat : g[i] = IF i < Limit THEN {i} \cup g[Following(M, i)] ELSE {}
  <2>1. \A i \in Nat : Stops(M, g)[i] = IF i < Limit THEN {i} \cup g[Following(M, i)] ELSE {}
    BY Zenon DEF Stops
  <2> QED
    BY <1>3, <2>1, Zenon
<1>5. ASSUME NEW n \in 1..N
      PROVE  /\ n - 1 \in 0..N /\ n \in 0..N /\ P[n - 1] \in Nat /\ P[n] \in Nat
             /\ P[n - 1] < P[n]
             /\ Following(M, P[n - 1]) = P[n]
  <2> DEFINE x == P[n - 1]
             y == P[n]
             l == Len(fields[n].data)
  <2>1. n - 1 \in 0..N /\ n \in 0..N
    BY <1>1
  <2>2. fields[n] \in Field
    OBVIOUS
  <2>3. l \in Nat /\ fields[n].code # End
    BY <2>2, FieldIs, Zenon
  <2>4. x \in Nat /\ y \in Nat
    BY <1>2, <2>1
  <2>5. y = x + (l + 2) /\ M[x] = fields[n].code /\ M[x + 1] = l
    BY Zenon DEF Laid
  <2> HIDE DEF x, y, l
  <2>6. Following(M, x) = x + l + 2
    <3>1. x = IF M[x] = End THEN 9999 ELSE x
      BY <2>3, <2>5
    <3>2. Following(M, x) = x + M[x + 1] + 2
      BY <3>1, FollowingIs
    <3> QED
      BY <2>5, <3>2, Zenon
  <2>7. x + l + 2 = y /\ x < y
    BY <2>3, <2>4, <2>5
  <2> QED
    BY <2>1, <2>4, <2>6, <2>7, Zenon DEF x, y
<1>6. \A m, n \in 0..N : n < m => P[n] < P[m]
  BY <1>1, <1>2, <1>5, Rising, Zenon
<1>7. ASSUME NEW n \in 1..N
      PROVE  P[n - 1] < Limit
  <2>1. n - 1 \in 0..N /\ N - 1 \in 0..N /\ (n = N \/ n - 1 < N - 1) /\ N # 0
    BY <1>1
  <2>2. P[n - 1] \in Nat /\ P[N - 1] \in Nat /\ Limit \in Nat
    <3>1. Limit \in Nat
      BY OptionsAssumption
    <3> QED
      BY <1>2, <2>1, <3>1, Zenon
  <2>3. n - 1 < N - 1 => P[n - 1] < P[N - 1]
    BY <1>6, <2>1
  <2>4. P[N - 1] < Limit
    BY <1>1, <2>1
  <2>5. CASE n = N
    BY <2>4, <2>5
  <2>6. CASE n - 1 < N - 1
    <3> DEFINE x == P[n - 1]
               y == P[N - 1]
    <3>1. x < y /\ y < Limit /\ x \in Nat /\ y \in Nat /\ Limit \in Nat
      BY <2>2, <2>3, <2>4, <2>6
    <3> HIDE DEF x, y
    <3>2. x < Limit
      BY <3>1
    <3> QED
      BY <3>2 DEF x
  <2> QED
    BY <2>1, <2>5, <2>6
<1>8. ASSUME NEW n \in 1..N
      PROVE  g[P[n - 1]] = {P[n - 1]} \cup g[P[n]]
  BY <1>4, <1>5, <1>7, Zenon
<1>9. g[P[N]] \subseteq {P[N]}
  <2>1. P[N] \in Nat
    BY <1>1, <1>2
  <2>2. CASE P[N] < Limit
    <3> DEFINE at == IF M[P[N]] = End THEN 9999 ELSE P[N]
               a == M[at + 1]
               b == at + a + 2
    <3>0. at = 9999
      BY <1>2
    <3>1. Following(M, P[N]) = b
      BY FollowingIs
    <3> HIDE DEF at
    <3>2. a \in Nat
      <4>1. at + 1 \in Nat
        BY <3>0
      <4>2. a \in Octet
        BY <1>2, <4>1, Zenon
      <4> HIDE DEF a
      <4> QED
        BY <4>2 DEF Octet
    <3> HIDE DEF a
    <3>3. b \in Nat /\ ~(b < Limit)
      BY <3>0, <3>2, OptionsAssumption
    <3> HIDE DEF b
    <3>4. g[b] = {}
      BY <1>4, <3>3, Zenon
    <3>5. g[P[N]] = {P[N]} \cup g[b]
      BY <1>4, <2>1, <2>2, <3>1, Zenon
    <3> QED
      BY <3>4, <3>5
  <2>3. CASE ~(P[N] < Limit)
    BY <1>4, <2>1, <2>3
  <2> QED
    BY <2>2, <2>3
\* Read from the back: what is visited from the last m fields on.
<1> DEFINE From(j) == /\ \A n \in (j + 1)..N : P[n - 1] \in g[P[j]]
                      /\ \A i \in g[P[j]] : (\E n \in 1..N : i = P[n - 1]) \/ i = P[N]
           S == {m \in Nat : m <= N => From(N - m)}
<1>10. 0 \in S
  <2>1. N - 0 = N
    BY <1>1
  <2>2. \A n \in (N + 1)..N : FALSE
    BY <1>1
  <2>3. \A i \in g[P[N]] : i = P[N]
    BY <1>9
  <2>4. From(N)
    BY <2>2, <2>3, Zenon
  <2> QED
    BY <2>1, <2>4
<1> HIDE DEF From
<1>11. ASSUME NEW m \in Nat, m \in S
       PROVE  m + 1 \in S
  <2> SUFFICES ASSUME m + 1 <= N
               PROVE  From(N - (m + 1))
    OBVIOUS
  <2> DEFINE j == N - m
  <2>1. j \in 1..N /\ N - (m + 1) = j - 1 /\ m <= N
    BY <1>1
  <2>2. From(j)
    BY <1>11, <2>1
  <2> HIDE DEF j
  <2>3. g[P[j - 1]] = {P[j - 1]} \cup g[P[j]]
    BY <1>8, <2>1, Zenon
  <2>4. \A n \in ((j - 1) + 1)..N : n = j \/ n \in (j + 1)..N
    BY <1>1, <2>1
  <2>5. \A n \in ((j - 1) + 1)..N : P[n - 1] \in g[P[j - 1]]
    BY <2>2, <2>3, <2>4, Zenon DEF From
  <2>6. \A i \in g[P[j - 1]] : (\E n \in 1..N : i = P[n - 1]) \/ i = P[N]
    BY <2>1, <2>2, <2>3, Zenon DEF From
  <2>7. From(j - 1)
    BY <2>5, <2>6, Zenon DEF From
  <2> QED
    BY <2>1, <2>7, Zenon
<1>12. N \in S
  <2> HIDE DEF S
  <2> QED
    BY <1>1, <1>10, <1>11, Induction
<1>13. From(0)
  <2>1. N <= N /\ N - N = 0
    BY <1>1
  <2> QED
    BY <1>12, <2>1
<1>14. 0 + 1 = 1
  OBVIOUS
<1> QED
  BY <1>2, <1>3, <1>13, <1>14, Zenon DEF From
-----------------------------------------------------------------------------
(***************************************************************************)
(* What the loop has read.                                                 *)
(***************************************************************************)

LEMMA MaxIs ==
    ASSUME NEW T, NEW x \in T, T \subseteq Nat, \A y \in T : y <= x
    PROVE  Max(T) = x
<1>1. x \in T /\ \A y \in T : x >= y
  OBVIOUS
<1>2. Max(T) \in T /\ \A y \in T : Max(T) >= y
  <2> DEFINE Q(z) == z \in T /\ \A y \in T : z >= y
  <2>1. Q(x)
    BY <1>1
  <2>2. Max(T) = CHOOSE z : Q(z)
    BY Zenon DEF Max
  <2> HIDE DEF Q
  <2>3. Q(Max(T))
    BY <2>1, <2>2, Zenon
  <2> QED
    BY <2>3 DEF Q
<1>3. x \in Nat /\ Max(T) \in Nat /\ x >= Max(T) /\ Max(T) >= x
  BY <1>1, <1>2, Zenon
<1> DEFINE z == Max(T)
<1> HIDE DEF z
<1>4. x >= z /\ z >= x /\ z \in Nat => z = x
  BY <1>3
<1> QED
  BY <1>3, <1>4, Zenon DEF z

LEMMA Greatest ==
    ASSUME NEW N \in Nat, NEW T, T \subseteq 1..N, T # {}
    PROVE  \E x \in T : \A y \in T : y <= x
<1> DEFINE D == {N - x : x \in T}
<1>1. D \subseteq Nat /\ D # {}
  <2>1. \A x \in T : N - x \in Nat
    <3> SUFFICES ASSUME NEW x \in T
                 PROVE  N - x \in Nat
      OBVIOUS
    <3>1. x \in 1..N
      OBVIOUS
    <3> QED
      BY <3>1
  <2> QED
    BY <2>1
<1>2. PICK d \in D : \A e \in D : ~(e < d)
  BY <1>1, LeastNumber, Zenon
<1>3. PICK x \in T : d = N - x
  BY <1>2
<1>4. \A y \in T : y <= x
  <2> SUFFICES ASSUME NEW y \in T
               PROVE  y <= x
    OBVIOUS
  <2>1. N - y \in D
    OBVIOUS
  <2>2. ~(N - y < N - x)
    BY <1>2, <1>3, <2>1
  <2>3. x \in 1..N /\ y \in 1..N
    OBVIOUS
  <2> HIDE DEF D
  <2> QED
    BY <2>2, <2>3
<1> QED
  BY <1>4

\* The last option of a code that the loop finds is the last of the fields ns.
FoundLast(M, P, code, ns) ==
    /\ Found(M, code) = {} <=> ns = {}
    /\ ns # {} => Max(ns) \in ns /\ Max(Found(M, code)) = P[Max(ns) - 1]

LEMMA LastFound ==
    ASSUME NEW fields \in Seq(Field), NEW M, NEW P, Laid(M, P, fields),
           fields # <<>> => P[Len(fields) - 1] < Limit,
           NEW code, code # End,
           NEW ns, ns = {n \in 1..Len(fields) : fields[n].code = code}
    PROVE  FoundLast(M, P, code, ns)
<1> DEFINE N == Len(fields)
           found == Found(M, code)
<1>1. N \in Nat /\ ns \subseteq 1..N
  OBVIOUS
<1>2. P \in [0..N -> Nat] /\ M[P[N]] = End
  BY DEF Laid
<1>3. \A n \in 1..N : n - 1 \in 0..N /\ n \in 0..N /\ P[n - 1] \in Nat /\ M[P[n - 1]] = fields[n].code
  BY <1>1, <1>2 DEF Laid
<1>4. /\ \A n \in 1..N : P[n - 1] \in Visited(M)
      /\ \A i \in Visited(M) : (\E n \in 1..N : i = P[n - 1]) \/ i = P[N]
  BY VisitedAre
<1>5. \A n \in ns : P[n - 1] \in found
  BY <1>3, <1>4 DEF Found
<1>6. ASSUME NEW i \in found
      PROVE  \E n \in ns : i = P[n - 1]
  <2>1. i \in Visited(M) /\ M[i] = code
    BY DEF Found
  <2>2. i # P[N]
    BY <1>2, <2>1
  <2>3. PICK n \in 1..N : i = P[n - 1]
    BY <1>4, <2>1, <2>2, Zenon
  <2>4. n \in ns
    BY <1>3, <2>1, <2>3
  <2> QED
    BY <2>3, <2>4
<1> HIDE DEF found
<1>7. found = {} <=> ns = {}
  <2> QED
    BY <1>5, <1>6
<1>8. ASSUME ns # {}
      PROVE  Max(ns) \in ns /\ Max(found) = P[Max(ns) - 1]
  <2>1. PICK x \in ns : \A y \in ns : y <= x
    BY <1>1, <1>8, Greatest
  <2>2. Max(ns) = x
    <3>1. ns \subseteq Nat
      BY <1>1
    <3> QED
      BY <2>1, <3>1, MaxIs, Zenon
  <2>3. \A n \in ns : n \in 1..N /\ P[n - 1] \in Nat
    BY <1>3
  <2>4. \A n \in 1..N : P[n - 1] < P[n]
    <3> SUFFICES ASSUME NEW n \in 1..N
                 PROVE  P[n - 1] < P[n]
      OBVIOUS
    <3> DEFINE a == P[n - 1]
               l == Len(fields[n].data)
    <3>1. P[n] = a + (l + 2)
      BY Zenon DEF Laid
    <3>2. a \in Nat /\ l \in Nat
      <4>1. fields[n] \in Field
        OBVIOUS
      <4>2. l \in Nat
        BY <4>1, FieldIs, Zenon
      <4> QED
        BY <1>3, <4>2, Zenon
    <3> HIDE DEF a, l
    <3>3. a < a + (l + 2)
      BY <3>2
    <3> QED
      BY <3>1, <3>3, Zenon DEF a
  <2>5. \A m, n \in 0..N : n < m => P[n] < P[m]
    BY <1>1, <1>2, <2>4, Rising, Zenon
  <2>6. ASSUME NEW i \in found
        PROVE  i <= P[x - 1] /\ i \in Nat
    <3>1. PICK n \in ns : i = P[n - 1]
      BY <1>6
    <3>2. n <= x /\ n \in 1..N /\ x \in 1..N
      BY <2>1, <2>3, <3>1
    <3>3. n - 1 \in 0..N /\ x - 1 \in 0..N /\ (n - 1 < x - 1 \/ n = x)
      BY <3>2
    <3>4. P[n - 1] \in Nat /\ P[x - 1] \in Nat
      BY <1>2, <3>3
    <3>5. n - 1 < x - 1 => P[n - 1] < P[x - 1]
      BY <2>5, <3>3
    <3> QED
      BY <3>1, <3>3, <3>4, <3>5
  <2>7. P[x - 1] \in found /\ found \subseteq Nat
    BY <1>5, <2>1, <2>6
  <2>8. Max(found) = P[x - 1]
    BY <2>6, <2>7, MaxIs
  <2> QED
    BY <2>1, <2>2, <2>8, Zenon
<1> QED
  BY <1>7, <1>8, Zenon DEF found, FoundLast

LEMMA ReadIs ==
    ASSUME NEW fields \in Seq(Field), NEW M, NEW P, Laid(M, P, fields),
           fields # <<>> => P[Len(fields) - 1] < Limit
    PROVE  Parsed(M) = Meant(fields)
<1> DEFINE N == Len(fields)
           Of(code) == {n \in 1..N : fields[n].code = code}
           type == IF Found(M, MessageType) = {} THEN 0
                   ELSE M[Max(Found(M, MessageType)) + 2]
           octet(k) == IF Found(M, ServerIdentifier) = {} THEN 0
                       ELSE M[Max(Found(M, ServerIdentifier)) + 1 + k]
<1>1. MessageType # End /\ ServerIdentifier # End
  BY DEF MessageType, ServerIdentifier, End
<1>2. \A n \in 1..N : /\ fields[n] \in Field /\ P[n - 1] \in Nat
                      /\ \A k \in 1..Len(fields[n].data) :
                            M[P[n - 1] + (k + 1)] = fields[n].data[k]
  <2>1. \A n \in 1..N : fields[n] \in Field /\ n - 1 \in 0..N
    OBVIOUS
  <2>2. P \in [0..N -> Nat]
    BY Zenon DEF Laid
  <2>3. \A n \in 1..N : P[n - 1] \in Nat
    BY <2>1, <2>2, Zenon
  <2> QED
    BY <2>1, <2>3, Zenon DEF Laid
<1>3. type = Told(fields, MessageType, <<0>>)[1]
  <2> DEFINE ns == Of(MessageType)
             n == Max(ns)
  <2>1. /\ Found(M, MessageType) = {} <=> ns = {}
        /\ ns # {} => n \in ns
        /\ ns # {} => Max(Found(M, MessageType)) = P[n - 1]
    <3> HIDE DEF ns
    <3>1. ns = {k \in 1..N : fields[k].code = MessageType}
      BY Zenon DEF ns
    <3>2. FoundLast(M, P, MessageType, ns)
      BY <1>1, <3>1, LastFound, Zenon
    <3> QED
      BY <3>2, Zenon DEF FoundLast
  <2>2. Told(fields, MessageType, <<0>>) = IF ns = {} THEN <<0>> ELSE fields[n].data
    BY Zenon DEF Told
  <2>3. CASE ns = {}
    BY <2>1, <2>2, <2>3
  <2>4. CASE ns # {}
    <3>1. n \in 1..N /\ fields[n].code = MessageType
      BY <2>1, <2>4
    <3>2. fields[n] \in Field /\ P[n - 1] \in Nat
      BY <1>2, <3>1, Zenon
    <3>3. 1 \in 1..Len(fields[n].data) /\ 1 + 1 = 2
      <4>1. Len(fields[n].data) = 1
        BY <3>1, <3>2, Zenon DEF Field
      <4> QED
        BY <4>1
    <3>4. M[P[n - 1] + 2] = fields[n].data[1]
      BY <1>2, <3>1, <3>3, Zenon
    <3> QED
      BY <2>1, <2>2, <2>4, <3>4, Zenon
  <2> QED
    BY <2>3, <2>4
<1>4. [k \in 1..4 |-> octet(k)] = Told(fields, ServerIdentifier, <<0, 0, 0, 0>>)
  <2> DEFINE ns == Of(ServerIdentifier)
             n == Max(ns)
  <2>1. /\ Found(M, ServerIdentifier) = {} <=> ns = {}
        /\ ns # {} => n \in ns
        /\ ns # {} => Max(Found(M, ServerIdentifier)) = P[n - 1]
    <3> HIDE DEF ns
    <3>1. ns = {k \in 1..N : fields[k].code = ServerIdentifier}
      BY Zenon DEF ns
    <3>2. FoundLast(M, P, ServerIdentifier, ns)
      BY <1>1, <3>1, LastFound, Zenon
    <3> QED
      BY <3>2, Zenon DEF FoundLast
  <2>2. Told(fields, ServerIdentifier, <<0, 0, 0, 0>>) =
            IF ns = {} THEN <<0, 0, 0, 0>> ELSE fields[n].data
    BY Zenon DEF Told
  <2>3. CASE ns = {}
    <3>1. [k \in 1..4 |-> octet(k)] = [k \in 1..4 |-> 0]
      BY <2>1, <2>3, Zenon
    <3>2. [k \in 1..4 |-> 0] = <<0, 0, 0, 0>>
      OBVIOUS
    <3> QED
      BY <2>2, <2>3, <3>1, <3>2, Zenon
  <2>4. CASE ns # {}
    <3>1. n \in 1..N /\ fields[n].code = ServerIdentifier
      BY <2>1, <2>4
    <3>2. fields[n] \in Field /\ P[n - 1] \in Nat
      BY <1>2, <3>1, Zenon
    <3> DEFINE d == fields[n].data
               x == P[n - 1]
    <3>3. d \in Seq(Octet) /\ Len(d) = 4
      BY <3>1, <3>2 DEF Field
    <3>4. \A k \in 1..4 : M[x + (k + 1)] = d[k]
      BY <1>2, <3>1, <3>3, Zenon
    <3>5. \A k \in 1..4 : octet(k) = M[x + 1 + k]
      BY <2>1, <2>4, Zenon
    <3> HIDE DEF d, octet
    <3>6. \A k \in 1..4 : x + 1 + k = x + (k + 1)
      <4>1. x \in Nat
        BY <3>2, Zenon
      <4> HIDE DEF x
      <4> QED
        BY <4>1
    <3>7. \A k \in 1..4 : octet(k) = d[k]
      BY <3>4, <3>5, <3>6, Zenon
    <3>8. [k \in 1..4 |-> octet(k)] = d
      BY <3>3, <3>7
    <3> QED
      BY <2>2, <2>4, <3>8, Zenon DEF d
  <2> QED
    BY <2>3, <2>4
<1>5. Parsed(M) = [type |-> type, server |-> [k \in 1..4 |-> octet(k)]]
  BY Zenon DEF Parsed
<1> HIDE DEF type, octet
<1> QED
  BY <1>3, <1>4, <1>5, Zenon DEF Meant
-----------------------------------------------------------------------------
(***************************************************************************)
(* The theorems.                                                           *)
(***************************************************************************)

\* Whatever fields a server writes in whatever order, with whatever data and
\* whatever is left in memory behind them, the parser finds the message type
\* and the server identifier they mean (dhcp_client.h:57).
THEOREM FieldsAreRead ==
    \A fields \in Seq(Field), beyond \in Octet : ReadAsMeant(fields, beyond)
<1> SUFFICES ASSUME NEW fields \in Seq(Field), NEW beyond \in Octet,
                    fields # <<>> => Len(Encoded(Front(fields))) < Limit
             PROVE  Parsed(Memory(Encoded(fields) \o <<End>>, beyond)) = Meant(fields)
  BY Zenon DEF ReadAsMeant
<1> DEFINE N == Len(fields)
<1>1. PICK f : Grows(f, fields)
  BY GrowsExists
<1> DEFINE P == [n \in 0..N |-> Len(f[n])]
           M == Memory(f[N] \o <<End>>, beyond)
<1>2. Laid(M, P, fields)
  BY <1>1, MemoryLaid, Zenon
<1>3. Encoded(fields) = f[N]
  BY <1>1, EncodedIs, Zenon
<1>4. fields # <<>> => P[N - 1] < Limit
  <2> SUFFICES ASSUME fields # <<>>
               PROVE  P[N - 1] < Limit
    OBVIOUS
  <2>1. N - 1 \in 0..N
    OBVIOUS
  <2>2. Encoded(Front(fields)) = f[N - 1]
    BY <1>1, FrontIs, Zenon
  <2> QED
    BY <2>1, <2>2
<1> HIDE DEF P, M
<1>5. Parsed(M) = Meant(fields)
  BY <1>2, <1>4, ReadIs, Zenon
<1> QED
  BY <1>3, <1>5, Zenon DEF M

\* Every reply on its way to the client will be read as its server meant it,
\* for every set of field lists, every number of servers and every limit up
\* to where End sends the loop.
THEOREM RepliesAreRead == Spec => []OptionsAreRead
<1>1. TypeOK => OptionsAreRead
  <2>1. \A type \in DOMAIN Number : Understood[type]
    <3>1. \A fields \in FieldLists, beyond \in Beyond : ReadAsMeant(fields, beyond)
      BY FieldsAreRead, RepliesAssumption
    <3> QED
      BY <3>1, Zenon DEF Understood
  <2>2. DOMAIN Number = {"offer", "ack", "nak"}
    BY DEF Number
  <2>3. ASSUME TypeOK, NEW m \in toClient
        PROVE  m.type \in DOMAIN Number
    BY <2>2, <2>3 DEF TypeOK, Replies
  <2> QED
    BY <2>1, <2>3, Zenon DEF OptionsAreRead
<1> QED
  BY <1>1, TypeCorrect, PTL
=============================================================================
