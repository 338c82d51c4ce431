--------------------------- MODULE GateWayProofs ---------------------------
(***************************************************************************)
(* Theorems about GateWay.  Its DHCP client is the one DhcpClientProofs is *)
(* about: a step of the gateway is a step of that client or leaves it      *)
(* alone, so the client's invariant holds of the gateway too.              *)
(***************************************************************************)
EXTENDS GateWay, TLAPS

\* No theorem about the client looks at how its replies are written.
Client == INSTANCE DhcpClientProofs WITH Limit <- 300, FieldLists <- {}, Beyond <- {}

LEMMA SameInit == Dhcp!Init => Client!Init
BY DEF Dhcp!Init, Client!Init

\* The two instances of DhcpClient say the same.
LEMMA SameClient ==
    Dhcp!SendDiscover \/ Dhcp!Receive \/ Dhcp!ExitLoop \/ Dhcp!Destroy \/ Dhcp!Unwind
      => Client!Next
<1> USE DEF Dhcp!client, Client!client, Dhcp!servers, Client!servers,
            Dhcp!faults, Client!faults, Dhcp!Broadcast, Client!Broadcast,
            Dhcp!Consume, Client!Consume
<1>1. Dhcp!SendDiscover => Client!SendDiscover
  BY Zenon DEF Dhcp!SendDiscover, Client!SendDiscover
<1>2. ASSUME NEW m PROVE Dhcp!Hears(m) => Client!Hears(m)
  BY Zenon DEF Dhcp!Hears, Client!Hears
<1>3. ASSUME NEW m PROVE Dhcp!RecvOffer(m) => Client!RecvOffer(m)
  BY <1>2, Zenon DEF Dhcp!RecvOffer, Client!RecvOffer
<1>4. ASSUME NEW m PROVE Dhcp!RecvAck(m) => Client!RecvAck(m)
  BY <1>2, Zenon DEF Dhcp!RecvAck, Client!RecvAck
<1>5. ASSUME NEW m PROVE Dhcp!RecvNak(m) => Client!RecvNak(m)
  BY <1>2, Zenon DEF Dhcp!RecvNak, Client!RecvNak
<1>6. ASSUME NEW m PROVE Dhcp!Ignore(m) => Client!Ignore(m)
  BY Zenon DEF Dhcp!Ignore, Client!Ignore
<1>7. Dhcp!SendRelease => Client!SendRelease
  BY Zenon DEF Dhcp!SendRelease, Client!SendRelease
<1>8. Dhcp!ExitLoop \/ Dhcp!Destroy \/ Dhcp!Unwind
        => Client!ExitLoop \/ Client!Destroy \/ Client!Unwind
  BY <1>7, Zenon DEF Dhcp!ExitLoop, Dhcp!Destroy, Dhcp!Unwind,
                     Client!ExitLoop, Client!Destroy, Client!Unwind
<1>9. Dhcp!Receive => Client!Receive
  BY <1>3, <1>4, <1>5, <1>6, Zenon DEF Dhcp!Receive, Client!Receive
<1> QED BY <1>1, <1>8, <1>9, Zenon DEF Client!Next

LEMMA SameServers ==
    Dhcp!ServerStep \/ Dhcp!Lose => Client!Next
<1> USE DEF Dhcp!client, Client!client, Dhcp!faults, Client!faults,
            Dhcp!Consume, Client!Consume, Dhcp!Answer, Client!Answer,
            Dhcp!MarkLease, Client!MarkLease, Dhcp!servers, Client!servers
<1>1. ASSUME NEW s, NEW m PROVE Dhcp!ServerHears(s, m) => Client!ServerHears(s, m)
  BY Zenon DEF Dhcp!ServerHears, Client!ServerHears
<1>2. ASSUME NEW s, NEW m PROVE Dhcp!MakeOffer(s, m) => Client!MakeOffer(s, m)
  BY <1>1, Zenon DEF Dhcp!MakeOffer, Client!MakeOffer
<1>3. ASSUME NEW s, NEW m PROVE Dhcp!Commit(s, m) => Client!Commit(s, m)
  BY <1>1, Zenon DEF Dhcp!Commit, Client!Commit
<1>4. ASSUME NEW s, NEW m PROVE Dhcp!Refuse(s, m) => Client!Refuse(s, m)
  BY <1>1, Zenon DEF Dhcp!Refuse, Client!Refuse
<1>5. ASSUME NEW s, NEW m PROVE Dhcp!Withdraw(s, m) => Client!Withdraw(s, m)
  BY <1>1, Zenon DEF Dhcp!Withdraw, Client!Withdraw
<1>6. ASSUME NEW s, NEW m PROVE Dhcp!Discard(s, m) => Client!Discard(s, m)
  BY <1>1, Zenon DEF Dhcp!Discard, Client!Discard
<1>7. Dhcp!ServerStep => Client!ServerStep
  BY <1>2, <1>3, <1>4, <1>5, <1>6, Zenon DEF Dhcp!ServerStep, Client!ServerStep
<1>8. Dhcp!Lose => Client!Lose
  BY Zenon DEF Dhcp!Lose, Client!Lose
<1> QED BY <1>7, <1>8, Zenon DEF Client!Next

\* The client's invariant survives what the gateway does.
LEMMA ClientKeeps ==
  ASSUME Client!IInv, Dhcp!Next \/ UNCHANGED dhcp
  PROVE  Client!IInv'
<1>1. CASE Dhcp!Next
  <2>1. Client!Next BY <1>1, SameClient, SameServers, Zenon DEF Dhcp!Next
  <2> QED BY <2>1, Client!NextKeeps, GateWayAssumption
          DEF Dhcp!Replies, Client!Replies
<1>2. CASE UNCHANGED dhcp
  <2>1. UNCHANGED Client!vars
    BY <1>2 DEF dhcp, Client!vars, Client!client, Client!servers, Client!faults
  <2> QED BY <2>1, Client!NextKeeps, GateWayAssumption
          DEF Dhcp!Replies, Client!Replies
<1> QED BY <1>1, <1>2
-----------------------------------------------------------------------------
(***************************************************************************)
(* Types.                                                                  *)
(***************************************************************************)

Inv == Client!IInv /\ TypeOK

\* What the client's invariant says of the fields the gateway reads.
LEMMA ClientFields ==
  ASSUME Client!IInv
  PROVE  /\ ip \in Addresses \cup {None} /\ server \in Servers \cup {None}
         /\ is_configured => /\ pc = "running"
                             /\ ip # None /\ server # None
                             /\ ip \in Addresses /\ server \in Servers
                             /\ ip = binding[server]
                             /\ \E s \in Servers : lease[s] = "committed"
BY DEF Client!IInv, Client!TypeOK, Client!Quiet, Client!Traced, Client!Answered, Client!Held

LEMMA InitInv == Init => Inv
<1> SUFFICES ASSUME Init PROVE Inv OBVIOUS
<1>1. Client!IInv
  BY SameInit, Client!InitKeeps, GateWayAssumption DEF Init, Dhcp!Replies, Client!Replies
<1>2. TypeOK BY GateWayAssumption, SMT DEF Init, TypeOK, Macs
<1> QED BY <1>1, <1>2 DEF Inv

\* A step of the main loop or of the hosts is one of the client or none.
LEMMA NextClient == Next => Dhcp!Next \/ UNCHANGED dhcp
BY Zenon DEF Next, DhcpStep, RecvArpRequest, RecvArpReply, RecvIp, Handles, PassesOver,
             AnswerArp, Move

LEMMA FieldsKeep ==
  ASSUME TypeOK, Client!IInv, Next
  PROVE  TypeOK'
<1> USE DEF TypeOK, arp, hosts
<1>1. CASE DhcpStep
  <2>1. UNCHANGED <<arp_table, routed, mac, knows, asked, told, arp_lost>> /\ speaks' = None
    BY <1>1 DEF DhcpStep
  <2>2. arp_ip' \in Addresses \cup {None}
    BY <1>1, ClientFields DEF DhcpStep
  <2> QED BY <2>1, <2>2
<1>2. ASSUME NEW h \in Hosts, NEW a \in Addresses, RecvArpRequest(h, a) PROVE TypeOK'
  <2>1. arp_ip' = ip /\ UNCHANGED <<arp_table, routed, mac, asked, told>>
    BY <1>2 DEF RecvArpRequest, Handles
  <2>2. arp_ip' \in Addresses \cup {None} BY <2>1, ClientFields
  <2>3. speaks' \in {a, None} /\ knows' \subseteq knows \cup {h}
        /\ (arp_lost' = arp_lost \/ (arp_lost < MaxArpLost /\ arp_lost' = arp_lost + 1))
    BY <1>2 DEF RecvArpRequest, Arrives, Lost
  <2>4. arp_lost' \in 0..MaxArpLost BY <2>3, GateWayAssumption
  <2> QED BY <2>1, <2>2, <2>3, <2>4
<1>3. ASSUME NEW r \in told, RecvArpReply(r) PROVE TypeOK'
  <2>1. arp_ip' = ip /\ speaks' = None /\ told' \subseteq told
        /\ UNCHANGED <<routed, mac, knows, asked, arp_lost>>
    BY <1>3 DEF RecvArpReply, Handles
  <2>2. arp_ip' \in Addresses \cup {None} BY <2>1, ClientFields
  <2>3. r.host \in Hosts /\ r.mac \in Macs OBVIOUS
  <2>4. arp_table' = [arp_table EXCEPT ![r.host] = r.mac] BY <1>3 DEF RecvArpReply
  <2>5. arp_table' \in [Hosts -> {None} \cup Macs] BY <2>3, <2>4
  <2> QED BY <2>1, <2>2, <2>5
<1>4. ASSUME NEW r \in told, PassesOver(r) PROVE TypeOK'
  BY <1>4 DEF PassesOver
<1>5. ASSUME NEW h \in Hosts, NEW d \in Hosts \ {h}, RecvIp(h, d) PROVE TypeOK'
  <2>1. arp_ip' = ip /\ UNCHANGED <<arp_table, mac, knows, told>>
    BY <1>5 DEF RecvIp, Handles
  <2>2. arp_ip' \in Addresses \cup {None} BY <2>1, ClientFields
  <2>3. CASE arp_table[d] = None
    <3>1. speaks' = arp_ip' /\ asked' \subseteq asked \cup {d} /\ UNCHANGED routed
          /\ (arp_lost' = arp_lost \/ (arp_lost < MaxArpLost /\ arp_lost' = arp_lost + 1))
      BY <1>5, <2>3 DEF RecvIp, Arrives, Lost
    <3>2. arp_lost' \in 0..MaxArpLost BY <3>1, GateWayAssumption
    <3> QED BY <2>1, <2>2, <3>1, <3>2
  <2>4. CASE arp_table[d] # None
    <3>1. routed' = routed \cup {[dest |-> d, mac |-> arp_table[d]]} /\ speaks' = None
          /\ UNCHANGED <<asked, arp_lost>>
      BY <1>5, <2>4 DEF RecvIp
    <3>2. arp_table[d] \in Macs BY <2>4
    <3>3. routed' \subseteq [dest : Hosts, mac : Macs] BY <3>1, <3>2
    <3> QED BY <2>1, <2>2, <3>1, <3>3
  <2> QED BY <2>3, <2>4
<1>6. ASSUME NEW h \in Hosts, AnswerArp(h) \/ Move(h) PROVE TypeOK'
  <2>1. speaks' = None /\ asked' \subseteq asked /\ UNCHANGED <<arp_ip, arp_table, routed, knows>>
    BY <1>6 DEF AnswerArp, Move
  <2>2. arp_lost' = arp_lost \/ (arp_lost < MaxArpLost /\ arp_lost' = arp_lost + 1)
    BY <1>6 DEF AnswerArp, Move, Arrives, Lost
  <2>3. arp_lost' \in 0..MaxArpLost BY <2>2, GateWayAssumption
  <2>4. mac' = mac \/ (mac[h] <= MaxMoves /\ mac' = [mac EXCEPT ![h] = @ + 1])
    BY <1>6 DEF AnswerArp, Move
  <2>5. mac[h] <= MaxMoves => mac[h] + 1 \in Macs BY GateWayAssumption DEF Macs
  <2>6. mac' \in [Hosts -> Macs] BY <2>4, <2>5
  <2>7. told' = told \/ told' = told \cup {[host |-> h, mac |-> mac'[h]]}
    BY <1>6 DEF AnswerArp, Move, Tells
  <2>8. told' \subseteq [host : Hosts, mac : Macs] BY <2>6, <2>7
  <2> QED BY <2>1, <2>3, <2>6, <2>8
<1> QED BY <1>1, <1>2, <1>3, <1>4, <1>5, <1>6 DEF Next

LEMMA StutterKeeps ==
  ASSUME Inv, UNCHANGED vars
  PROVE  Inv'
<1>1. Client!IInv' BY ClientKeeps DEF Inv, vars
<1>2. TypeOK' BY DEF Inv, TypeOK, vars, arp, hosts
<1> QED BY <1>1, <1>2 DEF Inv

LEMMA Invariance == Spec => []Inv
<1>1. Inv /\ [Next]_vars => Inv'
  BY NextClient, ClientKeeps, FieldsKeep, StutterKeeps DEF Inv
<1> QED BY <1>1, InitInv, PTL DEF Spec

\* The ARP table holds only MACs that hosts have had, packets are routed only
\* to such, and the gateway's address is one of the servers' (arp_client.h:102,
\* router.h:38).
THEOREM TypeCorrect == Spec => []TypeOK
<1>1. Inv => TypeOK BY DEF Inv
<1> QED BY <1>1, Invariance, PTL

\* No ARP frame is ever sent in the name of an address that is only offered
\* or no longer leased, for any number of DHCP servers (gate_way.cpp:118).
THEOREM SpeaksTrue == Spec => []SpeaksForItsLease
<1>1. Init => SpeaksForItsLease BY DEF Init, SpeaksForItsLease
<1>2. Inv /\ SpeaksForItsLease /\ [Next]_vars => SpeaksForItsLease'
  <2> SUFFICES ASSUME Inv, SpeaksForItsLease, [Next]_vars PROVE SpeaksForItsLease'
    OBVIOUS
  <2>1. CASE UNCHANGED vars
    BY <2>1 DEF SpeaksForItsLease, vars, dhcp
  <2>2. CASE speaks' = None BY <2>2 DEF SpeaksForItsLease
  <2>3. CASE Handles /\ speaks' = ip
    <3>1. /\ pc' = "running" /\ server' = server /\ lease' = lease /\ binding' = binding
          /\ is_configured
      BY <2>3 DEF Handles, dhcp
    <3>2. server \in Servers /\ ip = binding[server] /\ \E t \in Servers : lease[t] = "committed"
      BY <3>1, ClientFields DEF Inv
    <3> QED BY <2>3, <3>1, <3>2 DEF SpeaksForItsLease
  <2>4. Next => speaks' = None \/ (Handles /\ speaks' = ip)
    BY Zenon DEF Next, DhcpStep, RecvArpRequest, RecvArpReply, RecvIp, Handles, PassesOver,
                 AnswerArp, Move
  <2> QED BY <2>1, <2>2, <2>3, <2>4
<1> QED BY <1>1, <1>2, Invariance, PTL DEF Spec
=============================================================================
