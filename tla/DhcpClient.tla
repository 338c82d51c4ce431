----------------------------- MODULE DhcpClient -----------------------------
(***************************************************************************)
(* dhcp_client.h as the main loop of gate_way.cpp drives it: one DISCOVER  *)
(* before the loop, replies dispatched only while the client is not        *)
(* configured, and send_release called twice on the way out, after the     *)
(* loop and by the destructor.  A reply is what DhcpOptions reads of it    *)
(* (message type, server identifier) and the address; the subnet mask,     *)
(* which nothing reads, is left out.                                       *)
(*                                                                         *)
(* The DHCP servers and the network are external.  Every datagram the      *)
(* client sends is a broadcast, so each server gets its own copy; copies   *)
(* and replies are reordered freely, and lost or delivered twice within    *)
(* the bounds MaxLost and MaxDuplicated.  Two equal datagrams on their way *)
(* to the same receiver are one element of a set.                          *)
(***************************************************************************)
EXTENDS Naturals, Sequences

CONSTANTS
    Servers,         \* DHCP servers on the LAN
    Addresses,       \* addresses they hand out
    None,            \* no address, no server
    Foreign,         \* replies with another client's xid on their way
    Refusals,        \* whether a server may answer a REQUEST with a NAK
    MaxLost,         \* bound: datagrams lost
    MaxDuplicated    \* bound: datagrams delivered twice

Requests ==
    [type : {"discover"}]
    \cup [type : {"request", "release"}, ip : Addresses, server : Servers]

\* `ours' says that the xid is the one drawn in the client's constructor.
Replies ==
    [type : {"offer", "ack", "nak"}, ip : Addresses, server : Servers, ours : BOOLEAN]

ASSUME DhcpAssumption ==
    /\ None \notin Addresses \cup Servers
    /\ Foreign \subseteq {m \in Replies : ~m.ours}
    /\ Refusals \in BOOLEAN
    /\ MaxLost \in Nat /\ MaxDuplicated \in Nat

VARIABLES
    pc,              \* where main() is
    is_configured,   \* _is_configured
    ip, server,      \* _ip and _server
    toServer,        \* datagrams on their way to each server
    toClient,        \* replies on their way to the client
    binding,         \* the address each server has set aside for the client
    lease,           \* what each server has done with it
    releases,        \* history: the RELEASEs sent
    lost, duplicated \* datagrams so far

client == <<pc, is_configured, ip, server, releases>>
servers == <<binding, lease>>
faults == <<lost, duplicated>>
vars == <<client, toServer, toClient, servers, faults>>

Init ==
    /\ pc = "start"
    /\ is_configured = FALSE
    /\ ip = None
    /\ server = None
    /\ releases = <<>>
    /\ toServer = [s \in Servers |-> {}]
    /\ toClient = Foreign
    /\ binding \in [Servers -> Addresses]
    /\ lease = [s \in Servers |-> "free"]
    /\ lost = 0
    /\ duplicated = 0
-----------------------------------------------------------------------------
(***************************************************************************)
(* The network.                                                            *)
(***************************************************************************)

Broadcast(m) == toServer' = [s \in Servers |-> toServer[s] \cup {m}]

\* A datagram is delivered and gone, or will be delivered once more.
Consume(before, after, m) ==
    \/ after = before \ {m} /\ UNCHANGED faults
    \/ /\ duplicated < MaxDuplicated
       /\ after = before
       /\ duplicated' = duplicated + 1
       /\ UNCHANGED lost

Lose ==
    /\ lost < MaxLost
    /\ lost' = lost + 1
    /\ \/ \E s \in Servers : \E m \in toServer[s] :
            /\ toServer' = [toServer EXCEPT ![s] = @ \ {m}]
            /\ UNCHANGED toClient
       \/ \E m \in toClient : toClient' = toClient \ {m} /\ UNCHANGED toServer
    /\ UNCHANGED <<client, servers, duplicated>>
-----------------------------------------------------------------------------
(***************************************************************************)
(* The client.                                                             *)
(***************************************************************************)

SendDiscover ==
    /\ pc = "start"
    /\ pc' = "running"
    /\ Broadcast([type |-> "discover"])
    /\ is_configured' = FALSE
    /\ UNCHANGED <<ip, server, releases, toClient, servers, faults>>

\* Mistake: the xid is not looked at.
HearsForeign(m) ==
    /\ pc = "running" /\ ~is_configured
    /\ m \in toClient
    /\ Consume(toClient, toClient', m)

\* The main loop gives reply m to dispatch, and its xid is the client's.
Hears(m) ==
    /\ pc = "running" /\ ~is_configured
    /\ m \in toClient /\ m.ours
    /\ Consume(toClient, toClient', m)

\* Mistake: the offer is stored and not asked for.
RecvOfferSilent(m) ==
    /\ Hears(m)
    /\ m.type = "offer"
    /\ ip' = m.ip
    /\ server' = m.server
    /\ UNCHANGED <<pc, is_configured, releases, toServer, servers>>

\* DHCPOFFER: each offer replaces the one before and is asked for at once.
RecvOffer(m) ==
    /\ Hears(m)
    /\ m.type = "offer"
    /\ ip' = m.ip
    /\ server' = m.server
    /\ Broadcast([type |-> "request", ip |-> m.ip, server |-> m.server])
    /\ is_configured' = FALSE
    /\ UNCHANGED <<pc, releases, servers>>

\* DHCPACK: neither its address nor its server is compared with the offer.
RecvAck(m) ==
    /\ Hears(m)
    /\ m.type = "ack"
    /\ is_configured' = TRUE
    /\ UNCHANGED <<pc, ip, server, releases, toServer, servers>>

\* DHCPNAK is only printed.
RecvNak(m) ==
    /\ Hears(m)
    /\ m.type = "nak"
    /\ UNCHANGED <<client, toServer, servers>>

\* Replies to other clients, and any reply once configured, change nothing.
Ignore(m) ==
    /\ pc = "running"
    /\ m \in toClient
    /\ is_configured \/ ~m.ours
    /\ Consume(toClient, toClient', m)
    /\ UNCHANGED <<client, toServer, servers>>

\* Mistakes: the flag is not looked at, so a client that has no address
\* releases one; the flag survives the RELEASE, so the destructor sends another.
SendReleaseUnconfigured ==
    /\ LET m == [type |-> "release", ip |-> ip, server |-> server]
       IN  Broadcast(m) /\ releases' = Append(releases, m)
    /\ is_configured' = FALSE
    /\ UNCHANGED <<ip, server>>
SendReleaseAgain ==
    /\ IF is_configured
       THEN LET m == [type |-> "release", ip |-> ip, server |-> server]
            IN  Broadcast(m) /\ releases' = Append(releases, m)
       ELSE UNCHANGED <<toServer, releases>>
    /\ UNCHANGED <<is_configured, ip, server>>

SendRelease ==
    /\ IF is_configured
       THEN LET m == [type |-> "release", ip |-> ip, server |-> server]
            IN  Broadcast(m) /\ releases' = Append(releases, m)
       ELSE UNCHANGED <<toServer, releases>>
    /\ is_configured' = FALSE
    /\ UNCHANGED <<ip, server>>

\* The loop ends (stop command, Ctrl+Break, capture error): send_release.
ExitLoop ==
    /\ pc = "running"
    /\ pc' = "leaving"
    /\ SendRelease
    /\ UNCHANGED <<toClient, servers, faults>>

\* ~dhcp_client, at the end of main's block.
Destroy ==
    /\ pc = "leaving"
    /\ pc' = "gone"
    /\ SendRelease
    /\ UNCHANGED <<toClient, servers, faults>>

\* An exception ends the loop: the destructor's is the only send_release.
Unwind ==
    /\ pc = "running"
    /\ pc' = "gone"
    /\ SendRelease
    /\ UNCHANGED <<toClient, servers, faults>>

Receive == \E m \in toClient :
    RecvOffer(m) \/ RecvAck(m) \/ RecvNak(m) \/ Ignore(m)
-----------------------------------------------------------------------------
(***************************************************************************)
(* The servers, external.                                                  *)
(***************************************************************************)

ServerHears(s, m) ==
    /\ m \in toServer[s]
    /\ \E rest \in SUBSET toServer[s] :
          /\ Consume(toServer[s], rest, m)
          /\ toServer' = [toServer EXCEPT ![s] = rest]
    /\ UNCHANGED client

Answer(s, type, a) ==
    toClient' = toClient \cup {[type |-> type, ip |-> a, server |-> s, ours |-> TRUE]}

MarkLease(s, l) == lease' = [lease EXCEPT ![s] = l] /\ UNCHANGED binding

\* A DISCOVER is answered with the address set aside for the client.
MakeOffer(s, m) ==
    /\ ServerHears(s, m)
    /\ m.type = "discover"
    /\ MarkLease(s, IF lease[s] = "free" THEN "offered" ELSE lease[s])
    /\ Answer(s, "offer", binding[s])

\* A REQUEST for this server's offer is granted or refused.
Commit(s, m) ==
    /\ ServerHears(s, m)
    /\ m.type = "request" /\ m.server = s
    /\ lease[s] # "free"
    /\ MarkLease(s, "committed")
    /\ Answer(s, "ack", m.ip)

Refuse(s, m) ==
    /\ ServerHears(s, m)
    /\ m.type = "request" /\ m.server = s
    /\ lease[s] = "free" \/ (Refusals /\ lease[s] = "offered")
    /\ MarkLease(s, "free")
    /\ Answer(s, "nak", m.ip)

\* A REQUEST for another server's offer declines an offer not yet committed.
Withdraw(s, m) ==
    /\ ServerHears(s, m)
    /\ m.type = "request" /\ m.server # s
    /\ MarkLease(s, IF lease[s] = "offered" THEN "free" ELSE lease[s])
    /\ UNCHANGED toClient

Discard(s, m) ==
    /\ ServerHears(s, m)
    /\ m.type = "release"
    /\ MarkLease(s, IF m.server = s THEN "free" ELSE lease[s])
    /\ UNCHANGED toClient

ServerStep == \E s \in Servers : \E m \in toServer[s] :
    MakeOffer(s, m) \/ Commit(s, m) \/ Refuse(s, m) \/ Withdraw(s, m) \/ Discard(s, m)

Next == SendDiscover \/ Receive \/ ExitLoop \/ Destroy \/ Unwind \/ ServerStep \/ Lose

\* main() runs and reads what is captured; the servers answer.  Nothing
\* makes the loop end.
Spec == Init /\ [][Next]_vars /\ WF_vars(SendDiscover) /\ WF_vars(Receive)
             /\ WF_vars(Destroy) /\ WF_vars(ServerStep)
-----------------------------------------------------------------------------
(***************************************************************************)
(* Properties.                                                             *)
(***************************************************************************)

TypeOK ==
    /\ pc \in {"start", "running", "leaving", "gone"}
    /\ is_configured \in BOOLEAN
    /\ ip \in Addresses \cup {None}
    /\ server \in Servers \cup {None}
    /\ releases \in Seq(Requests)
    /\ toServer \in [Servers -> SUBSET Requests]
    /\ toClient \subseteq Replies
    /\ binding \in [Servers -> Addresses]
    /\ lease \in [Servers -> {"free", "offered", "committed"}]
    /\ lost \in Nat /\ duplicated \in Nat

\* The address the gateway answers for is one that the server it believes
\* in has committed to it.
AddressIsCommitted ==
    is_configured =>
        server \in Servers /\ lease[server] = "committed" /\ binding[server] = ip

\* A configured client holds a lease, and where only one server has committed
\* an address to it, that is the address and the server it goes by, whatever
\* other servers offered and withdrew and whatever the network did.
LoneLeaseIsUsed ==
    is_configured /\ (\A s \in Servers \ {server} : lease[s] # "committed")
        => server \in Servers /\ lease[server] = "committed" /\ binding[server] = ip

\* The client stops using its address exactly when it releases it: no reply
\* deconfigures it silently, and the two calls of send_release on the way
\* out send one RELEASE between them, for the lease in use.
ReleasesItsLease ==
    [][ /\ is_configured /\ ~is_configured' <=> releases' # releases
        /\ releases' # releases =>
              releases' = <<[type |-> "release", ip |-> ip, server |-> server]>>
      ]_vars

Refused == \E m \in toClient : m.type = "nak" /\ m.ours

\* The client gets an address unless it is stopped first, a datagram is lost
\* or a server refuses what it offered, although the client sends each of its
\* messages only once.
GetsConfigured ==
    [](lost = 0 /\ ~Refused) => (pc = "running" ~> is_configured \/ pc # "running")
=============================================================================
