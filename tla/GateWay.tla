------------------------------ MODULE GateWay ------------------------------
(***************************************************************************)
(* The main loop of gate_way.cpp over the components it hands a captured   *)
(* frame to, one after the other: virtual_gw, dhcp_client, arp_client and  *)
(* router.  DhcpClient is one component; a packet that router accepts goes *)
(* to the queues of QueueDispatcher and is only recorded here.  The first, *)
(* virtual_gw, takes the frames of CommandProtocol, of which only a stop   *)
(* matters to the others: it ends the loop.                                *)
(*                                                                         *)
(* A frame and the handling of it are one action.  The hosts of the LAN    *)
(* are external: they resolve the gateway's address, send packets through  *)
(* it, answer its ARP requests, and may change their network card.  Their  *)
(* ARP frames are lost at most MaxArpLost times.                           *)
(***************************************************************************)
EXTENDS Naturals, Sequences

CONSTANTS
    Servers, Addresses, None, Foreign, Refusals, MaxLost, MaxDuplicated,
    Hosts,        \* the hosts, each with one address of its own
    MaxMoves,     \* bound: changes of a network card
    MaxArpLost    \* bound: ARP frames lost

VARIABLES
    pc, is_configured, ip, server, toServer, toClient,
    binding, lease, releases, lost, duplicated

Dhcp == INSTANCE DhcpClient

\* The MACs the hosts' cards can have.
Macs == 1..(MaxMoves + 1)

\* The first three are what DhcpClient assumes of its constants.
ASSUME GateWayAssumption ==
    /\ None \notin Addresses \cup Servers
    /\ Foreign \subseteq {m \in Dhcp!Replies : ~m.ours}
    /\ Refusals \in BOOLEAN /\ MaxLost \in Nat /\ MaxDuplicated \in Nat
    /\ None \notin Hosts \cup Nat
    /\ Hosts \cap Addresses = {}
    /\ MaxMoves \in Nat /\ MaxArpLost \in Nat

VARIABLES
    arp_ip,      \* arp_client::_ip
    arp_table,   \* arp_client::_arp_table, None for an absent address
    speaks,      \* history: the sender address of the ARP frame the last step
                 \* sent, None if it sent none
    routed,      \* history: destination and MAC of the packets given to qm
    mac,         \* every host's MAC, a number; 0 is the MAC 00:00:00:00:00:00
    knows,       \* hosts that have resolved the gateway's address
    asked,       \* hosts an ARP request of the gateway is on its way to
    told,        \* ARP replies on their way to the gateway
    arp_lost

dhcp == <<pc, is_configured, ip, server, toServer, toClient,
          binding, lease, releases, lost, duplicated>>
arp == <<arp_ip, arp_table>>
hosts == <<mac, knows, asked, told, arp_lost>>
vars == <<dhcp, arp, speaks, routed, hosts>>

Init ==
    /\ Dhcp!Init
    /\ arp_ip = None
    /\ arp_table = [h \in Hosts |-> None]
    /\ speaks = None
    /\ routed = {}
    /\ mac = [h \in Hosts |-> 1]
    /\ knows = {}
    /\ asked = {}
    /\ told = {}
    /\ arp_lost = 0
-----------------------------------------------------------------------------
(***************************************************************************)
(* The main loop.                                                          *)
(***************************************************************************)

\* A DISCOVER, a DHCP reply, or the end of the loop.  A configured gateway
\* gives the reply to arp_client, which gets its address first.
DhcpStep ==
    /\ Dhcp!Next
    /\ arp_ip' = IF is_configured /\ (\E m \in toClient : Dhcp!Ignore(m)) THEN ip ELSE arp_ip
    /\ speaks' = None
    /\ UNCHANGED <<arp_table, routed, hosts>>

\* Mistake: an unconfigured gateway goes on to ARP and routing.
HandlesUnconfigured ==
    /\ pc = "running"
    /\ arp_ip' = ip
    /\ UNCHANGED dhcp

\* The frame is neither a command nor the DHCP client's: `we have no ip'
\* ends the handling of it unless the client is configured.
Handles ==
    /\ pc = "running"
    /\ is_configured
    /\ arp_ip' = ip
    /\ UNCHANGED dhcp

\* An ARP frame arrives, or is lost.
Arrives == UNCHANGED arp_lost
Lost == arp_lost < MaxArpLost /\ arp_lost' = arp_lost + 1

\* Host h asks who has address a; the reply may be lost.
RecvArpRequest(h, a) ==
    /\ Handles
    /\ IF a = arp_ip'
       THEN /\ speaks' = a
            /\ \/ Arrives /\ knows' = knows \cup {h}
               \/ Lost /\ UNCHANGED knows
       ELSE speaks' = None /\ UNCHANGED <<knows, arp_lost>>
    /\ UNCHANGED <<arp_table, routed, mac, asked, told>>

\* An ARP reply overwrites the entry of its sender; no entry ever expires.
RecvArpReply(r) ==
    /\ Handles
    /\ r \in told
    /\ told' = told \ {r}
    /\ arp_table' = [arp_table EXCEPT ![r.host] = r.mac]
    /\ speaks' = None
    /\ UNCHANGED <<routed, mac, knows, asked, arp_lost>>

\* Mistake: the entry that was not found is inserted, as operator[] would.
RecvIpInserts(h, d) ==
    /\ Handles
    /\ h \in knows
    /\ IF arp_table[d] = None
       THEN /\ arp_table' = [arp_table EXCEPT ![d] = 0]
            /\ speaks' = arp_ip'
            /\ \/ Arrives /\ asked' = asked \cup {d}
               \/ Lost /\ UNCHANGED asked
            /\ UNCHANGED routed
       ELSE /\ routed' = routed \cup {[dest |-> d, mac |-> arp_table[d]]}
            /\ speaks' = None
            /\ UNCHANGED <<arp_table, asked, arp_lost>>
    /\ UNCHANGED <<mac, knows, told>>

\* Host h sends a packet for host d to the gateway's MAC: router::dispatch.
\* A destination whose MAC is not known is asked for, and the packet gone.
RecvIp(h, d) ==
    /\ Handles
    /\ h \in knows
    /\ IF arp_table[d] = None
       THEN /\ speaks' = arp_ip'
            /\ \/ Arrives /\ asked' = asked \cup {d}
               \/ Lost /\ UNCHANGED asked
            /\ UNCHANGED routed
       ELSE /\ routed' = routed \cup {[dest |-> d, mac |-> arp_table[d]]}
            /\ speaks' = None
            /\ UNCHANGED <<asked, arp_lost>>
    /\ UNCHANGED <<arp_table, mac, knows, told>>

\* An unconfigured gateway reads on past a frame that is not for it.
PassesOver(r) ==
    /\ pc = "running"
    /\ ~is_configured
    /\ r \in told
    /\ told' = told \ {r}
    /\ speaks' = None
    /\ UNCHANGED <<dhcp, arp, routed, mac, knows, asked, arp_lost>>
-----------------------------------------------------------------------------
(***************************************************************************)
(* The hosts, external.                                                    *)
(***************************************************************************)

Tells(h) == told' = told \cup {[host |-> h, mac |-> mac'[h]]}

\* A host answers the gateway's ARP request; the answer may be lost.
AnswerArp(h) ==
    /\ h \in asked
    /\ asked' = asked \ {h}
    /\ UNCHANGED mac
    /\ \/ Arrives /\ Tells(h)
       \/ Lost /\ UNCHANGED told
    /\ speaks' = None
    /\ UNCHANGED <<dhcp, arp, routed, knows>>

\* A host changes its network card and announces its new MAC.
Move(h) ==
    /\ mac[h] <= MaxMoves
    /\ mac' = [mac EXCEPT ![h] = @ + 1]
    /\ \/ Arrives /\ Tells(h)
       \/ Lost /\ UNCHANGED told
    /\ speaks' = None
    /\ UNCHANGED <<dhcp, arp, routed, knows, asked>>

Next ==
    \/ DhcpStep
    \/ \E h \in Hosts, a \in Addresses : RecvArpRequest(h, a)
    \/ \E r \in told : RecvArpReply(r) \/ PassesOver(r)
    \/ \E h \in Hosts : \E d \in Hosts \ {h} : RecvIp(h, d)
    \/ \E h \in Hosts : AnswerArp(h) \/ Move(h)

\* A host that has something to send sends it again and again, hosts answer
\* the gateway's requests and the main loop reads what is captured.
Spec ==
    /\ Init /\ [][Next]_vars
    /\ \A h \in Hosts : WF_vars(AnswerArp(h))
    /\ \A h \in Hosts : \A d \in Hosts \ {h} : WF_vars(RecvIp(h, d))
    /\ WF_vars(\E r \in told : RecvArpReply(r))
-----------------------------------------------------------------------------
(***************************************************************************)
(* Properties.                                                             *)
(***************************************************************************)

TypeOK ==
    /\ arp_ip \in Addresses \cup {None}
    /\ arp_table \in [Hosts -> {None} \cup Macs]
    /\ speaks \in Addresses \cup {None}
    /\ routed \subseteq [dest : Hosts, mac : Macs]
    /\ mac \in [Hosts -> Macs]
    /\ knows \subseteq Hosts /\ asked \subseteq Hosts
    /\ told \subseteq [host : Hosts, mac : Macs]
    /\ arp_lost \in 0..MaxArpLost

\* The gateway never sends an ARP frame, request or reply, in the name of an
\* address that is only offered or outdated, nor any once its lease has been
\* released: a frame speaks for the address its server has set aside, some
\* server has committed a lease, and if no other has it is that server.  With
\* one server: the address is leased.  (With two that both commit, the client
\* may go by the wrong one, dhcp_client.h:82.)
SpeaksForItsLease ==
    speaks # None =>
        /\ pc = "running"
        /\ server \in Servers
        /\ binding[server] = speaks
        /\ \E s \in Servers : lease[s] = "committed"

\* A host that has resolved the gateway and goes on sending to another host
\* gets a packet routed to a MAC of that host, unless the gateway is stopped
\* first: a packet that finds no ARP entry is lost, but each asks again, so
\* lost requests and lost replies only delay it.
GetsThrough ==
    \A h \in Hosts : \A d \in Hosts \ {h} :
        h \in knows ~> (\E r \in routed : r.dest = d /\ r.mac \in Macs) \/ pc # "running"
=============================================================================
