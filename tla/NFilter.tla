------------------------------ MODULE NFilter ------------------------------
(***************************************************************************)
(* The ip:port filter of a named queue, nfilter.h: what set_options builds *)
(* from the text of a filter command, and which packets operator() then    *)
(* accepts.  The text is abstracted to the options it names.               *)
(*                                                                         *)
(* An address is its bits, most significant first.  A mask made of leading *)
(* ones is the number of bits it compares.  A port is a number of two      *)
(* digits of base Octet, and htons swaps them.                             *)
(***************************************************************************)
EXTENDS Naturals, Sequences

CONSTANTS
    AddressBits,   \* 32 in the program
    Octet,         \* 256 in the program
    PortNumbers,   \* the ports commands name and packets carry
    None           \* an option or a part of it that is not given

ASSUME FilterAssumption ==
    /\ AddressBits \in Nat \ {0}
    /\ Octet \in Nat \ {0}
    /\ PortNumbers \subseteq 0..(Octet * Octet - 1)
    /\ None \notin Nat

Address == [1..AddressBits -> {0, 1}]

\* x.x.x.x[/len] and x[-y], as a command names them.
IpOption == {None} \cup [addr : Address, len : {None} \cup 0..AddressBits]
PortOption == {None} \cup [first : PortNumbers, last : {None} \cup PortNumbers]
Options == [sip : IpOption, dip : IpOption, sport : PortOption, dport : PortOption]

\* What the filter reads of an IP packet; its ports are in network order.
Packet == [saddr : Address, daddr : Address, proto : {"tcp", "udp", "other"},
           sport : PortNumbers, dport : PortNumbers]

VARIABLES
    sip, dip, sport, dport,   \* the members of nfilter
    given                     \* history: the last options, None before any

vars == <<sip, dip, sport, dport, given>>

\* ip_filter and port_filter.  Port bounds are kept in network order.
IpFilter == [ip : Address, bits : 0..AddressBits]
PortFilter == [port_lo : Nat, port_hi : Nat]

Htons(p) == ((p % Octet) * Octet) + ((p \div Octet) % Octet)

\* Mistake: the mask is shifted the other way round.
MaskBitsInverted(len) ==
    CASE len = None -> {AddressBits}
      [] len = 0    -> {0, AddressBits}
      [] OTHER      -> {AddressBits - 1}

\* The bits ip_filter's mask compares.  `len && 0x1F' is 1 for every length
\* but 0, so one bit is left of the mask; for 0 the shift is by the width of
\* the type, which is undefined and leaves all of the mask or nothing.
MaskBits(len) ==
    CASE len = None -> {AddressBits}
      [] len = 0    -> {0, AddressBits}
      [] OTHER      -> {1}

\* ip_filter(id, opt) and ip_filter().
AnyAddress == [ip |-> [n \in 1..AddressBits |-> 0], bits |-> 0]
IpFilters(o) ==
    IF o = None THEN {AnyAddress}
    ELSE {[ip |-> o.addr, bits |-> b] : b \in MaskBits(o.len)}

\* port_filter(id, opt): both ends of the range are swapped.
PortFilterOf(o) ==
    IF o = None
    THEN [port_lo |-> Htons(0), port_hi |-> Htons(Octet * Octet - 1)]
    ELSE [port_lo |-> Htons(o.first),
          port_hi |-> Htons(IF o.last = None THEN o.first ELSE o.last)]

\* nfilter().
Init ==
    /\ sip = AnyAddress
    /\ dip = AnyAddress
    /\ sport = [port_lo |-> 0, port_hi |-> Octet * Octet - 1]
    /\ dport = [port_lo |-> 0, port_hi |-> Octet * Octet - 1]
    /\ given = None

\* set_options: an option that is not named accepts everything again.
SetOptions(o) ==
    /\ sport' = PortFilterOf(o.sport)
    /\ dport' = PortFilterOf(o.dport)
    /\ sip' \in IpFilters(o.sip)
    /\ dip' \in IpFilters(o.dip)
    /\ given' = o

\* ip_filter::test and port_filter::test.
TestIp(f, a) == \A n \in 1..f.bits : a[n] = f.ip[n]
TestPort(f, p) == f.port_lo <= Htons(p) /\ Htons(p) <= f.port_hi

\* Mistake: the ports of a TCP packet are not looked at.
AcceptsUdpOnly(p) ==
    /\ TestIp(sip, p.saddr)
    /\ TestIp(dip, p.daddr)
    /\ p.proto = "udp" => TestPort(sport, p.sport) /\ TestPort(dport, p.dport)

\* nfilter::operator(), for an IP packet: ports are compared where there are
\* any.
AcceptsPacket(p) ==
    /\ TestIp(sip, p.saddr)
    /\ TestIp(dip, p.daddr)
    /\ p.proto \in {"tcp", "udp"} => TestPort(sport, p.sport) /\ TestPort(dport, p.dport)

\* The options a run tries.
CONSTANT Tried
ASSUME TriedAssumption == Tried \subseteq Options

Next == \E o \in Tried : SetOptions(o)

Spec == Init /\ [][Next]_vars
-----------------------------------------------------------------------------
(***************************************************************************)
(* What the usage text promises of the options (gate_way.cpp):             *)
(*   [sip x.x.x.x[/mask]] [dip x.x.x.x[/mask]] [sport x[-y]] [dport x[-y]] *)
(***************************************************************************)

InSubnet(o, a) ==
    o = None \/ \A n \in 1..(IF o.len = None THEN AddressBits ELSE o.len) : a[n] = o.addr[n]
InRange(o, p) ==
    o = None \/ (o.first <= p /\ p <= (IF o.last = None THEN o.first ELSE o.last))

Selects(o, p) ==
    /\ InSubnet(o.sip, p.saddr)
    /\ InSubnet(o.dip, p.daddr)
    /\ p.proto \in {"tcp", "udp"} => InRange(o.sport, p.sport) /\ InRange(o.dport, p.dport)

NoLen(o) == o = None \/ o.len = None
NoRange(o) == o = None \/ o.last = None
LenGiven(o) == o = None \/ o.len # 0

\* A filter that names whole addresses and single ports accepts exactly the
\* packets it describes, TCP and UDP alike, although ports are compared with
\* their bytes swapped and only TCP and UDP packets have any.
ExactFilterIsExact ==
    /\ given # None
    /\ NoLen(given.sip) /\ NoLen(given.dip)
    /\ NoRange(given.sport) /\ NoRange(given.dport)
    => \A p \in Packet : AcceptsPacket(p) <=> Selects(given, p)

\* A mask of one bit or more never refuses an address of its subnet: what
\* the mask does wrong is on the side of accepting.
SubnetIsAccepted ==
    /\ given # None
    /\ LenGiven(given.sip) /\ LenGiven(given.dip)
    /\ NoRange(given.sport) /\ NoRange(given.dport)
    => \A p \in Packet : Selects(given, p) => AcceptsPacket(p)

\* The filter accepts no address outside the subnet its masks describe.
MaskSelectsSubnet ==
    given # None /\ given.sport = None /\ given.dport = None =>
        \A p \in Packet : AcceptsPacket(p) => Selects(given, p)
=============================================================================
