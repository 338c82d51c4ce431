--------------------------- MODULE NFilterProofs ---------------------------
(***************************************************************************)
(* Proofs about NFilter, for addresses of any width and ports of any base: *)
(* a filter of whole addresses and single ports accepts exactly the        *)
(* packets it describes, and a mask never refuses an address of its        *)
(* subnet.  The runs check this for addresses of three bits and a few      *)
(* ports.                                                                  *)
(***************************************************************************)
EXTENDS NFilter, TLAPS

(***************************************************************************)
(* Swapping the digits of a port.                                          *)
(***************************************************************************)

Ports == 0..(Octet * Octet - 1)

\* A number is its two digits, and swapping them gives another port.
LEMMA Digits ==
    ASSUME NEW p \in Ports
    PROVE  /\ p % Octet \in 0..(Octet - 1) /\ p \div Octet \in 0..(Octet - 1)
           /\ p = Octet * (p \div Octet) + (p % Octet)
           /\ Htons(p) = (p % Octet) * Octet + (p \div Octet)
<1> USE FilterAssumption
<1>1. Octet \in Nat \ {0} /\ p \in Nat /\ p < Octet * Octet
  BY DEF Ports
<1>2. /\ p % Octet \in 0..(Octet - 1)
      /\ p \div Octet \in Nat
      /\ p = Octet * (p \div Octet) + (p % Octet)
  BY <1>1
<1> DEFINE a == p \div Octet
           b == p % Octet
<1> HIDE DEF a, b
<1>3. a \in Nat /\ b \in 0..(Octet - 1) /\ Octet * a + b < Octet * Octet
  BY <1>1, <1>2 DEF a, b
<1>4. a < Octet
  <2>1. a >= Octet => Octet * a >= Octet * Octet
    BY <1>1, <1>3
  <2>2. Octet * a \in Nat /\ Octet * Octet \in Nat
    BY <1>1, <1>3
  <2> QED
    BY <1>1, <1>3, <2>1, <2>2
<1>5. a % Octet = a
  BY <1>1, <1>3, <1>4
<1>6. Htons(p) = b * Octet + a
  BY <1>5 DEF Htons, a, b
<1> QED
  BY <1>1, <1>2, <1>3, <1>4, <1>6 DEF a, b

\* Two numbers of two digits are equal only digit by digit.
LEMMA SameDigits ==
    ASSUME NEW a \in Nat, NEW b \in 0..(Octet - 1), NEW c \in Nat, NEW d \in 0..(Octet - 1),
           a * Octet + b = c * Octet + d
    PROVE  a = c /\ b = d
<1> USE FilterAssumption
<1>1. Octet \in Nat \ {0} /\ b \in Nat /\ d \in Nat /\ b < Octet /\ d < Octet
  OBVIOUS
<1>2. \A m, n \in Nat : m < n => m * Octet + Octet <= n * Octet
  <2> SUFFICES ASSUME NEW m \in Nat, NEW n \in Nat, m < n
               PROVE  m * Octet + Octet <= n * Octet
    OBVIOUS
  <2>1. (m + 1) * Octet <= n * Octet
    BY <1>1
  <2>2. (m + 1) * Octet = m * Octet + Octet
    BY <1>1
  <2> QED
    BY <2>1, <2>2
<1>3. a * Octet \in Nat /\ c * Octet \in Nat
  BY <1>1
<1>4. ~(a < c)
  BY <1>1, <1>2, <1>3
<1>5. ~(c < a)
  BY <1>1, <1>2, <1>3
<1>6. a = c
  BY <1>4, <1>5
<1> QED
  BY <1>1, <1>3, <1>6

\* htons never maps two ports to one.
LEMMA HtonsInjective ==
    ASSUME NEW p \in Ports, NEW r \in Ports, Htons(p) = Htons(r)
    PROVE  p = r
<1> DEFINE a == p % Octet
           b == p \div Octet
           c == r % Octet
           d == r \div Octet
<1>1. /\ a \in 0..(Octet - 1) /\ b \in 0..(Octet - 1)
      /\ p = Octet * b + a /\ Htons(p) = a * Octet + b
  BY Digits
<1>2. /\ c \in 0..(Octet - 1) /\ d \in 0..(Octet - 1)
      /\ r = Octet * d + c /\ Htons(r) = c * Octet + d
  BY Digits
<1> HIDE DEF a, b, c, d
<1>3. a \in Nat /\ c \in Nat /\ a * Octet + b = c * Octet + d
  BY <1>1, <1>2
<1>4. a = c /\ b = d
  BY <1>1, <1>2, <1>3, SameDigits
<1> QED
  BY <1>1, <1>2, <1>4

\* The filter of a port option that is not given lets every port through.
LEMMA HtonsRange ==
    ASSUME NEW p \in Ports
    PROVE  Htons(p) \in Nat /\ Htons(0) <= Htons(p) /\ Htons(p) <= Htons(Octet * Octet - 1)
<1> USE FilterAssumption
<1> DEFINE a == p % Octet
           b == p \div Octet
<1>1. Octet \in Nat \ {0}
  OBVIOUS
<1>2. a \in 0..(Octet - 1) /\ b \in 0..(Octet - 1) /\ Htons(p) = a * Octet + b
  BY Digits
<1> HIDE DEF a, b
<1>3. /\ a \in Nat /\ b \in Nat /\ a <= Octet - 1 /\ b <= Octet - 1
      /\ a * Octet \in Nat
  BY <1>1, <1>2
<1>4. Htons(0) = 0
  <2>1. 0 % Octet = 0 /\ 0 \div Octet = 0
    BY <1>1
  <2> QED
    BY <1>1, <2>1 DEF Htons
<1>5. Htons(Octet * Octet - 1) = Octet * Octet - 1
  <2> DEFINE t == Octet * Octet - 1
             x == Octet - 1
  <2>1. t \in Ports
    BY <1>1 DEF Ports
  <2>2. /\ t % Octet \in 0..(Octet - 1) /\ t \div Octet \in 0..(Octet - 1)
        /\ t = Octet * (t \div Octet) + (t % Octet)
        /\ Htons(t) = (t % Octet) * Octet + (t \div Octet)
    BY <2>1, Digits
  <2>3. t = x * Octet + x /\ x \in Nat /\ x \in 0..(Octet - 1)
    BY <1>1
  <2>4. t \div Octet = x /\ t % Octet = x
    <3> DEFINE y == t \div Octet
               z == t % Octet
    <3>1. y \in Nat /\ z \in 0..(Octet - 1) /\ y * Octet + z = x * Octet + x
      BY <1>1, <2>2, <2>3
    <3> HIDE DEF x, y, z
    <3>2. y = x /\ z = x
      BY <2>3, <3>1, SameDigits
    <3> QED
      BY <3>2 DEF y, z
  <2> QED
    BY <2>2, <2>3, <2>4
<1>6. a * Octet + b <= Octet * Octet - 1
  <2>1. a * Octet <= (Octet - 1) * Octet
    BY <1>1, <1>3
  <2>2. (Octet - 1) * Octet = Octet * Octet - Octet
    BY <1>1
  <2> QED
    BY <1>1, <1>3, <2>1, <2>2
<1> QED
  BY <1>2, <1>3, <1>4, <1>5, <1>6
-----------------------------------------------------------------------------
(***************************************************************************)
(* What a filter's parts accept.                                           *)
(***************************************************************************)

\* A single port accepts itself alone; no port accepts every one.
LEMMA SinglePort ==
    ASSUME NEW o \in PortOption, NoRange(o), NEW p \in PortNumbers
    PROVE  TestPort(PortFilterOf(o), p) <=> InRange(o, p)
<1>1. p \in Ports
  BY FilterAssumption DEF Ports
<1>2. CASE o = None
  BY <1>1, <1>2, HtonsRange DEF TestPort, PortFilterOf, InRange
<1>3. CASE o # None
  <2>1. o.first \in PortNumbers /\ o.last = None
    BY <1>3 DEF PortOption, NoRange
  <2>2. o.first \in Ports
    BY <2>1, FilterAssumption DEF Ports
  <2>3. Htons(p) \in Nat /\ Htons(o.first) \in Nat
    BY <1>1, <2>2, HtonsRange
  <2>4. TestPort(PortFilterOf(o), p) <=> Htons(p) = Htons(o.first)
    BY <1>3, <2>1, <2>3 DEF TestPort, PortFilterOf
  <2>5. Htons(p) = Htons(o.first) <=> p = o.first
    BY <1>1, <2>2, HtonsInjective
  <2>6. InRange(o, p) <=> p = o.first
    BY <1>1, <1>3, <2>1, <2>2 DEF InRange, Ports
  <2> QED
    BY <2>4, <2>5, <2>6
<1> QED
  BY <1>2, <1>3

\* A whole address accepts itself alone; no address accepts every one.
LEMMA WholeAddress ==
    ASSUME NEW o \in IpOption, NoLen(o), NEW f \in IpFilters(o), NEW a \in Address
    PROVE  TestIp(f, a) <=> InSubnet(o, a)
<1>1. CASE o = None
  BY <1>1 DEF IpFilters, AnyAddress, TestIp, InSubnet
<1>2. CASE o # None
  <2>1. o.len = None
    BY <1>2 DEF NoLen
  <2>2. f = [ip |-> o.addr, bits |-> AddressBits]
    <3>1. MaskBits(None) = {AddressBits}
      BY FilterAssumption DEF MaskBits
    <3> QED
      BY <1>2, <2>1, <3>1 DEF IpFilters
  <2> QED
    BY <1>2, <2>1, <2>2 DEF TestIp, InSubnet
<1> QED
  BY <1>1, <1>2

\* A mask of a length other than zero accepts its whole subnet.
LEMMA MaskedAddress ==
    ASSUME NEW o \in IpOption, LenGiven(o), NEW f \in IpFilters(o), NEW a \in Address,
           InSubnet(o, a)
    PROVE  TestIp(f, a)
<1>1. CASE NoLen(o)
  BY <1>1, WholeAddress
<1>2. CASE ~NoLen(o)
  <2>1. o # None /\ o.len # None /\ o.len \in 0..AddressBits /\ o.len # 0
    BY <1>2 DEF NoLen, LenGiven, IpOption
  <2>2. f = [ip |-> o.addr, bits |-> 1]
    BY <2>1 DEF IpFilters, MaskBits
  <2>3. \A n \in 1..o.len : a[n] = o.addr[n]
    BY <2>1 DEF InSubnet
  <2>4. 1 \in 1..o.len
    BY <2>1, FilterAssumption
  <2>5. a[1] = o.addr[1]
    BY <2>3, <2>4
  <2> QED
    BY <2>2, <2>5 DEF TestIp
<1> QED
  BY <1>1, <1>2

-----------------------------------------------------------------------------
(***************************************************************************)
(* The filter is always the one its last options describe.                 *)
(***************************************************************************)

Configured ==
    given # None =>
        /\ given \in Options
        /\ sip \in IpFilters(given.sip) /\ dip \in IpFilters(given.dip)
        /\ sport = PortFilterOf(given.sport) /\ dport = PortFilterOf(given.dport)

LEMMA AlwaysConfigured == Spec => []Configured
<1>1. Init => Configured
  BY DEF Init, Configured
<1>2. Configured /\ [Next]_vars => Configured'
  <2>1. ASSUME NEW o \in Tried, SetOptions(o)
        PROVE  Configured'
    BY <2>1, TriedAssumption DEF SetOptions, Configured
  <2>2. CASE Configured /\ UNCHANGED vars
    BY <2>2 DEF Configured, vars
  <2> QED
    BY <2>1, <2>2 DEF Next
<1> QED
  BY <1>1, <1>2, PTL DEF Spec

\* A filter that names whole addresses and single ports accepts exactly the
\* packets it describes, at every width: swapping the bytes of a port maps no
\* two ports to one, so comparing swapped ports for equality is comparing
\* ports.
THEOREM ExactFiltersAreExact == Spec => []ExactFilterIsExact
<1>1. Configured => ExactFilterIsExact
  <2> SUFFICES ASSUME Configured, given # None,
                      NoLen(given.sip), NoLen(given.dip),
                      NoRange(given.sport), NoRange(given.dport),
                      NEW p \in Packet
               PROVE  AcceptsPacket(p) <=> Selects(given, p)
    BY DEF ExactFilterIsExact
  <2>1. /\ given.sip \in IpOption /\ given.dip \in IpOption
        /\ given.sport \in PortOption /\ given.dport \in PortOption
        /\ sip \in IpFilters(given.sip) /\ dip \in IpFilters(given.dip)
        /\ sport = PortFilterOf(given.sport) /\ dport = PortFilterOf(given.dport)
    BY DEF Configured, Options
  <2>2. /\ p.saddr \in Address /\ p.daddr \in Address
        /\ p.sport \in PortNumbers /\ p.dport \in PortNumbers
    BY DEF Packet
  <2>3. /\ TestIp(sip, p.saddr) <=> InSubnet(given.sip, p.saddr)
        /\ TestIp(dip, p.daddr) <=> InSubnet(given.dip, p.daddr)
    BY <2>1, <2>2, WholeAddress
  <2>4. /\ TestPort(sport, p.sport) <=> InRange(given.sport, p.sport)
        /\ TestPort(dport, p.dport) <=> InRange(given.dport, p.dport)
    BY <2>1, <2>2, SinglePort
  <2> QED
    BY <2>3, <2>4 DEF AcceptsPacket, Selects
<1> QED
  BY <1>1, AlwaysConfigured, PTL

\* A mask of one bit or more never refuses an address of its subnet, at every
\* width of an address and for every length: the one bit the program compares
\* is a bit of every such mask.
THEOREM SubnetsAreAccepted == Spec => []SubnetIsAccepted
<1>1. Configured => SubnetIsAccepted
  <2> SUFFICES ASSUME Configured, given # None,
                      LenGiven(given.sip), LenGiven(given.dip),
                      NoRange(given.sport), NoRange(given.dport),
                      NEW p \in Packet, Selects(given, p)
               PROVE  AcceptsPacket(p)
    BY DEF SubnetIsAccepted
  <2>1. /\ given.sip \in IpOption /\ given.dip \in IpOption
        /\ given.sport \in PortOption /\ given.dport \in PortOption
        /\ sip \in IpFilters(given.sip) /\ dip \in IpFilters(given.dip)
        /\ sport = PortFilterOf(given.sport) /\ dport = PortFilterOf(given.dport)
    BY DEF Configured, Options
  <2>2. /\ p.saddr \in Address /\ p.daddr \in Address
        /\ p.sport \in PortNumbers /\ p.dport \in PortNumbers
    BY DEF Packet
  <2>3. TestIp(sip, p.saddr) /\ TestIp(dip, p.daddr)
    BY <2>1, <2>2, MaskedAddress DEF Selects
  <2>4. p.proto \in {"tcp", "udp"} => TestPort(sport, p.sport) /\ TestPort(dport, p.dport)
    BY <2>1, <2>2, SinglePort DEF Selects
  <2> QED
    BY <2>3, <2>4 DEF AcceptsPacket
<1> QED
  BY <1>1, AlwaysConfigured, PTL
=============================================================================
