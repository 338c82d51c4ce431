----------------------------- MODULE MCNFilter -----------------------------
(***************************************************************************)
(* Instances of NFilter for TLC: addresses of three bits and ports of two  *)
(* digits of base four, some equal to themselves when swapped.             *)
(***************************************************************************)
EXTENDS NFilter

mcFewPorts == {1, 4, 6}
mcAddresses == {[n \in 1..AddressBits |-> b] : b \in {0, 1}}

mcIpOptions == {o \in IpOption : o # None => o.addr \in mcAddresses}
mcSinglePorts == {o \in PortOption : o # None => o.last = None}

\* Masks on both sides, with single ports.
mcMasks == [sip : mcIpOptions, dip : mcIpOptions, sport : mcSinglePorts, dport : {None}]
=============================================================================
