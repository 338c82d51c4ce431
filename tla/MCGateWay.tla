----------------------------- MODULE MCGateWay -----------------------------
(***************************************************************************)
(* Instances of GateWay for TLC.                                           *)
(***************************************************************************)
EXTENDS GateWay

\* One offer to another client of the LAN.
mcOneForeign ==
    {[type |-> "offer", ip |-> CHOOSE a \in Addresses : TRUE,
      server |-> CHOOSE s \in Servers : TRUE, ours |-> FALSE]}
=============================================================================
