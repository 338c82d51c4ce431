------------------------- MODULE MCCommandProtocol -------------------------
(***************************************************************************)
(* Instances of CommandProtocol for TLC.                                   *)
(***************************************************************************)
EXTENDS CommandProtocol

mcScripts ==
    {<<"throws", "stop">>, <<"accepted", "stop">>, <<"bad_filter", "stop">>}
=============================================================================
