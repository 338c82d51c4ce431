--------------------------- MODULE MCDhcpClient ---------------------------
(***************************************************************************)
(* Instances of DhcpReplies for TLC.                                       *)
(***************************************************************************)
EXTENDS DhcpReplies, TLC

\* ACKs for another client of the same servers.
mcForeign ==
    {[type |-> "ack", ip |-> a, server |-> s, ours |-> FALSE] :
        a \in Addresses, s \in Servers}
mcOneForeign == {CHOOSE m \in mcForeign : TRUE}

mcNoForeign == {}

\* Fields whose data look like codes, and one of every size up to a length
\* that makes two of them end about the limit.
mcOctets == {Pad, MessageType, End}
mcFields ==
    [code : {MessageType}, data : {<<2>>, <<5>>, <<6>>}]
    \cup [code : {ServerIdentifier}, data : {<<10, 53, 1, 6>>, <<54, 4, 255, 0>>}]
    \cup [code : {50}, data : UNION {[1..n -> mcOctets] : n \in 0..2}]
    \cup [code : {50}, data : {[k \in 1..n |-> o] : n \in {145, 147, 148, 149}, o \in mcOctets}]
mcFieldLists == UNION {[1..n -> mcFields] : n \in 0..3}

mcBeyond == {0, 1, MessageType, ServerIdentifier, End}
=============================================================================
