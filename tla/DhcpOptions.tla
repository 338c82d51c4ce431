---------------------------- MODULE DhcpOptions ----------------------------
(***************************************************************************)
(* The options of a DHCP reply as dhcp_client::dispatch reads them, octet  *)
(* by octet: a loop over the 300 octets behind the magic cookie that takes *)
(* every octet it stops at for a code with a length behind it.  DhcpClient *)
(* starts from what this finds.                                            *)
(***************************************************************************)
EXTENDS Naturals, SequencesExt

CONSTANT
    Limit            \* where the loop ends, 300

\* Where End sends the loop is behind the limit.
ASSUME OptionsAssumption == Limit \in 1..9999

Octet == 0..255

Pad == 0
MessageType == 53
ServerIdentifier == 54
End == 255

\* The memory from options[0] on: the datagram's octets, then others.
Memory(octets, beyond) ==
    [i \in Nat |-> IF i < Len(octets) THEN octets[i + 1] ELSE beyond]
-----------------------------------------------------------------------------
(***************************************************************************)
(* The parser.                                                             *)
(***************************************************************************)

\* Mistake: End is an option like the others.
EndIsAnOption(options, i) == i + options[i + 1] + 2

\* The next position of the loop.  End only sets i, far behind the limit; the
\* length that is added is read from there.
Following(options, i) ==
    LET at == IF options[i] = End THEN 9999 ELSE i
    IN  at + options[at + 1] + 2

\* The positions at which the loop looks for a code.
Visited(options) ==
    LET from[i \in Nat] ==
            IF i < Limit THEN {i} \cup from[Following(options, i)] ELSE {}
    IN  from[0]

Found(options, code) == {i \in Visited(options) : options[i] = code}

\* dhcp_message_type and server, with what they are before the loop.  A later
\* option overwrites; the lengths of these two are not looked at.
Parsed(options) ==
    [type |->
        LET at == Found(options, MessageType)
        IN  IF at = {} THEN 0 ELSE options[Max(at) + 2],
     server |->
        LET at == Found(options, ServerIdentifier)
        IN  [k \in 1..4 |-> IF at = {} THEN 0 ELSE options[Max(at) + 1 + k]]]
-----------------------------------------------------------------------------
(***************************************************************************)
(* What a server writes: protocols/dhcp.h, fields without padding.         *)
(***************************************************************************)

\* The two options that matter have the sizes RFC 2132 gives them.
Field ==
    {f \in [code : Octet \ {Pad, End}, data : Seq(Octet)] :
        /\ Len(f.data) \in Octet
        /\ f.code = MessageType => Len(f.data) = 1
        /\ f.code = ServerIdentifier => Len(f.data) = 4}

Written(f) == <<f.code, Len(f.data)>> \o f.data

Encoded(fields) == FlattenSeq([n \in 1..Len(fields) |-> Written(fields[n])])

\* The last field of a code, or else what the program starts from.
Told(fields, code, default) ==
    LET ns == {n \in 1..Len(fields) : fields[n].code = code}
    IN  IF ns = {} THEN default ELSE fields[Max(ns)].data

Meant(fields) ==
    [type   |-> Told(fields, MessageType, <<0>>)[1],
     server |-> Told(fields, ServerIdentifier, <<0, 0, 0, 0>>)]

\* A list of fields is read as it was meant, in whatever order they come,
\* whatever octets their data and the memory behind the End option hold: no
\* octet of data is taken for a code, nothing behind End is, and a field that
\* begins within the limit is read to its end.
ReadAsMeant(fields, beyond) ==
    (fields # <<>> => Len(Encoded(Front(fields))) < Limit) =>
        Parsed(Memory(Encoded(fields) \o <<End>>, beyond)) = Meant(fields)
=============================================================================
