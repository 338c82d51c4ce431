---------------------------- MODULE DhcpReplies ----------------------------
(***************************************************************************)
(* The client together with its parser: the replies on their way are the   *)
(* messages of DhcpClient, each in any of the forms that a server may      *)
(* write it in, and dispatch begins by reading them.                       *)
(***************************************************************************)
EXTENDS DhcpClient, DhcpOptions

CONSTANTS
    FieldLists,      \* the lists of fields a server writes
    Beyond           \* what is left in memory behind a datagram

ASSUME RepliesAssumption ==
    /\ FieldLists \subseteq Seq(Field)
    /\ Beyond \subseteq Octet

\* DHCPOFFER, DHCPACK and DHCPNAK.
Number == [offer |-> 2, ack |-> 5, nak |-> 6]

\* For each type, whether all lists of fields that mean it are understood.
Understood == [type \in DOMAIN Number |->
    \A fields \in FieldLists, beyond \in Beyond :
        Meant(fields).type = Number[type] => ReadAsMeant(fields, beyond)]
-----------------------------------------------------------------------------
(***************************************************************************)
(* Properties.                                                             *)
(***************************************************************************)

\* Every reply on its way to the client will be read as its server meant it
\* (dhcp_client.h:57), if it is written without Pad options: the type and the
\* server identifier that DhcpClient goes on with are the datagram's last such
\* fields, in whatever order fields come, and never octets of other fields'
\* data or of what is left in memory behind the End option.
OptionsAreRead == \A m \in toClient : Understood[m.type]
=============================================================================
