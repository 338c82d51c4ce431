-------------------------- MODULE CommandProtocol --------------------------
(***************************************************************************)
(* The remote control of the gateway: vgw_client::request of client.h,     *)
(* which broadcasts a request up to -t times and takes the first datagram  *)
(* that comes back for the answer, and virtual_gw::dispatch and exec of    *)
(* virtual_gw.h, which execute every copy that reaches a gateway of that   *)
(* name and answer each.                                                   *)
(*                                                                         *)
(* A user runs the commands of a script one after the other, each in a     *)
(* client process of its own with a socket of its own on the same port.    *)
(* The commands that act on the queues are told apart by their outcome     *)
(* only; QueueDispatcher models what they do.  The network is external: it *)
(* reorders, loses and repeats datagrams within MaxLost and MaxDuplicated. *)
(***************************************************************************)
EXTENDS Integers, Sequences

CONSTANTS
    Gateways,        \* virtual_gw processes on the LAN
    Wanted,          \* the one whose -name the client gives
    Scripts,         \* the kinds of the commands that may be run, in order
    Tries,           \* -t, 4 by default
    MaxLost,         \* bound: datagrams lost
    MaxDuplicated    \* bound: datagrams delivered twice

\* A request that is accepted, is a queue command that throws, stops the
\* gateway, or is a filter command whose address ip_address rejects.  A
\* discovery is accepted, and so is a text that matches no command at all.
Kinds == {"accepted", "throws", "stop", "bad_filter"}

\* The kinds that end the main loop: ip_address throws a string, which exec
\* does not catch and main does.
Ending == {"stop", "bad_filter"}

ASSUME CommandAssumption ==
    /\ Wanted \in Gateways
    /\ Scripts \subseteq Seq(Kinds)
    /\ Tries \in Nat
    /\ MaxLost \in Nat /\ MaxDuplicated \in Nat

VARIABLES
    script,      \* the commands of this behaviour
    pc,          \* "closed" between two client processes, "send" or "wait"
    tries,       \* the loop counter of request
    socket,      \* replies queued in the client's socket
    results,     \* the exit codes of the clients that have ended
    toGateway,   \* requests on their way to each gateway
    toClient,    \* replies on their way to the client's port
    running,     \* gateways whose main loop has not been stopped
    log,         \* the commands each gateway has executed
    clean,       \* history: the commands that were run when no datagram of
                 \* an earlier one was on its way
    lost, duplicated

\* `cmd' and `try' tell datagrams apart for the model; of the two only the
\* command is in the datagram, and no reply says which request it answers.
Requests == [cmd : 1..Len(script), try : 1..Tries]
Replies == [result : {0, 1}, cmd : 1..Len(script), try : 1..Tries]

client == <<script, pc, tries, socket, results, clean>>
gateway == <<running, log>>
faults == <<lost, duplicated>>
vars == <<client, gateway, toGateway, toClient, faults>>

Init ==
    /\ script \in Scripts
    /\ pc = "closed"
    /\ tries = 0
    /\ socket = <<>>
    /\ results = <<>>
    /\ toGateway = [g \in Gateways |-> {}]
    /\ toClient = {}
    /\ running = Gateways
    /\ log = [g \in Gateways |-> <<>>]
    /\ clean = {}
    /\ lost = 0
    /\ duplicated = 0

Current == Len(results) + 1
Quiet == toClient = {} /\ \A g \in Gateways : toGateway[g] = {}
-----------------------------------------------------------------------------
(***************************************************************************)
(* The client.                                                             *)
(***************************************************************************)

\* The constructor binds the port; the socket starts empty.
Open ==
    /\ pc = "closed"
    /\ Current <= Len(script)
    /\ pc' = "send"
    /\ tries' = 0
    /\ socket' = <<>>
    /\ clean' = IF Quiet THEN clean \cup {Current} ELSE clean
    /\ UNCHANGED <<script, results, gateway, toGateway, toClient, faults>>

\* Mistakes: the loop runs once too often; a try is not counted.
SendRequestOnceMore ==
    /\ pc = "send"
    /\ tries <= Tries
    /\ pc' = "wait"
    /\ tries' = tries + 1
    /\ toGateway' = [g \in Gateways |->
          toGateway[g] \cup {[cmd |-> Current, try |-> tries + 1]}]
    /\ UNCHANGED <<script, socket, results, clean, gateway, toClient, faults>>
SendRequestUncounted ==
    /\ pc = "send"
    /\ tries < Tries
    /\ pc' = "wait"
    /\ toGateway' = [g \in Gateways |->
          toGateway[g] \cup {[cmd |-> Current, try |-> tries + 1]}]
    /\ UNCHANGED <<script, tries, socket, results, clean, gateway, toClient, faults>>

\* One turn of the loop: the same request is broadcast again.
SendRequest ==
    /\ pc = "send"
    /\ tries < Tries
    /\ pc' = "wait"
    /\ tries' = tries + 1
    /\ toGateway' = [g \in Gateways |->
          toGateway[g] \cup {[cmd |-> Current, try |-> tries + 1]}]
    /\ UNCHANGED <<script, socket, results, clean, gateway, toClient, faults>>

\* The process ends with this exit code; its socket closes.
Return(result) ==
    /\ pc' = "closed"
    /\ results' = Append(results, result)
    /\ socket' = <<>>
    /\ UNCHANGED <<script, tries, clean, gateway, toGateway, toClient, faults>>

\* canread is true: the first datagram is the answer, whatever it answers.
Read == pc = "wait" /\ socket # <<>> /\ Return(Head(socket).result)

\* canread times out with nothing to read.
Timeout ==
    /\ pc = "wait"
    /\ socket = <<>>
    /\ pc' = "send"
    /\ UNCHANGED <<script, tries, socket, results, clean, gateway, toGateway, toClient, faults>>

GiveUp == pc = "send" /\ tries >= Tries /\ Return(0)

Client == Open \/ SendRequest \/ Read \/ Timeout \/ GiveUp
-----------------------------------------------------------------------------
(***************************************************************************)
(* The network.                                                            *)
(***************************************************************************)

\* A datagram is delivered and gone, or will be delivered once more.
Consume(before, after, m) ==
    \/ after = before \ {m} /\ UNCHANGED faults
    \/ /\ duplicated < MaxDuplicated
       /\ after = before
       /\ duplicated' = duplicated + 1
       /\ UNCHANGED lost

\* A reply reaches the port: queued if a client has it bound, else gone.
Deliver ==
    /\ \E m \in toClient :
          /\ Consume(toClient, toClient', m)
          /\ socket' = IF pc = "closed" THEN socket ELSE Append(socket, m)
    /\ UNCHANGED <<script, pc, tries, results, clean, gateway, toGateway>>

Lose ==
    /\ lost < MaxLost
    /\ lost' = lost + 1
    /\ \/ \E g \in Gateways : \E m \in toGateway[g] :
            /\ toGateway' = [toGateway EXCEPT ![g] = @ \ {m}]
            /\ UNCHANGED toClient
       \/ \E m \in toClient : toClient' = toClient \ {m} /\ UNCHANGED toGateway
    /\ UNCHANGED <<client, gateway, duplicated>>
-----------------------------------------------------------------------------
(***************************************************************************)
(* The gateways.                                                           *)
(***************************************************************************)

Captures(g, m) ==
    \E rest \in SUBSET toGateway[g] :
        /\ Consume(toGateway[g], rest, m)
        /\ toGateway' = [toGateway EXCEPT ![g] = rest]

\* exec: 1 unless a queue command throws.
Result(kind) == IF kind = "throws" THEN 0 ELSE 1

\* exec and the reply, which an uncaught exception leaves unsent.
Execute(g, m) ==
    /\ log' = [log EXCEPT ![g] = Append(@, m.cmd)]
    /\ running' = IF script[m.cmd] \in Ending THEN running \ {g} ELSE running
    /\ toClient' = IF script[m.cmd] = "bad_filter" THEN toClient
                   ELSE toClient \cup {[result |-> Result(script[m.cmd]),
                                        cmd |-> m.cmd, try |-> m.try]}
    /\ UNCHANGED client

\* Mistakes: the main loop goes on after a stop; the name is not compared.
DispatchStopped(g, m) ==
    /\ g = Wanted
    /\ Captures(g, m)
    /\ Execute(g, m)
DispatchUnnamed(g, m) ==
    /\ g \in running
    /\ Captures(g, m)
    /\ Execute(g, m)

\* dispatch of a request that names this gateway.  After a stop the main loop
\* reads no more.
Dispatch(g, m) ==
    /\ g \in running
    /\ g = Wanted
    /\ Captures(g, m)
    /\ Execute(g, m)

\* A request for another gateway, or to one that has stopped.
Disregard(g, m) ==
    /\ g # Wanted \/ g \notin running
    /\ Captures(g, m)
    /\ UNCHANGED <<client, gateway, toClient>>

Gateway == \E g \in Gateways : \E m \in toGateway[g] : Dispatch(g, m) \/ Disregard(g, m)

Next == Client \/ Deliver \/ Lose \/ Gateway

\* A client that has been run goes on; nothing makes a gateway answer.
Spec == Init /\ [][Next]_vars
             /\ WF_vars(SendRequest) /\ WF_vars(Read) /\ WF_vars(Timeout) /\ WF_vars(GiveUp)
-----------------------------------------------------------------------------
(***************************************************************************)
(* Properties.                                                             *)
(***************************************************************************)

TypeOK ==
    /\ script \in Scripts
    /\ pc \in {"closed", "send", "wait"}
    /\ tries \in 0..Tries
    /\ socket \in Seq(Replies)
    /\ results \in Seq({0, 1})
    /\ clean \subseteq 1..Len(script)
    /\ toGateway \in [Gateways -> SUBSET Requests]
    /\ toClient \subseteq Replies
    /\ running \subseteq Gateways
    /\ log \in [Gateways -> Seq(1..Len(script))]
    /\ lost \in Nat /\ duplicated \in Nat

Executed(g, c) == \E n \in 1..Len(log[g]) : log[g][n] = c

\* A client that reports success has had its command executed without an
\* error by the gateway it named, whatever was lost or repeated and however
\* often it was retried, provided that no datagram of an earlier command
\* was still on its way when it was run: replies carry nothing that says
\* what they answer.
SuccessMeansExecuted ==
    \A c \in clean : c <= Len(results) /\ results[c] = 1 =>
        script[c] \notin {"throws", "bad_filter"} /\ Executed(Wanted, c)

\* A gateway ends only for a command that names it and ends it, and once it
\* has, it executes nothing more: no copy of a request and no later command
\* has any effect after the stop.
NothingAfterStop ==
    \A g \in Gateways :
        /\ g \notin running <=> \E n \in 1..Len(log[g]) : script[log[g][n]] \in Ending
        /\ \A n \in 1..Len(log[g]) : script[log[g][n]] \in Ending => n = Len(log[g])

\* A command that has been run returns, whether or not anything answers.
CommandReturns == pc # "closed" ~> pc = "closed"
=============================================================================
