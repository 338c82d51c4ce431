----------------------------- MODULE LossyFifo -----------------------------
(***************************************************************************)
(* What the gateway promises of every named queue: a queue may refuse a    *)
(* packet, lose packets from its front and be erased with all it holds,    *)
(* but what it delivers it delivers once and in order of arrival, and it   *)
(* takes nothing out of its middle or its end.                             *)
(***************************************************************************)
EXTENDS Integers, Sequences

CONSTANT Names

VARIABLES
    latest,     \* packets are numbered 1, 2, ... as they arrive
    waiting,    \* the packets every queue holds, oldest first
    delivered   \* the last packet each queue has delivered, 0 for none

Init ==
    /\ latest = 0
    /\ waiting = [k \in Names |-> <<>>]
    /\ delivered = [k \in Names |-> 0]

\* A packet arrives and at most one queue takes it, at its end.
Arrive ==
    /\ latest' = latest + 1
    /\ \/ \E k \in Names : waiting' = [waiting EXCEPT ![k] = Append(@, latest')]
       \/ UNCHANGED waiting
    /\ UNCHANGED delivered

Lose(k) ==
    /\ waiting[k] # <<>>
    /\ waiting' = [waiting EXCEPT ![k] = Tail(@)]
    /\ UNCHANGED <<latest, delivered>>

Deliver(k) ==
    /\ waiting[k] # <<>>
    /\ delivered' = [delivered EXCEPT ![k] = Head(waiting[k])]
    /\ waiting' = [waiting EXCEPT ![k] = Tail(@)]
    /\ UNCHANGED latest

\* The queue is erased; a queue of that name starts afresh.
Erase(k) ==
    /\ waiting' = [waiting EXCEPT ![k] = <<>>]
    /\ delivered' = [delivered EXCEPT ![k] = 0]
    /\ UNCHANGED latest

Next == Arrive \/ \E k \in Names : Lose(k) \/ Deliver(k) \/ Erase(k)

vars == <<latest, waiting, delivered>>
Spec == Init /\ [][Next]_vars
=============================================================================
