----------------------------- MODULE EventChannel -----------------------------
(***************************************************************************)
(* What the webhook notifier promises of the events it is given: a bounded *)
(* first-in first-out channel that refuses an event only when it is full,  *)
(* works on a bounded number of events at a time, gives every event it     *)
(* took a result, and breaks this promise only after it was closed.        *)
(* Attempts, retries and workers are not visible here.                     *)
(***************************************************************************)
EXTENDS Naturals, Sequences, FiniteSets

CONSTANTS
    Events,     \* events offered to the channel
    Capacity,   \* events that can wait
    Width       \* events in progress at a time

VARIABLES
    open,       \* FALSE once the channel was told to stop
    waiting,    \* events accepted and not started
    sending,    \* events in progress
    result      \* what became of an event

vars == <<open, waiting, sending, result>>

Init ==
    /\ open = TRUE
    /\ waiting = <<>>
    /\ sending = {}
    /\ result = [e \in Events |-> "none"]

Accept(e) ==
    /\ result[e] = "none"
    /\ Len(waiting) < Capacity
    /\ waiting' = Append(waiting, e)
    /\ result' = [result EXCEPT ![e] = "accepted"]
    /\ UNCHANGED <<open, sending>>

Refuse(e) ==
    /\ result[e] = "none"
    /\ Len(waiting) = Capacity
    /\ result' = [result EXCEPT ![e] = "dropped"]
    /\ UNCHANGED <<open, waiting, sending>>

StartFirst ==
    /\ waiting # <<>>
    /\ Cardinality(sending) < Width
    /\ sending' = sending \cup {Head(waiting)}
    /\ waiting' = Tail(waiting)
    /\ UNCHANGED <<open, result>>

Settle(e) ==
    /\ e \in sending
    /\ sending' = sending \ {e}
    /\ \E r \in {"delivered", "exhausted", "abandoned"} :
        /\ r = "abandoned" => ~open
        /\ result' = [result EXCEPT ![e] = r]
    /\ UNCHANGED <<open, waiting>>

Close ==
    /\ open
    /\ open' = FALSE
    /\ UNCHANGED <<waiting, sending, result>>

Next ==
    \/ \E e \in Events : Accept(e) \/ Refuse(e) \/ Settle(e)
    \/ StartFirst
    \/ Close

\* An open channel starts what waits, and whatever was started is settled.
Fairness ==
    /\ WF_vars(open /\ StartFirst)
    /\ \A e \in Events : WF_vars(Settle(e))

Safety == Init /\ [][Next]_vars

Spec == Safety /\ Fairness
===============================================================================
