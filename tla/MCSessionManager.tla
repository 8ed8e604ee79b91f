--------------------------- MODULE MCSessionManager ---------------------------
(* Small instances of SessionManager for TLC. *)
EXTENDS SessionManager, TLC

\* Clients, requests and devices are interchangeable.
MCSymmetry == Permutations(Clients) \cup Permutations(Requests) \cup Permutations(Jids)

\* What is left in the fields of a client nothing refers to makes no difference;
\* nor does left, which no action and none of the properties of this run reads.
MCView ==
    LET fields == [c \in Clients |-> IF Fresh(c) THEN <<>> ELSE <<name[c], id[c], c \in overtaken>>]
    IN  <<proc, sessions, fields, online, storeVars, requestVars, bind, restartVars,
          exits, faults, loose>>

\* Bounds: one restart of a pairing and one request to pair by code at a time; one
\* fault or one exit; and three activities at a time, two with a fault, an exit or
\* a request to pair by code.
Bounded ==
    LET pairing == Cardinality({r \in Requests : rpc'[r] = "pair"})
        busy == Cardinality({r \in Requests : rpc'[r] # "idle"})
        restarting == Cardinality({c \in Clients : lpc'[c] # "none"})
        trouble == exits' + faults'
    IN  /\ restarting <= 1
        /\ pairing <= 1
        /\ trouble <= 1
        /\ trouble + pairing > 0 => busy + restarting <= 2
        /\ trouble + pairing < 2
===============================================================================
