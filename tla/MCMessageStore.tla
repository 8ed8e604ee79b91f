---------------------------- MODULE MCMessageStore ----------------------------
(* Small instances of MessageStore for TLC. *)
EXTENDS MessageStore, TLC

CONSTANTS m1, m2, c1, p1, d1, d2, s1, s2

MCChatOf == [m \in Messages |-> c1]

MCSymmetry == Permutations({s1, s2}) \cup Permutations({d1, d2})

\* Messages share nothing but the cleaners, which treat each alone: one of them
\* is recorded at a time, and the retention, when it runs, is over for it.  What
\* events do to a message depends on no archive request but by whether they are
\* recorded: one request is enough where more than one event is used.
Touched(m) == Stored(m) \/ Writing(m) \/ m \in files \cup early \cup astray \cup torn

OneMessage ==
    /\ ~(Touched(m1)' /\ Touched(m2)')
    /\ clean'[Purger] # "idle" => doomed'[Purger] = Messages
    /\ events' > 1 => Cardinality({s \in Switches : switch'[s] # "new"}) <= 1

\* Nothing reads what a request wanted once it has returned.
Pending == [s \in Switches |-> IF switch[s] = "done" THEN <<>> ELSE <<switch[s], wanted[s], s \in crossed>>]

MCView == <<data, table, opted, Pending, settled, cleaning, recording, receiving, events, faults, early, astray, torn>>
===============================================================================
