-------------------------------- MODULE MCGate --------------------------------
(* Small instances of Gate for TLC. *)
EXTENDS Gate, TLC

CONSTANTS a1, a2, a3, r1, r2, r3, q1, k1, n1, n2

MCSymmetry == Permutations({a1, a2, a3})

\* The key store and the log share nothing but the requests: the log flushes,
\* answers and purges only in behaviours that create no key.
LogUsed == \/ \E f \in Flushers : hand[f] # {}
           \/ \E q \in Queries : asking[q] # "idle"
           \/ Inserted \cup dropped \cup expired # {}

\* Sessions are created with a key that was made, and that stays as it is: the
\* quota shares nothing with the key store but the request that comes with a key.
QuotaUsed == \E k \in Keys : crowd[k] > 0
Settled == /\ {phase[a] : a \in Admins} \subseteq {"idle", "done"}
           /\ \A k \in Keys : taken[k] = 0

OneSide ==
    /\ born' # {} => ~LogUsed'
    /\ QuotaUsed' => /\ Settled'
                     /\ Cardinality({a \in Admins : phase'[a] # "idle"}) = 1

\* What became of a request matters to nothing once it is not new any more, and,
\* when no property claims anything of the counters of a key, nor do they.
Claimed == ~(Keys \subseteq miscounted \cap unlimited)
Shape(table) == [k \in Keys |-> IF table[k] = NoKey THEN <<>> ELSE <<table[k].ver, table[k].enabled>>]

MCView == <<phase, todo, keyFaults, born, excuses,
            IF Claimed THEN <<rows, cache, load, taken, now, uses>>
            ELSE <<Shape(rows), Shape(cache), [a \in Admins |-> Shape(load[a])]>>,
            IF born = {} THEN <<logVars, status>>
            ELSE IF QuotaUsed THEN <<quotaVars, {r \in Requests : status[r] = "new"}>>
            ELSE <<Cardinality({r \in Requests : status[r] = "new"})>> >>
===============================================================================
