----------------------------- MODULE SessionQuota -----------------------------
(***************************************************************************)
(* How many sessions a key may own: handleCreateSession of                 *)
(* internal/api/server.go counts the rows of the key, compares with the    *)
(* limit the key had when the request was authenticated, and creates the   *)
(* session after it.                                                       *)
(***************************************************************************)
EXTENDS Integers, FiniteSets

CONSTANTS
    Owners,    \* keys
    Callers,   \* requests
    Names,     \* session names
    Limits,    \* values of max_sessions, 0 for no limit
    Nobody,    \* the owner of a name without a row
    NoCall     \* a request that is not creating a session

Call == [key : Owners, max : Limits, step : {"check", "create"}]

ASSUME QuotaAssumption ==
    /\ Limits \subseteq Nat
    /\ Nobody \notin Owners /\ NoCall \notin Call
    /\ IsFiniteSet(Names) /\ IsFiniteSet(Callers)

VARIABLES
    owner,      \* the owner_key column of gw_sessions
    call,       \* what a request in handleCreateSession is at
    \* history
    most,       \* the largest limit a request of a key came with
    crowd,      \* the most requests of a key there were at once
    uncounted   \* keys without a limit, and those whose count failed

quotaVars == <<owner, call, most, crowd, uncounted>>

QuotaInit ==
    /\ owner = [n \in Names |-> Nobody]
    /\ call = [r \in Callers |-> NoCall]
    /\ most = [k \in Owners |-> 0]
    /\ crowd = [k \in Owners |-> 0]
    /\ uncounted = {}

Mine(k) == {n \in Names : owner[n] = k}
Calling(k) == {r \in Callers : call[r] # NoCall /\ call[r].key = k}
Passed(k) == {r \in Calling(k) : call[r].step = "create"}

Larger(a, b) == IF a < b THEN b ELSE a

\* A request comes with a copy of its key.
Ask(r, k) ==
    /\ call[r] = NoCall
    /\ \E max \in Limits :
        /\ call' = [call EXCEPT ![r] = [key |-> k, max |-> max, step |-> "check"]]
        /\ most' = [most EXCEPT ![k] = Larger(@, max)]
        /\ uncounted' = IF max = 0 THEN uncounted \cup {k} ELSE uncounted
    /\ crowd' = [crowd EXCEPT ![k] = Larger(@, Cardinality(Calling(k)) + 1)]
    /\ UNCHANGED owner

Checked(r) == call' = [call EXCEPT ![r] = [@ EXCEPT !.step = "create"]]
Left(r) == call' = [call EXCEPT ![r] = NoCall]

\* Mutant: one session too many.
CheckQuota_AtMost(r) ==
    /\ call[r] # NoCall /\ call[r].step = "check"
    /\ IF call[r].max = 0 \/ Cardinality(Mine(call[r].key)) <= call[r].max
       THEN Checked(r)
       ELSE Left(r)
    /\ UNCHANGED <<owner, most, crowd, uncounted>>

\* A count that fails lets the request through.
CheckQuota(r) ==
    /\ call[r] # NoCall /\ call[r].step = "check"
    /\ \/ /\ call[r].max = 0 \/ Cardinality(Mine(call[r].key)) < call[r].max
          /\ Checked(r)
          /\ UNCHANGED uncounted
       \/ /\ call[r].max > 0 /\ Cardinality(Mine(call[r].key)) >= call[r].max
          /\ Left(r)
          /\ UNCHANGED uncounted
       \/ /\ call[r].max > 0
          /\ Checked(r)
          /\ uncounted' = uncounted \cup {call[r].key}
    /\ UNCHANGED <<owner, most, crowd>>

\* Manager.Create, which may fail, with the row inserted or not.
CreateRow(r) ==
    /\ call[r] # NoCall /\ call[r].step = "create"
    /\ \/ \E n \in Names : owner[n] = Nobody /\ owner' = [owner EXCEPT ![n] = call[r].key]
       \/ UNCHANGED owner
    /\ Left(r)
    /\ UNCHANGED <<most, crowd, uncounted>>

\* Manager.Remove deletes the row, whoever asked for it.
RemoveRow(n) ==
    /\ owner[n] # Nobody
    /\ owner' = [owner EXCEPT ![n] = Nobody]
    /\ UNCHANGED <<call, most, crowd, uncounted>>

QuotaExit ==
    /\ call' = [r \in Callers |-> NoCall]
    /\ UNCHANGED <<owner, most, crowd, uncounted>>

QuotaStep(r) == CheckQuota(r) \/ CreateRow(r)

QuotaNext ==
    \/ \E r \in Callers : QuotaStep(r) \/ \E k \in Owners : Ask(r, k)
    \/ \E n \in Names : RemoveRow(n)
    \/ QuotaExit

QuotaSpec == QuotaInit /\ [][QuotaNext]_quotaVars

-------------------------------------------------------------------------------
QuotaTypeOK ==
    /\ owner \in [Names -> Owners \cup {Nobody}]
    /\ call \in [Callers -> Call \cup {NoCall}]
    /\ most \in [Owners -> Nat]
    /\ crowd \in [Owners -> Nat]
    /\ uncounted \in SUBSET Owners

(***************************************************************************)
(* Requests that overlap pass the check together; but a key exceeds its    *)
(* limit by no more than the requests it had in progress at once, less     *)
(* one: alone, it keeps it.  Excused are keys without a limit and those    *)
(* whose count failed.                                                     *)
(***************************************************************************)
QuotaHeld ==
    \A k \in Owners \ uncounted :
        LET claimed == Cardinality(Mine(k)) + Cardinality(Passed(k))
        IN  claimed = 0 \/ claimed < most[k] + crowd[k]

\* Nobody calls unnoticed.
CallInv ==
    /\ \A k \in Owners : Cardinality(Calling(k)) <= crowd[k]
    /\ \A r \in Callers : call[r] # NoCall =>
          /\ call[r].max <= most[call[r].key]
          /\ call[r].max = 0 => call[r].key \in uncounted

QuotaInv == QuotaTypeOK /\ CallInv /\ QuotaHeld
===============================================================================
