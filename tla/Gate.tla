--------------------------------- MODULE Gate ---------------------------------
(***************************************************************************)
(* auth of internal/api/server.go, which wraps every handler, over the key *)
(* store and the access log: who a request is taken for, whether it is let *)
(* through, and that it is recorded; and the handler that creates a        *)
(* session, which keeps to the quota of the key.                           *)
(***************************************************************************)
EXTENDS ApiKeys, AccessLog, SessionQuota

CONSTANTS
    HasMaster    \* API_KEY is set

ASSUME GateAssumption == Callers = Entries /\ Owners = Keys

VARIABLES
    status   \* what became of a request

vars == <<keyVars, logVars, quotaVars, status>>

Requests == Entries

Init ==
    /\ KeysInit
    /\ LogInit
    /\ QuotaInit
    /\ status = [r \in Requests |-> "new"]

Becomes(r, s) == status' = [status EXCEPT ![r] = s]

\* hasKeys
AuthRequired == HasMaster \/ \E k \in Keys : cache[k] # NoKey

\* Without any key the gateway is open; the master key passes in any case.
PassMaster(r) ==
    /\ status[r] = "new"
    /\ HasMaster \/ ~AuthRequired
    /\ Becomes(r, "handling")
    /\ UNCHANGED <<keyVars, logVars, quotaVars>>

\* The use is counted before the scope is looked at.  The handler may be the one
\* that creates a session.
PassKey(r, k, v) ==
    /\ status[r] = "new"
    /\ AuthRequired
    /\ Authenticate(k, v)
    /\ \/ Becomes(r, "handling") /\ Ask(r, k)
       \/ (Becomes(r, "handling") \/ Becomes(r, "forbidden")) /\ UNCHANGED quotaVars
    /\ UNCHANGED logVars

\* A missing, unknown or disabled key.
Refuse(r) ==
    /\ status[r] = "new"
    /\ AuthRequired
    /\ Becomes(r, "refused")
    /\ UNCHANGED <<keyVars, logVars, quotaVars>>

\* Over the limit: the answer is written, and building the log entry fails,
\* since Authenticate returned no key.
RejectLimited(r, k, v) ==
    /\ status[r] = "new"
    /\ AuthRequired
    /\ Valid(k, v) /\ Limited(k)
    /\ Becomes(r, "limited")
    /\ UNCHANGED <<keyVars, logVars, quotaVars>>

\* The handler has answered.
Answer(r) ==
    /\ status[r] = "handling" /\ call[r] = NoCall
    /\ Becomes(r, "answered")
    /\ Record(r)
    /\ UNCHANGED <<keyVars, quotaVars>>

\* Requests in progress die with the process.
Exit ==
    /\ KeysExit /\ LogExit /\ QuotaExit
    /\ status' = [r \in Requests |-> IF status[r] = "handling" THEN "cut" ELSE status[r]]

Request(r) ==
    \/ PassMaster(r) \/ Refuse(r) \/ Answer(r)
    \/ \E k \in Keys, v \in 1 .. MaxVersion : PassKey(r, k, v) \/ RejectLimited(r, k, v)

Next ==
    \/ \E r \in Requests : Request(r)
    \/ \E r \in Requests : QuotaStep(r) /\ UNCHANGED <<keyVars, logVars, status>>
    \/ \E n \in Names : RemoveRow(n) /\ UNCHANGED <<keyVars, logVars, status>>
    \/ \E a \in Admins : AdminStep(a) /\ UNCHANGED <<logVars, quotaVars, status>>
    \/ (FlushStep \/ Tick) /\ UNCHANGED <<logVars, quotaVars, status>>
    \/ LogStep /\ UNCHANGED <<keyVars, quotaVars, status>>
    \/ Exit

Spec == Init /\ [][Next]_vars

-------------------------------------------------------------------------------
TypeOK ==
    /\ KeysTypeOK
    /\ LogTypeOK
    /\ QuotaTypeOK
    /\ status \in [Requests -> {"new", "handling", "answered", "forbidden", "refused", "limited", "cut"}]

\* Entries are recorded by requests that are answered: what Record asks for.
RecordedInv == \A r \in recorded : status[r] = "answered"

IInv == KeysInv /\ WindowInv /\ LogInv /\ QuotaInv /\ TypeOK /\ RecordedInv

(***************************************************************************)
(* docs/access-log.md, lines 148 and 165: a request over its limit is      *)
(* recorded.                                                               *)
(***************************************************************************)
DocLimitedLogged ==
    \A r \in Requests : Enabled /\ status[r] = "limited" => r \in recorded
===============================================================================
