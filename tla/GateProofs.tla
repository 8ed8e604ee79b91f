------------------------------ MODULE GateProofs ------------------------------
(***************************************************************************)
(* Requests, key store, access log and quota together: the composition     *)
(* does not leave the specifications of its parts, so that what is proved  *)
(* of them holds of it; the quota holds for any number of keys, requests   *)
(* and names; and the log has answered requests only.                      *)
(***************************************************************************)
EXTENDS Gate, ApiKeysProofs, AccessLogProofs, FiniteSetTheorems

LEMMA GateSteps ==
    ASSUME [Next]_vars
    PROVE  [KeysNext]_keyVars /\ [LogNext]_logVars /\ [QuotaNext]_quotaVars
<1>1. CASE \E r \in Requests : Request(r)
  <2>1. PICK r \in Requests : Request(r)
      BY <1>1
  <2>2. CASE PassMaster(r) \/ Refuse(r)
      BY <2>2 DEF PassMaster, Refuse
  <2>3. CASE Answer(r)
      BY <2>3 DEF Answer, LogNext, Requests
  <2>4. CASE \E k \in Keys, v \in 1 .. MaxVersion : PassKey(r, k, v)
    <3>1. PICK k \in Keys, v \in 1 .. MaxVersion : PassKey(r, k, v)
        BY <2>4
    <3>2. KeysNext /\ UNCHANGED logVars
        BY <3>1 DEF PassKey, KeysNext
    <3>3. Ask(r, k) => QuotaNext
        BY GateAssumption DEF QuotaNext, Requests
    <3> QED
        BY <3>1, <3>2, <3>3 DEF PassKey
  <2>5. CASE \E k \in Keys, v \in 1 .. MaxVersion : RejectLimited(r, k, v)
      BY <2>5 DEF RejectLimited
  <2> QED
      BY <2>1, <2>2, <2>3, <2>4, <2>5 DEF Request
<1>2. CASE \E r \in Requests : QuotaStep(r) /\ UNCHANGED <<keyVars, logVars, status>>
    BY <1>2, GateAssumption DEF QuotaNext, Requests
<1>3. CASE \E n \in Names : RemoveRow(n) /\ UNCHANGED <<keyVars, logVars, status>>
    BY <1>3 DEF QuotaNext
<1>4. CASE \E a \in Admins : AdminStep(a) /\ UNCHANGED <<logVars, quotaVars, status>>
    BY <1>4 DEF KeysNext
<1>5. CASE (FlushStep \/ Tick) /\ UNCHANGED <<logVars, quotaVars, status>>
    BY <1>5 DEF KeysNext
<1>6. CASE LogStep /\ UNCHANGED <<keyVars, quotaVars, status>>
    BY <1>6 DEF LogNext
<1>7. CASE Exit
    BY <1>7 DEF Exit, KeysNext, LogNext, QuotaNext
<1>8. CASE UNCHANGED vars
    BY <1>8 DEF vars
<1> QED
    BY <1>1, <1>2, <1>3, <1>4, <1>5, <1>6, <1>7, <1>8 DEF Next

\* Every behaviour of the gate is one of the key store, of the log, and of the quota.
THEOREM Composition == Spec => KeysSpec /\ LogSpec /\ QuotaSpec
<1>1. Init => KeysInit /\ LogInit /\ QuotaInit
    BY DEF Init
<1>2. [Next]_vars => [KeysNext]_keyVars /\ [LogNext]_logVars /\ [QuotaNext]_quotaVars
    BY GateSteps
<1> QED
    BY <1>1, <1>2, PTL DEF Spec, KeysSpec, LogSpec, QuotaSpec

-------------------------------------------------------------------------------
(***************************************************************************)
(* The quota.  A request between its check and its row is among those of   *)
(* its key, so that a check that passes leaves room for all but itself.    *)
(***************************************************************************)

\* The sets that are counted are finite.
LEMMA CountsAreNatural ==
    ASSUME NEW k \in Owners
    PROVE  /\ IsFiniteSet(Mine(k)) /\ Cardinality(Mine(k)) \in Nat
           /\ IsFiniteSet(Calling(k)) /\ Cardinality(Calling(k)) \in Nat
           /\ IsFiniteSet(Passed(k)) /\ Cardinality(Passed(k)) \in Nat
<1>1. IsFiniteSet(Mine(k))
    BY QuotaAssumption, FS_Subset DEF QuotaAssumption, Mine
<1>2. IsFiniteSet(Calling(k))
    BY QuotaAssumption, FS_Subset DEF QuotaAssumption, Calling
<1>3. IsFiniteSet(Passed(k))
    BY <1>2, FS_Subset DEF Passed
<1> QED
    BY <1>1, <1>2, <1>3, FS_CardinalityType

\* What QuotaHeld says of one key.
Held(k) == \/ Cardinality(Mine(k)) + Cardinality(Passed(k)) = 0
           \/ Cardinality(Mine(k)) + Cardinality(Passed(k)) < most[k] + crowd[k]

\* Fewer rows and fewer requests past the check keep what is held.
LEMMA HeldShrinks ==
    ASSUME QuotaTypeOK, QuotaTypeOK', NEW k \in Owners, Held(k),
           Mine(k)' \subseteq Mine(k), Passed(k)' \subseteq Passed(k),
           most[k] <= most'[k], crowd[k] <= crowd'[k]
    PROVE  Held(k)'
<1> DEFINE m == Cardinality(Mine(k)) n == Cardinality(Passed(k))
           mm == Cardinality(Mine(k)') nn == Cardinality(Passed(k)')
<1>1. m \in Nat /\ n \in Nat
    BY CountsAreNatural
<1>2. mm \in Nat /\ mm <= m
    BY CountsAreNatural, FS_Subset, FS_CardinalityType
<1>3. nn \in Nat /\ nn <= n
    BY CountsAreNatural, FS_Subset, FS_CardinalityType
<1>4. /\ most[k] \in Nat /\ most'[k] \in Nat
      /\ crowd[k] \in Nat /\ crowd'[k] \in Nat
    BY DEF QuotaTypeOK
<1>5. m + n = 0 \/ m + n < most[k] + crowd[k]
    BY DEF Held
<1> HIDE DEF m, n, mm, nn
<1>6. mm + nn = 0 \/ mm + nn < most'[k] + crowd'[k]
    BY <1>1, <1>2, <1>3, <1>4, <1>5
<1> QED
    BY <1>6 DEF Held, mm, nn

\* A step that adds no request and lets none through keeps the invariant.
LEMMA QuietStep ==
    ASSUME QuotaInv, QuotaTypeOK', UNCHANGED <<most, crowd>>, uncounted \subseteq uncounted',
           \A r \in Callers : call'[r] = call[r] \/ call'[r] = NoCall,
           \A k \in Owners : Mine(k)' \subseteq Mine(k)
    PROVE  QuotaInv'
<1>t. QuotaTypeOK /\ CallInv /\ QuotaHeld
    BY DEF QuotaInv
<1>1. ASSUME NEW k \in Owners
      PROVE  Calling(k)' \subseteq Calling(k) /\ Passed(k)' \subseteq Passed(k)
    BY DEF Calling, Passed
<1>2. ASSUME NEW k \in Owners PROVE most[k] <= most'[k] /\ crowd[k] <= crowd'[k]
    BY <1>t DEF QuotaTypeOK
<1>3. ASSUME NEW k \in Owners PROVE Cardinality(Calling(k)') <= crowd'[k]
  <2>1. Cardinality(Calling(k)') <= Cardinality(Calling(k))
      BY <1>1, CountsAreNatural, FS_Subset
  <2>2. Cardinality(Calling(k)) <= crowd[k] /\ crowd'[k] = crowd[k]
      BY <1>t DEF CallInv
  <2>3. Cardinality(Calling(k)') \in Nat /\ Cardinality(Calling(k)) \in Nat /\ crowd[k] \in Nat
      BY <1>1, <1>t, CountsAreNatural, FS_Subset, FS_CardinalityType DEF QuotaTypeOK
  <2> QED
      BY <2>1, <2>2, <2>3
<1>4. CallInv'
    BY <1>t, <1>3 DEF CallInv
<1>5. ASSUME NEW k \in Owners \ uncounted' PROVE Held(k)'
  <2>1. Held(k)
      BY <1>t DEF QuotaHeld, Held
  <2> QED
      BY <1>t, <1>1, <1>2, <2>1, HeldShrinks
<1>6. QuotaHeld'
    BY <1>5 DEF QuotaHeld, Held
<1> QED
    BY <1>4, <1>6 DEF QuotaInv

LEMMA QuotaInitInv == QuotaInit => QuotaInv
<1> SUFFICES ASSUME QuotaInit PROVE QuotaInv
    OBVIOUS
<1>1. QuotaTypeOK
    BY DEF QuotaInit, QuotaTypeOK
<1>2. ASSUME NEW k \in Owners PROVE Mine(k) = {} /\ Calling(k) = {} /\ Passed(k) = {}
    BY QuotaAssumption DEF QuotaInit, QuotaAssumption, Mine, Calling, Passed
<1>3. CallInv
    BY <1>2, FS_EmptySet DEF QuotaInit, CallInv
<1>4. QuotaHeld
    BY <1>2, FS_EmptySet DEF QuotaHeld
<1> QED
    BY <1>1, <1>3, <1>4 DEF QuotaInv

LEMMA AskInv ==
    ASSUME QuotaInv, NEW r \in Callers, NEW k \in Owners, Ask(r, k)
    PROVE  QuotaInv'
<1>t. QuotaTypeOK /\ CallInv /\ QuotaHeld
    BY DEF QuotaInv
<1>1. PICK max \in Limits :
        /\ call' = [call EXCEPT ![r] = [key |-> k, max |-> max, step |-> "check"]]
        /\ most' = [most EXCEPT ![k] = Larger(@, max)]
        /\ uncounted' = IF max = 0 THEN uncounted \cup {k} ELSE uncounted
    BY DEF Ask
<1>2. crowd' = [crowd EXCEPT ![k] = Larger(@, Cardinality(Calling(k)) + 1)] /\ owner' = owner
      /\ call[r] = NoCall
    BY DEF Ask
<1>3. max \in Nat /\ [key |-> k, max |-> max, step |-> "check"] \in Call
    BY <1>1, QuotaAssumption DEF QuotaAssumption, Call
<1>4. Cardinality(Calling(k)) \in Nat
    BY CountsAreNatural
<1>5. QuotaTypeOK'
    BY <1>t, <1>1, <1>2, <1>3, <1>4 DEF QuotaTypeOK, Larger
<1>6. ASSUME NEW j \in Owners
      PROVE  /\ most[j] <= most'[j] /\ crowd[j] <= crowd'[j]
             /\ most'[k] >= max /\ crowd'[k] >= Cardinality(Calling(k)) + 1
    BY <1>t, <1>1, <1>2, <1>3, <1>4 DEF QuotaTypeOK, Larger
<1>7. ASSUME NEW j \in Owners
      PROVE  /\ Passed(j)' \subseteq Passed(j) /\ Mine(j)' = Mine(j)
             /\ Calling(j)' \subseteq IF j = k THEN Calling(k) \cup {r} ELSE Calling(j)
  <2>1. \A q \in Callers : q # r => call'[q] = call[q]
      BY <1>t, <1>1 DEF QuotaTypeOK
  <2>2. call'[r] = [key |-> k, max |-> max, step |-> "check"]
      BY <1>t, <1>1 DEF QuotaTypeOK
  <2>3. call'[r].key = k /\ call'[r].step # "create"
      BY <2>2
  <2> QED
      BY <1>2, <2>1, <2>3 DEF Passed, Calling, Mine
<1>8. ASSUME NEW j \in Owners PROVE Cardinality(Calling(j)') <= crowd'[j]
  <2> DEFINE n == Cardinality(Calling(j)) nn == Cardinality(Calling(j)')
  <2>1. n \in Nat /\ n <= crowd[j]
      BY <1>t, CountsAreNatural DEF CallInv
  <2>2. crowd[j] \in Nat /\ crowd'[j] \in Nat
      BY <1>t, <1>5 DEF QuotaTypeOK
  <2>3. CASE j = k
    <3>0. IsFiniteSet(Calling(k)) /\ n = Cardinality(Calling(k))
        BY <2>3, CountsAreNatural
    <3>1. IsFiniteSet(Calling(k) \cup {r}) /\ Cardinality(Calling(k) \cup {r}) <= n + 1
      <4>1. Cardinality(Calling(k) \cup {r}) = IF r \in Calling(k) THEN n ELSE n + 1
          BY <3>0, FS_AddElement
      <4> HIDE DEF n
      <4> QED
          BY <2>1, <3>0, <4>1, FS_AddElement
    <3>2. Calling(j)' \in SUBSET (Calling(k) \cup {r})
        BY <1>7, <2>3
    <3>3. nn <= Cardinality(Calling(k) \cup {r}) /\ IsFiniteSet(Calling(j)')
        BY <3>1, <3>2, FS_Subset
    <3>4. nn \in Nat /\ Cardinality(Calling(k) \cup {r}) \in Nat
        BY <3>1, <3>3, FS_CardinalityType
    <3>5. n + 1 <= crowd'[j]
        BY <1>6, <2>2, <2>3, <2>1
    <3> HIDE DEF n, nn
    <3> QED
        BY <2>1, <2>2, <3>1, <3>3, <3>4, <3>5 DEF nn
  <2>4. CASE j # k
    <3>1. IsFiniteSet(Calling(j)') /\ nn <= n
        BY <1>7, <2>4, CountsAreNatural, FS_Subset
    <3>2. nn \in Nat /\ crowd[j] <= crowd'[j]
        BY <3>1, <1>6, FS_CardinalityType
    <3> QED
        BY <2>1, <2>2, <3>1, <3>2
  <2> QED
      BY <2>3, <2>4
<1>9. ASSUME NEW q \in Callers, call'[q] # NoCall
      PROVE  /\ call'[q].max <= most'[call'[q].key]
             /\ call'[q].max = 0 => call'[q].key \in uncounted'
  <2>1. CASE q = r
    <3>1. call'[q] = [key |-> k, max |-> max, step |-> "check"]
        BY <1>t, <1>1, <2>1 DEF QuotaTypeOK
    <3>2. call'[q].key = k /\ call'[q].max = max
        BY <3>1
    <3> QED
        BY <1>1, <1>3, <1>5, <1>6, <3>2 DEF QuotaTypeOK
  <2>2. CASE q # r
    <3>1. call'[q] = call[q] /\ call[q] \in Call
        BY <1>t, <1>1, <1>9, <2>2 DEF QuotaTypeOK
    <3>2. call[q].max \in Nat /\ call[q].key \in Owners
        BY <3>1, QuotaAssumption DEF QuotaAssumption, Call
    <3>3. most[call[q].key] \in Nat /\ most'[call[q].key] \in Nat
        BY <1>t, <1>5, <3>2 DEF QuotaTypeOK
    <3>4. call[q].max <= most[call[q].key] /\ most[call[q].key] <= most'[call[q].key]
        BY <1>t, <1>6, <1>9, <3>1, <3>2 DEF CallInv
    <3>5. call[q].max = 0 => call[q].key \in uncounted'
        BY <1>t, <1>1, <1>9, <3>1 DEF CallInv
    <3> QED
        BY <3>1, <3>2, <3>3, <3>4, <3>5
  <2> QED
      BY <2>1, <2>2
<1>10. ASSUME NEW j \in Owners \ uncounted' PROVE Held(j)'
  <2>1. Held(j)
      BY <1>t, <1>1 DEF QuotaHeld, Held
  <2> QED
      BY <1>t, <1>5, <1>6, <1>7, <2>1, HeldShrinks
<1> QED
    BY <1>5, <1>8, <1>9, <1>10 DEF QuotaInv, CallInv, QuotaHeld, Held

\* A check that passes: the request takes the place of one of its key.
LEMMA CheckedInv ==
    ASSUME QuotaInv, NEW r \in Callers, call[r] # NoCall, call[r].step = "check", Checked(r),
           UNCHANGED <<owner, most, crowd>>, uncounted \subseteq uncounted', uncounted' \subseteq Owners,
           call[r].key \in uncounted' \/ Cardinality(Mine(call[r].key)) < call[r].max
    PROVE  QuotaInv'
<1>t. QuotaTypeOK /\ CallInv /\ QuotaHeld
    BY DEF QuotaInv
<1> DEFINE k == call[r].key
<1>0. call[r] \in Call /\ k \in Owners /\ call[r].max \in Nat
    BY <1>t, QuotaAssumption DEF QuotaTypeOK, QuotaAssumption, Call
<1>1. call' = [call EXCEPT ![r] = [call[r] EXCEPT !.step = "create"]]
    BY DEF Checked
<1>2. [call[r] EXCEPT !.step = "create"] \in Call
    BY <1>0 DEF Call
<1>3. QuotaTypeOK'
    BY <1>t, <1>1, <1>2 DEF QuotaTypeOK
<1>4. \A q \in Callers : q # r => call'[q] = call[q]
    BY <1>t, <1>1 DEF QuotaTypeOK
<1>5. call'[r] = [call[r] EXCEPT !.step = "create"]
    BY <1>t, <1>1 DEF QuotaTypeOK
<1>6. /\ call'[r].key = k /\ call'[r].max = call[r].max /\ call'[r].step = "create"
      /\ call'[r] # NoCall
    BY <1>0, <1>2, <1>5, QuotaAssumption DEF Call, QuotaAssumption
<1>7. ASSUME NEW j \in Owners
      PROVE  /\ Mine(j)' = Mine(j) /\ Calling(j)' = Calling(j)
             /\ Passed(j)' = IF j = k THEN Passed(j) \cup {r} ELSE Passed(j)
  <2>1. Calling(j)' = Calling(j)
      BY <1>4, <1>6 DEF Calling
  <2>2. r \in Calling(j) <=> j = k
      BY DEF Calling
  <2>3. Mine(j)' = Mine(j)
      BY DEF Mine
  <2>4. ASSUME NEW q \in Callers, q # r PROVE q \in Passed(j)' <=> q \in Passed(j)
      BY <1>4, <2>1, <2>4 DEF Passed
  <2>5. r \in Passed(j)' <=> j = k
      BY <1>6, <2>1, <2>2 DEF Passed
  <2>6. Passed(j) \subseteq Callers /\ Passed(j)' \subseteq Callers /\ (r \in Passed(j) => j = k)
      BY <2>2 DEF Passed, Calling
  <2> HIDE DEF k
  <2>7. Passed(j)' = IF j = k THEN Passed(j) \cup {r} ELSE Passed(j)
      BY <2>4, <2>5, <2>6
  <2> QED
      BY <2>1, <2>3, <2>7
<1>8. CallInv'
  <2>1. most' = most /\ crowd' = crowd
      OBVIOUS
  <2>2. \A j \in Owners : Cardinality(Calling(j)') <= crowd'[j]
      BY <1>t, <1>7, <2>1 DEF CallInv
  <2> QED
      BY <1>t, <1>4, <1>6, <2>1, <2>2 DEF CallInv
<1>9. ASSUME NEW j \in Owners \ uncounted' PROVE Held(j)'
  <2>1. Held(j) /\ most'[j] = most[j] /\ crowd'[j] = crowd[j]
      BY <1>t DEF QuotaHeld, Held
  <2>2. CASE j # k
      BY <1>7, <2>1, <2>2 DEF Held
  <2>3. CASE j = k
    <3> DEFINE m == Cardinality(Mine(k)) n == Cardinality(Passed(k)) c == Cardinality(Calling(k))
               nn == Cardinality(Passed(k) \cup {r})
    <3>1. m \in Nat /\ n \in Nat /\ c \in Nat /\ c <= crowd[k]
        BY <1>0, <1>t, CountsAreNatural DEF CallInv
    <3>2. m < call[r].max /\ call[r].max <= most[k]
        BY <1>t, <2>3 DEF CallInv
    <3>3. Passed(k) \cup {r} \in SUBSET Calling(k)
        BY DEF Passed, Calling
    <3>4. nn \in Nat /\ nn <= c
        BY <1>0, <3>3, CountsAreNatural, FS_Subset, FS_CardinalityType
    <3>5. most[k] \in Nat /\ crowd[k] \in Nat
        BY <1>0, <1>t DEF QuotaTypeOK
    <3> HIDE DEF m, n, c, nn
    <3>6. m + nn < most[k] + crowd[k]
        BY <1>0, <3>1, <3>2, <3>4, <3>5
    <3> QED
        BY <1>0, <1>7, <2>1, <2>3, <3>6 DEF Held, m, nn
  <2> QED
      BY <2>2, <2>3
<1> QED
    BY <1>3, <1>8, <1>9 DEF QuotaInv, QuotaHeld, Held

LEMMA CheckQuotaInv ==
    ASSUME QuotaInv, NEW r \in Callers, CheckQuota(r)
    PROVE  QuotaInv'
<1>t. QuotaTypeOK /\ CallInv
    BY DEF QuotaInv
<1>0. /\ call[r] # NoCall /\ call[r].step = "check" /\ UNCHANGED <<owner, most, crowd>>
      /\ uncounted \subseteq uncounted'
      /\ call[r] \in Call /\ call[r].key \in Owners /\ call[r].max \in Nat
    BY <1>t, QuotaAssumption DEF CheckQuota, QuotaTypeOK, QuotaAssumption, Call
<1>1. uncounted' \subseteq Owners
    BY <1>t, <1>0 DEF CheckQuota, QuotaTypeOK
<1>2. CASE Checked(r)
  <2>1. call[r].key \in uncounted' \/ Cardinality(Mine(call[r].key)) < call[r].max
    <3>1. CASE call[r].max = 0
        BY <1>t, <1>0, <3>1 DEF CallInv
    <3>2. CASE call[r].max # 0 /\ uncounted' = uncounted \cup {call[r].key}
        BY <3>2
    <3>3. CASE call[r].max # 0 /\ Cardinality(Mine(call[r].key)) < call[r].max
        BY <3>3
    <3>4. ~Left(r)
      <4>1. call'[r] # NoCall
        <5>1. call' = [call EXCEPT ![r] = [call[r] EXCEPT !.step = "create"]]
            BY <1>2 DEF Checked
        <5>2. [call[r] EXCEPT !.step = "create"] \in Call
            BY <1>0 DEF Call
        <5> QED
            BY <1>t, <5>1, <5>2, QuotaAssumption DEF QuotaTypeOK, QuotaAssumption
      <4> QED
          BY <1>t, <4>1 DEF Left, QuotaTypeOK
    <3> QED
        BY <3>1, <3>2, <3>3, <3>4 DEF CheckQuota
  <2> QED
      BY <1>0, <1>1, <1>2, <2>1, CheckedInv
<1>3. CASE Left(r)
  <2>1. QuotaTypeOK'
      BY <1>t, <1>0, <1>1, <1>3 DEF Left, QuotaTypeOK
  <2>2. \A q \in Callers : call'[q] = call[q] \/ call'[q] = NoCall
      BY <1>t, <1>3 DEF Left, QuotaTypeOK
  <2>3. \A k \in Owners : Mine(k)' \subseteq Mine(k)
      BY <1>0 DEF Mine
  <2> QED
      BY <1>0, <2>1, <2>2, <2>3, QuietStep
<1> QED
    BY <1>2, <1>3 DEF CheckQuota

LEMMA CreateRowInv ==
    ASSUME QuotaInv, NEW r \in Callers, CreateRow(r)
    PROVE  QuotaInv'
<1>t. QuotaTypeOK /\ CallInv /\ QuotaHeld
    BY DEF QuotaInv
<1>0. /\ call[r] # NoCall /\ call[r].step = "create" /\ UNCHANGED <<most, crowd, uncounted>>
      /\ call' = [call EXCEPT ![r] = NoCall]
    BY DEF CreateRow, Left
<1>1. PICK k \in Owners : call[r] \in Call /\ k = call[r].key
    BY <1>t, <1>0 DEF QuotaTypeOK, Call
<1>2. call'[r] = NoCall /\ \A q \in Callers : q # r => call'[q] = call[q]
    BY <1>t, <1>0 DEF QuotaTypeOK
<1>3. CASE UNCHANGED owner
  <2>1. QuotaTypeOK'
      BY <1>t, <1>0, <1>3 DEF QuotaTypeOK
  <2>2. \A j \in Owners : Mine(j)' \subseteq Mine(j)
      BY <1>3 DEF Mine
  <2> QED
      BY <1>0, <1>2, <2>1, <2>2, QuietStep
<1>4. CASE \E n \in Names : owner[n] = Nobody /\ owner' = [owner EXCEPT ![n] = call[r].key]
  <2>1. PICK n \in Names : owner[n] = Nobody /\ owner' = [owner EXCEPT ![n] = k]
      BY <1>1, <1>4
  <2>2. QuotaTypeOK'
      BY <1>t, <1>0, <1>1, <2>1 DEF QuotaTypeOK
  <2>3. owner'[n] = k /\ \A x \in Names : x # n => owner'[x] = owner[x]
      BY <1>t, <2>1 DEF QuotaTypeOK
  <2>4. ASSUME NEW j \in Owners
        PROVE  /\ Calling(j)' \subseteq Calling(j)
               /\ Passed(j)' = Passed(j) \ {r}
    <3>1. ASSUME NEW q \in Callers, q # r
          PROVE  (q \in Calling(j)' <=> q \in Calling(j)) /\ (q \in Passed(j)' <=> q \in Passed(j))
        BY <1>2, <3>1 DEF Passed, Calling
    <3>2. r \notin Calling(j)' /\ r \notin Passed(j)'
        BY <1>2 DEF Passed, Calling
    <3>3. /\ Calling(j)' \subseteq Callers /\ Calling(j) \subseteq Callers
          /\ Passed(j)' \subseteq Callers /\ Passed(j) \subseteq Callers
        BY DEF Passed, Calling
    <3> QED
        BY <3>1, <3>2, <3>3
  <2>5. ASSUME NEW j \in Owners, j # k PROVE Mine(j)' = Mine(j)
      BY <2>1, <2>3, <2>5, QuotaAssumption DEF Mine, QuotaAssumption
  <2>6. Mine(k)' = Mine(k) \cup {n} /\ n \notin Mine(k) /\ r \in Passed(k)
      BY <1>0, <1>1, <2>1, <2>3, QuotaAssumption DEF Mine, QuotaAssumption, Passed, Calling
  <2>7. CallInv'
    <3>1. ASSUME NEW j \in Owners PROVE Cardinality(Calling(j)') <= crowd'[j]
      <4>1. Cardinality(Calling(j)') <= Cardinality(Calling(j))
          BY <2>4, CountsAreNatural, FS_Subset
      <4>2. Cardinality(Calling(j)) <= crowd[j] /\ crowd'[j] = crowd[j]
          BY <1>t, <1>0 DEF CallInv
      <4>3. Cardinality(Calling(j)') \in Nat /\ Cardinality(Calling(j)) \in Nat /\ crowd[j] \in Nat
          BY <2>4, <1>t, CountsAreNatural, FS_Subset, FS_CardinalityType DEF QuotaTypeOK
      <4> QED
          BY <4>1, <4>2, <4>3
    <3> QED
        BY <1>t, <1>0, <1>2, <3>1 DEF CallInv
  <2>8. ASSUME NEW j \in Owners \ uncounted' PROVE Held(j)'
    <3>1. Held(j) /\ most'[j] = most[j] /\ crowd'[j] = crowd[j]
        BY <1>t, <1>0 DEF QuotaHeld, Held
    <3>2. CASE j # k
      <4>1. Passed(j)' \subseteq Passed(j) /\ Mine(j)' \subseteq Mine(j)
          BY <2>4, <2>5, <3>2
      <4>2. most[j] <= most'[j] /\ crowd[j] <= crowd'[j]
          BY <1>t, <3>1 DEF QuotaTypeOK
      <4> QED
          BY <1>t, <2>2, <3>1, <4>1, <4>2, HeldShrinks
    <3>3. CASE j = k
      <4> DEFINE m == Cardinality(Mine(k)) p == Cardinality(Passed(k))
                 mm == Cardinality(Mine(k)') pp == Cardinality(Passed(k)')
      <4>1. m \in Nat /\ p \in Nat
          BY <1>1, CountsAreNatural
      <4>2. mm = m + 1
          BY <1>1, <2>6, CountsAreNatural, FS_AddElement
      <4>3. pp = p - 1
          BY <1>1, <2>4, <2>6, CountsAreNatural, FS_RemoveElement
      <4>4. m + p = 0 \/ m + p < most[k] + crowd[k]
          BY <3>1, <3>3 DEF Held
      <4> HIDE DEF m, p, mm, pp
      <4>5. mm + pp = m + p
          BY <4>1, <4>2, <4>3
      <4>6. mm + pp = 0 \/ mm + pp < most'[j] + crowd'[j]
          BY <3>1, <3>3, <4>4, <4>5
      <4> QED
          BY <3>3, <4>6 DEF Held, mm, pp
    <3> QED
        BY <3>2, <3>3
  <2> QED
      BY <2>2, <2>7, <2>8 DEF QuotaInv, QuotaHeld, Held
<1> QED
    BY <1>3, <1>4 DEF CreateRow

LEMMA RemoveRowInv ==
    ASSUME QuotaInv, NEW n \in Names, RemoveRow(n)
    PROVE  QuotaInv'
<1>t. QuotaTypeOK
    BY DEF QuotaInv
<1>0. UNCHANGED <<call, most, crowd, uncounted>> /\ owner' = [owner EXCEPT ![n] = Nobody]
    BY DEF RemoveRow
<1>1. QuotaTypeOK'
    BY <1>t, <1>0 DEF QuotaTypeOK
<1>2. \A k \in Owners : Mine(k)' \subseteq Mine(k)
    BY <1>t, <1>0, QuotaAssumption DEF Mine, QuotaTypeOK, QuotaAssumption
<1> QED
    BY <1>0, <1>1, <1>2, QuietStep

LEMMA QuotaExitInv == ASSUME QuotaInv, QuotaExit PROVE QuotaInv'
<1>t. QuotaTypeOK
    BY DEF QuotaInv
<1>0. UNCHANGED <<owner, most, crowd, uncounted>> /\ call' = [r \in Callers |-> NoCall]
    BY DEF QuotaExit
<1>1. QuotaTypeOK'
    BY <1>t, <1>0 DEF QuotaTypeOK
<1>2. \A k \in Owners : Mine(k)' \subseteq Mine(k)
    BY <1>0 DEF Mine
<1> QED
    BY <1>0, <1>1, <1>2, QuietStep

LEMMA QuotaNextInv == ASSUME QuotaInv, [QuotaNext]_quotaVars PROVE QuotaInv'
<1>1. CASE QuotaNext
    BY <1>1, AskInv, CheckQuotaInv, CreateRowInv, RemoveRowInv, QuotaExitInv DEF QuotaNext, QuotaStep
<1>2. CASE UNCHANGED quotaVars
  <2>1. UNCHANGED <<owner, call, most, crowd, uncounted>>
      BY <1>2 DEF quotaVars
  <2>2. QuotaTypeOK'
      BY <2>1 DEF QuotaInv, QuotaTypeOK
  <2>3. \A k \in Owners : Mine(k)' \subseteq Mine(k)
      BY <2>1 DEF Mine
  <2> QED
      BY <2>1, <2>2, <2>3, QuietStep
<1> QED
    BY <1>1, <1>2

\* The inductive invariant of the quota: the types, the requests that are counted,
\* and the quota itself.
THEOREM QuotaInvariance == QuotaSpec => []QuotaInv
<1>1. QuotaInv /\ [QuotaNext]_quotaVars => QuotaInv'
    BY QuotaNextInv
<1> QED
    BY <1>1, QuotaInitInv, PTL DEF QuotaSpec

\* A key exceeds its limit by fewer sessions than requests it had at once.
THEOREM QuotaKept == QuotaSpec => []QuotaHeld
<1>1. QuotaInv => QuotaHeld
    BY DEF QuotaInv
<1> QED
    BY <1>1, QuotaInvariance, PTL

-------------------------------------------------------------------------------
GateInv == TypeOK /\ RecordedInv

LEMMA GateInitInv == Init /\ KeysInv /\ LogInv /\ QuotaInv => GateInv
<1> SUFFICES ASSUME Init, KeysInv, LogInv, QuotaInv PROVE GateInv
    OBVIOUS
<1>1. TypeOK
    BY DEF Init, TypeOK, KeysInv, LogInv, QuotaInv
<1>2. RecordedInv
    BY DEF Init, LogInit, RecordedInv
<1> QED
    BY <1>1, <1>2 DEF GateInv

LEMMA GateNextInv ==
    ASSUME GateInv, LogInv, KeysInv', LogInv', QuotaInv', [Next]_vars PROVE GateInv'
<1> DEFINE Statuses == {"new", "handling", "answered", "forbidden", "refused", "limited", "cut"}
<1>t. status \in [Requests -> Statuses] /\ RecordedInv /\ recorded \subseteq Requests
    BY DEF GateInv, TypeOK, LogInv, LogTypeOK, Requests
<1> SUFFICES status' \in [Requests -> Statuses] /\ RecordedInv'
    BY DEF GateInv, TypeOK, KeysInv, LogInv, QuotaInv
<1>1. CASE \E r \in Requests : Request(r)
  <2>1. PICK r \in Requests : Request(r)
      BY <1>1
  <2>2. CASE Answer(r)
    <3>1. recorded' \subseteq recorded \cup {r} /\ status' = [status EXCEPT ![r] = "answered"]
        BY <2>2 DEF Answer, Record, Becomes
    <3> QED
        BY <1>t, <3>1 DEF RecordedInv
  <2>3. CASE ~Answer(r)
    <3>1. /\ status[r] = "new" /\ UNCHANGED logVars
          /\ \E s \in Statuses : status' = [status EXCEPT ![r] = s]
        BY <2>1, <2>3 DEF Request, PassMaster, Refuse, PassKey, RejectLimited, Becomes
    <3>2. UNCHANGED recorded
        BY <3>1 DEF logVars
    <3> QED
        BY <1>t, <3>1, <3>2 DEF RecordedInv
  <2> QED
      BY <2>2, <2>3
<1>2. CASE UNCHANGED <<logVars, status>>
  <2>1. UNCHANGED <<recorded, status>>
      BY <1>2 DEF logVars
  <2> QED
      BY <1>t, <2>1 DEF RecordedInv
<1>3. CASE LogStep /\ UNCHANGED <<keyVars, quotaVars, status>>
  <2>1. UNCHANGED <<recorded, status>>
      BY <1>3 DEF LogStep, TickerFlush, Purge, Insert, QueryFlush, QueryRead
  <2> QED
      BY <1>t, <2>1 DEF RecordedInv
<1>4. CASE Exit
  <2>1. /\ UNCHANGED recorded
        /\ status' = [r \in Requests |-> IF status[r] = "handling" THEN "cut" ELSE status[r]]
      BY <1>4 DEF Exit, LogExit
  <2> QED
      BY <1>t, <2>1 DEF RecordedInv
<1> QED
    BY <1>1, <1>2, <1>3, <1>4 DEF Next, vars

\* The inductive invariant of the run, with the types of every part.
THEOREM GateInvariance == Spec => []IInv
<1>1. Init /\ KeysInv /\ LogInv /\ QuotaInv => GateInv
    BY GateInitInv
<1>2. GateInv /\ LogInv /\ KeysInv' /\ LogInv' /\ QuotaInv' /\ [Next]_vars => GateInv'
    BY GateNextInv
<1>3. GateInv /\ KeysInv /\ WindowInv /\ LogInv /\ QuotaInv => IInv
    BY DEF GateInv, IInv
<1> QED
    BY <1>1, <1>2, <1>3, Composition, KeysInvariance, WindowInvariance, LogInvariance,
       QuotaInvariance, PTL DEF Spec

\* The properties of the parts, of the whole.
THEOREM GateCorrect ==
    Spec => [](/\ TypeOK /\ Accounted /\ LimitHeld /\ CacheCurrent
               /\ LoggedOnce /\ QuerySeesRecorded /\ QuotaHeld)
<1>1. IInv => TypeOK
    BY DEF IInv
<1> QED
    BY <1>1, GateInvariance, Composition, UsesAccounted, LimitKept, CacheIsTable,
       EntryInOnePlace, QueryComplete, QuotaKept, PTL
===============================================================================
