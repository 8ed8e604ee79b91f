---------------------------- MODULE GroupOpsProofs ----------------------------
(***************************************************************************)
(* The cooldown between group creations: its inductive invariant, and that *)
(* groups are asked for no sooner than quiet period and cooldown allow.    *)
(* The requests leave it as its own specification has it, so that this     *)
(* holds under any number of them.                                         *)
(*                                                                         *)
(* The requests: the lists of participants they are made of, what a step   *)
(* makes of one, and that nobody is asked about twice and every answer is  *)
(* true, for any lists, batch length and number of requests.               *)
(***************************************************************************)
EXTENDS GroupOps, FiniteSetTheorems, FunctionTheorems, SequenceTheorems,
        WellFoundedInduction, TLAPS

LEMMA InitInv == CooldownInit => CooldownInv
<1> SUFFICES ASSUME CooldownInit PROVE CooldownInv
    OBVIOUS
<1>1. 0 \in 0 .. MaxExits /\ 0 \in 0 .. MaxFaults
    BY CooldownAssumption
<1>2. Zero \in [Objects -> Nat] /\ [o \in Objects |-> "none"] \in [Objects -> {"none", "bind", "note"}]
    BY DEF Zero
<1>3. CooldownTypeOK
  <2>1. /\ now \in Nat \ {0} /\ cur \in Objects \cup {NoObject}
        /\ groups \in Nat /\ madeAt \in Nat /\ joinedAt \in Nat
        /\ known \subseteq {"pair", "group"} /\ saved \subseteq {"pair", "group"}
      BY DEF CooldownInit
  <2>2. /\ pairedAt \in [Objects -> Nat] /\ lastGroupCreate \in [Objects -> Nat]
        /\ handler \in [Objects -> {"none", "bind", "note"}]
        /\ exits \in 0 .. MaxExits /\ faults \in 0 .. MaxFaults
      BY <1>1, <1>2, Zenon DEF CooldownInit
  <2>3. /\ replacing \in BOOLEAN /\ linked \in BOOLEAN
        /\ loggedIn \subseteq Objects /\ writes \subseteq Objects \X Nat
      BY Zenon DEF CooldownInit
  <2>4. row \in [paired_at : Nat, last_group_at : Nat]
      BY DEF CooldownInit
  <2> QED
      BY <2>1, <2>2, <2>3, <2>4, Zenon DEF CooldownTypeOK
<1>4. CurrentOnly /\ Punctual /\ Remembered
    BY DEF CooldownInit, CurrentOnly, Punctual, Remembered
<1> QED
    BY <1>3, <1>4 DEF CooldownInv

LEMMA CheckInv ==
    ASSUME CooldownInv, NEW o \in Objects, checkGroupCooldown(o) PROVE CooldownInv'
<1>t. CooldownTypeOK /\ CurrentOnly /\ Punctual /\ Remembered
    BY DEF CooldownInv
<1>u. UNCHANGED <<now, cur, pairedAt, loggedIn, replacing, handler, row, linked,
                  exits, faults, joinedAt>>
    BY DEF checkGroupCooldown
<1>1. lastGroupCreate' = [lastGroupCreate EXCEPT ![o] = now] /\ writes' = writes \cup {<<o, now>>}
    BY DEF checkGroupCooldown
<1>2. \/ /\ o \in loggedIn /\ groups' = groups + 1 /\ madeAt' = now
         /\ known' = known \cup {"group"} /\ saved' = saved \ {"group"}
      \/ UNCHANGED <<groups, madeAt, known, saved>>
    BY DEF checkGroupCooldown
<1>3. CooldownTypeOK'
  <2>1. writes' \subseteq Objects \X Nat
    <3>1. now \in Nat
        BY <1>t DEF CooldownTypeOK
    <3>2. <<o, now>> \in Objects \X Nat
        BY <3>1, Zenon
    <3> QED
        BY <1>t, <1>1, <3>2, Zenon DEF CooldownTypeOK
  <2>2. lastGroupCreate' \in [Objects -> Nat]
      BY <1>t, <1>1 DEF CooldownTypeOK
  <2>3. groups' \in Nat /\ madeAt' \in Nat
      BY <1>t, <1>2 DEF CooldownTypeOK
  <2>5. known' \subseteq {"pair", "group"} /\ saved' \subseteq {"pair", "group"}
      BY <1>t, <1>2, Zenon DEF CooldownTypeOK
  <2>4. /\ now' = now /\ cur' = cur /\ pairedAt' = pairedAt /\ loggedIn' = loggedIn
        /\ replacing' = replacing /\ handler' = handler /\ row' = row /\ linked' = linked
        /\ exits' = exits /\ faults' = faults /\ joinedAt' = joinedAt
      BY <1>u
  <2> QED
      BY <1>t, <2>1, <2>2, <2>3, <2>4, <2>5, Zenon DEF CooldownTypeOK
<1>4. CurrentOnly'
    BY <1>t, <1>u DEF CurrentOnly
<1>5. Punctual'
    BY <1>t, <1>u, <1>1, <1>2 DEF CooldownTypeOK, Punctual
<1>6. Remembered'
  <2>1. now \in Nat \ {0} /\ groups \in Nat /\ madeAt \in Nat
      BY <1>t DEF CooldownTypeOK
  <2>2. \A d \in Objects : lastGroupCreate[d] \in Nat /\ lastGroupCreate'[d] \in Nat
                           /\ lastGroupCreate'[d] = IF d = o THEN now ELSE lastGroupCreate[d]
      BY <1>t, <1>1 DEF CooldownTypeOK
  <2>3. "group" \in known' => cur \in Objects /\ lastGroupCreate'[cur] >= madeAt'
    <3>1. CASE o \in loggedIn /\ madeAt' = now
        BY <3>1, <1>t, <2>1, <2>2 DEF CurrentOnly
    <3>2. CASE UNCHANGED <<groups, madeAt, known, saved>>
        BY <3>2, <1>t, <2>1, <2>2 DEF CooldownTypeOK, Remembered, Punctual
    <3> QED
        BY <1>2, <3>1, <3>2
  <2>4. groups' > 0 => madeAt' > 0
      BY <1>t, <1>2, <2>1 DEF Remembered
  <2>5. ("pair" \in known' => "pair" \in known) /\ ("pair" \in saved' => "pair" \in saved)
      BY <1>2
  <2>6. "group" \in saved' => "group" \in saved /\ madeAt' = madeAt
      BY <1>2
  <2> QED
      BY <1>t, <1>u, <2>3, <2>4, <2>5, <2>6, CooldownAssumption DEF Remembered
<1> QED
    BY <1>3, <1>4, <1>5, <1>6 DEF CooldownInv

LEMMA RecordInv ==
    ASSUME CooldownInv, NEW w \in writes, recordGroupCreated(w) PROVE CooldownInv'
<1>t. CooldownTypeOK /\ CurrentOnly /\ Punctual /\ Remembered
    BY DEF CooldownInv
<1>u. UNCHANGED <<now, objectVars, linked, exits, groups, madeAt, joinedAt, known>>
    BY DEF recordGroupCreated
<1>1. PICK ok \in BOOLEAN :
        /\ DbCall(ok)
        /\ row' = IF ok THEN [row EXCEPT !.last_group_at = w[2]] ELSE row
        /\ saved' = IF ok /\ w[2] = madeAt THEN saved \cup {"group"} ELSE saved
    BY DEF recordGroupCreated
<1>2. writes' = writes \ {w} /\ w[2] = now /\ w[2] \in Nat
    BY <1>t DEF recordGroupCreated, Punctual, CooldownTypeOK
<1>3. CooldownTypeOK'
    BY <1>t, <1>u, <1>1, <1>2, CooldownAssumption DEF CooldownTypeOK, DbCall, objectVars
<1>4. CurrentOnly'
    BY <1>t, <1>u DEF CurrentOnly, objectVars
<1>5. Punctual'
    BY <1>t, <1>u, <1>2 DEF Punctual, objectVars
<1>6. Remembered'
    BY <1>t, <1>u, <1>1, <1>2 DEF CooldownTypeOK, Punctual, Remembered, objectVars
<1> QED
    BY <1>3, <1>4, <1>5, <1>6 DEF CooldownInv

LEMMA PairInv == ASSUME CooldownInv, Pair PROVE CooldownInv'
<1>t. CooldownTypeOK /\ CurrentOnly /\ Punctual /\ Remembered
    BY DEF CooldownInv
<1>u. UNCHANGED <<now, cur, pairedAt, lastGroupCreate, replacing, row, writes,
                  exits, faults, groups, madeAt>>
    BY DEF Pair
<1>1. /\ cur \in Objects /\ linked' = TRUE /\ loggedIn' = loggedIn \cup {cur}
      /\ handler' = [handler EXCEPT ![cur] = "bind"] /\ joinedAt' = now
      /\ known' = known \ {"pair"} /\ saved' = saved \ {"pair"}
    BY <1>t DEF Pair, CooldownTypeOK
<1>3. CooldownTypeOK'
    BY <1>t, <1>u, <1>1 DEF CooldownTypeOK
<1>4. CurrentOnly'
    BY <1>t, <1>u, <1>1 DEF CurrentOnly
<1>5. Punctual'
    BY <1>t, <1>u, <1>1 DEF CooldownTypeOK, Punctual
<1>6. Remembered'
    BY <1>t, <1>u, <1>1 DEF Remembered
<1> QED
    BY <1>3, <1>4, <1>5, <1>6 DEF CooldownInv

LEMMA BindInv ==
    ASSUME CooldownInv, NEW o \in Objects, bindJID(o) PROVE CooldownInv'
<1>t. CooldownTypeOK /\ CurrentOnly /\ Punctual /\ Remembered
    BY DEF CooldownInv
<1>u. UNCHANGED <<now, cur, pairedAt, lastGroupCreate, loggedIn, replacing, writes,
                  linked, exits, groups, madeAt, joinedAt, known>>
    BY DEF bindJID
<1>1. handler[o] = "bind" /\ handler' = [handler EXCEPT ![o] = "note"] /\ joinedAt = now
    BY <1>t DEF bindJID, Punctual
<1>2. PICK ok \in BOOLEAN :
        /\ DbCall(ok)
        /\ row' = IF ok THEN [row EXCEPT !.paired_at = now] ELSE row
        /\ saved' = IF ok THEN saved \cup {"pair"} ELSE saved
    BY DEF bindJID
<1>3. CooldownTypeOK'
    BY <1>t, <1>u, <1>1, <1>2, CooldownAssumption DEF CooldownTypeOK, DbCall
<1>4. CurrentOnly'
    BY <1>t, <1>u DEF CurrentOnly
<1>5. Punctual'
    BY <1>t, <1>u, <1>1 DEF CooldownTypeOK, Punctual
<1>6. Remembered'
    BY <1>t, <1>u, <1>1, <1>2 DEF CooldownTypeOK, Remembered
<1> QED
    BY <1>3, <1>4, <1>5, <1>6 DEF CooldownInv

LEMMA NotedInv ==
    ASSUME CooldownInv, NEW o \in Objects, PairNoted(o) PROVE CooldownInv'
<1>t. CooldownTypeOK /\ CurrentOnly /\ Punctual /\ Remembered
    BY DEF CooldownInv
<1>u. UNCHANGED <<now, cur, lastGroupCreate, loggedIn, replacing, row, writes, linked,
                  exits, faults, groups, madeAt, joinedAt, saved>>
    BY DEF PairNoted
<1>1. /\ handler[o] = "note" /\ handler' = [handler EXCEPT ![o] = "none"] /\ joinedAt = now
      /\ pairedAt' = [pairedAt EXCEPT ![o] = now]
      /\ known' = IF o = cur THEN known \cup {"pair"} ELSE known
    BY <1>t DEF PairNoted, Punctual
<1>3. CooldownTypeOK'
    BY <1>t, <1>u, <1>1 DEF CooldownTypeOK
<1>4. CurrentOnly'
    BY <1>t, <1>u DEF CurrentOnly
<1>5. Punctual'
    BY <1>t, <1>u, <1>1 DEF CooldownTypeOK, Punctual
<1>6. Remembered'
    BY <1>t, <1>u, <1>1, CooldownAssumption DEF CooldownTypeOK, Remembered
<1> QED
    BY <1>3, <1>4, <1>5, <1>6 DEF CooldownInv

\* The device is gone, by a request or by an event.
LEMMA LoggedOutInv == ASSUME CooldownInv, Logout \/ LoggedOut PROVE CooldownInv'
<1>t. CooldownTypeOK /\ CurrentOnly /\ Punctual /\ Remembered
    BY DEF CooldownInv
<1>u. UNCHANGED <<now, cur, pairedAt, lastGroupCreate, handler, row, writes,
                  exits, faults, history>>
    BY DEF Logout, LoggedOut
<1>1. /\ loggedIn' = loggedIn \ {cur} /\ linked' = FALSE
      /\ replacing' = TRUE \/ replacing' = replacing
    BY DEF Logout, LoggedOut
<1>3. CooldownTypeOK'
    BY <1>t, <1>u, <1>1 DEF CooldownTypeOK, history
<1>4. CurrentOnly'
    BY <1>t, <1>u, <1>1 DEF CurrentOnly
<1>5. Punctual'
    BY <1>t, <1>u DEF Punctual, history
<1>6. Remembered'
    BY <1>t, <1>u DEF Remembered, history
<1> QED
    BY <1>3, <1>4, <1>5, <1>6 DEF CooldownInv

LEMMA RestartInv ==
    ASSUME CooldownInv, NEW o \in Objects, restartPairing(o) PROVE CooldownInv'
<1>t. CooldownTypeOK /\ CurrentOnly /\ Punctual /\ Remembered
    BY DEF CooldownInv
<1>u. UNCHANGED <<now, handler, row, writes, exits, faults, groups, madeAt, joinedAt, saved>>
    BY DEF restartPairing
<1>1. /\ cur' = o /\ replacing' = FALSE /\ known' = {}
      /\ loggedIn' = loggedIn \ {cur} /\ linked' = FALSE
      /\ pairedAt' = [pairedAt EXCEPT ![o] = 0]
      /\ lastGroupCreate' = [lastGroupCreate EXCEPT ![o] = 0]
    BY DEF restartPairing
<1>2. CooldownTypeOK'
    BY <1>t, <1>u, <1>1 DEF CooldownTypeOK
<1>3. CurrentOnly'
    BY <1>t, <1>1 DEF CurrentOnly
<1>4. Punctual'
    BY <1>t, <1>u DEF Punctual
<1>5. Remembered'
    BY <1>t, <1>u, <1>1 DEF Remembered
<1> QED
    BY <1>2, <1>3, <1>4, <1>5 DEF CooldownInv

LEMMA StartInv ==
    ASSUME CooldownInv, NEW o \in Objects, Start(o) PROVE CooldownInv'
<1>t. CooldownTypeOK /\ CurrentOnly /\ Punctual /\ Remembered
    BY DEF CooldownInv
<1>u. UNCHANGED <<now, replacing, handler, row, writes, exits, faults,
                  groups, madeAt, joinedAt, saved>>
    BY DEF Start
<1>1. /\ cur' = o /\ known' = saved
      /\ pairedAt' = [Zero EXCEPT ![o] = row.paired_at]
      /\ lastGroupCreate' = [Zero EXCEPT ![o] = row.last_group_at]
      /\ loggedIn' \subseteq {o} /\ linked' \in BOOLEAN
    BY <1>t DEF Start, CooldownTypeOK
<1>2. Zero \in [Objects -> Nat] /\ row.paired_at \in Nat /\ row.last_group_at \in Nat
    BY <1>t DEF Zero, CooldownTypeOK
<1>3. CooldownTypeOK'
    BY <1>t, <1>u, <1>1, <1>2 DEF CooldownTypeOK
<1>4. CurrentOnly'
    BY <1>1 DEF CurrentOnly
<1>5. Punctual'
    BY <1>t, <1>u DEF Punctual
<1>6. pairedAt'[o] = row.paired_at /\ lastGroupCreate'[o] = row.last_group_at
    BY <1>1, <1>2
<1>7. Remembered'
    BY <1>t, <1>u, <1>1, <1>6, CooldownAssumption DEF Remembered
<1> QED
    BY <1>3, <1>4, <1>5, <1>7 DEF CooldownInv

LEMMA ExitInv == ASSUME CooldownInv, Exit PROVE CooldownInv'
<1>t. CooldownTypeOK /\ CurrentOnly /\ Punctual /\ Remembered
    BY DEF CooldownInv
<1>u. UNCHANGED <<now, row, linked, faults, groups, madeAt, joinedAt, saved>>
    BY DEF Exit
<1>1. /\ cur' = NoObject /\ pairedAt' = Zero /\ lastGroupCreate' = Zero
      /\ loggedIn' = {} /\ replacing' = FALSE
      /\ handler' = [o \in Objects |-> "none"] /\ writes' = {} /\ known' = {}
    BY DEF Exit
<1>2. Zero \in [Objects -> Nat] /\ handler' \in [Objects -> {"none", "bind", "note"}]
    BY <1>1 DEF Zero
<1>3. exits' \in 0 .. MaxExits
    BY <1>t, CooldownAssumption DEF Exit, CooldownTypeOK
<1>4. CooldownTypeOK'
    BY <1>t, <1>u, <1>1, <1>2, <1>3 DEF CooldownTypeOK
<1>5. CurrentOnly' /\ Punctual'
    BY <1>t, <1>u, <1>1 DEF CurrentOnly, Punctual
<1>6. Remembered'
    BY <1>t, <1>u, <1>1 DEF Remembered
<1> QED
    BY <1>4, <1>5, <1>6 DEF CooldownInv

LEMMA TickInv == ASSUME CooldownInv, Tick PROVE CooldownInv'
<1>t. CooldownTypeOK /\ CurrentOnly /\ Punctual /\ Remembered
    BY DEF CooldownInv
<1>u. UNCHANGED <<objectVars, row, writes, linked, exits, faults, history>>
    BY DEF Tick
<1>1. now' = now + 1 /\ writes = {} /\ \A o \in Objects : handler[o] = "none"
    BY DEF Tick
<1>2. CooldownTypeOK'
    BY <1>t, <1>u, <1>1 DEF CooldownTypeOK, objectVars, history
<1>3. CurrentOnly'
    BY <1>t, <1>u DEF CurrentOnly, objectVars
<1>4. Punctual'
    BY <1>t, <1>u, <1>1 DEF CooldownTypeOK, Punctual, objectVars, history
<1>5. Remembered'
    BY <1>t, <1>u DEF Remembered, objectVars, history
<1> QED
    BY <1>2, <1>3, <1>4, <1>5 DEF CooldownInv

LEMMA NextInv == ASSUME CooldownInv, [CooldownNext]_cooldownVars PROVE CooldownInv'
<1>1. CASE \E o \in Objects : checkGroupCooldown(o)
    BY <1>1, CheckInv
<1>2. CASE \E w \in writes : recordGroupCreated(w)
    BY <1>2, RecordInv
<1>3. CASE Pair
    BY <1>3, PairInv
<1>4. CASE Logout \/ LoggedOut
    BY <1>4, LoggedOutInv
<1>5. CASE Exit
    BY <1>5, ExitInv
<1>6. CASE Tick
    BY <1>6, TickInv
<1>7. CASE \E o \in Objects : bindJID(o)
    BY <1>7, BindInv
<1>8. CASE \E o \in Objects : PairNoted(o)
    BY <1>8, NotedInv
<1>9. CASE \E o \in Objects : restartPairing(o)
    BY <1>9, RestartInv
<1>10. CASE \E o \in Objects : Start(o)
    BY <1>10, StartInv
<1>11. CASE UNCHANGED cooldownVars
    BY <1>11 DEF CooldownInv, CooldownTypeOK, CurrentOnly, Punctual, Remembered,
       cooldownVars, objectVars, history
<1> QED
    BY <1>1, <1>2, <1>3, <1>4, <1>5, <1>6, <1>7, <1>8, <1>9, <1>10, <1>11 DEF CooldownNext

\* What the objects and the row know of pairings and creations.
THEOREM CooldownInvariance == CooldownSpec => []CooldownInv
<1>1. CooldownInit => CooldownInv
    BY InitInv
<1>2. CooldownInv /\ [CooldownNext]_cooldownVars => CooldownInv'
    BY NextInv
<1> QED
    BY <1>1, <1>2, PTL DEF CooldownSpec

\* A step that asks for a group is a check that let the session in the map through.
LEMMA OnlyCheckMakes ==
    ASSUME CooldownNext, groups' # groups
    PROVE  \E o \in Objects : checkGroupCooldown(o) /\ o \in loggedIn
BY DEF CooldownNext, checkGroupCooldown, recordGroupCreated, Pair, Logout, LoggedOut, Exit,
       Tick, bindJID, PairNoted, restartPairing, Start, history

LEMMA PacedStep ==
    ASSUME CooldownInv, CooldownNext, groups' # groups
    PROVE  /\ groups = 0 \/ now - madeAt >= Cooldown \/ "group" \notin known
           /\ joinedAt = 0 \/ now - joinedAt >= Quiet \/ "pair" \notin known
<1>1. PICK o \in Objects : checkGroupCooldown(o) /\ o \in loggedIn
    BY OnlyCheckMakes
<1>2. o = cur /\ mayCreate(o)
    BY <1>1 DEF CooldownInv, CurrentOnly, checkGroupCooldown
<1>3. /\ now \in Nat /\ madeAt \in Nat /\ joinedAt \in Nat /\ groups \in Nat
      /\ pairedAt[o] \in Nat /\ lastGroupCreate[o] \in Nat
    BY DEF CooldownInv, CooldownTypeOK
<1>4. madeAt <= now /\ joinedAt <= now
    BY DEF CooldownInv, Punctual
<1>5. groups = 0 \/ now - madeAt >= Cooldown \/ "group" \notin known
  <2>1. SUFFICES ASSUME groups # 0, "group" \in known PROVE now - madeAt >= Cooldown
      OBVIOUS
  <2>2. lastGroupCreate[o] >= madeAt /\ madeAt > 0
      BY <2>1, <1>2, <1>3 DEF CooldownInv, Remembered
  <2>3. Cooldown = 0 \/ now - lastGroupCreate[o] >= Cooldown
      BY <2>2, <1>2, <1>3 DEF mayCreate
  <2> QED
      BY <2>2, <2>3, <1>3, <1>4, CooldownAssumption
<1>6. joinedAt = 0 \/ now - joinedAt >= Quiet \/ "pair" \notin known
  <2>1. SUFFICES ASSUME joinedAt # 0, "pair" \in known PROVE now - joinedAt >= Quiet
      OBVIOUS
  <2>2. pairedAt[o] = joinedAt
      BY <2>1, <1>2 DEF CooldownInv, Remembered
  <2> QED
      BY <2>1, <2>2, <1>2, <1>3, <1>4, CooldownAssumption DEF mayCreate
<1> QED
    BY <1>5, <1>6

\* Groups are paced, for every quiet period and cooldown, number of exits, failed
\* writes and Session objects.
THEOREM GroupsPaced == CooldownSpec => Paced
<1>1. CooldownInv /\ [CooldownNext]_cooldownVars =>
        [groups' # groups =>
            /\ groups = 0 \/ now - madeAt >= Cooldown \/ "group" \notin known
            /\ joinedAt = 0 \/ now - joinedAt >= Quiet \/ "pair" \notin known]_cooldownVars
    BY PacedStep
<1> QED
    BY <1>1, CooldownInvariance, PTL DEF CooldownSpec, Paced

-------------------------------------------------------------------------------
(***************************************************************************)
(* Lists of numbers.                                                       *)
(***************************************************************************)

\* A non-empty set of positions has a first one.
LEMMA LeastElement ==
    ASSUME NEW S \in SUBSET Nat, S # {}
    PROVE  \E m \in S : \A k \in S : m <= k
<1> DEFINE R == {ss \in Nat \X Nat : ss[1] < ss[2]}
<1>1. R = OpToRel(<, Nat)
    BY DEF OpToRel
<1>2. IsWellFoundedOn(R, Nat)
    BY <1>1, NatLessThanWellFounded
<1> HIDE DEF R
<1>3. PICK m \in S : \A y \in S : ~ (<<y, m>> \in R)
    BY <1>2, WFMin
<1>4. \A y \in S : ~(y < m)
    BY <1>3 DEF R
<1> QED
    BY <1>4

\* Of n positions there is exactly one with k positions up to it.
LEMMA Ranks ==
    ASSUME NEW n \in Nat, NEW P \in SUBSET (1 .. n)
    PROVE  /\ Cardinality(P) \in Nat
           /\ \A i \in P : Cardinality({j \in P : j <= i}) \in 1 .. Cardinality(P)
           /\ \A i, k \in P : Cardinality({j \in P : j <= i}) = Cardinality({j \in P : j <= k}) => i = k
           /\ \A m \in 1 .. Cardinality(P) : \E i \in P : Cardinality({j \in P : j <= i}) = m
<1> DEFINE Up(i) == {j \in P : j <= i}
<1>1. IsFiniteSet(P) /\ Cardinality(P) \in Nat
  <2>1. IsFiniteSet(1 .. n)
      BY FS_Interval
  <2> QED
      BY <2>1, FS_Subset, FS_CardinalityType
<1>2. ASSUME NEW i \in P
      PROVE  IsFiniteSet(Up(i)) /\ Cardinality(Up(i)) \in 1 .. Cardinality(P)
  <2>1. Up(i) \in SUBSET P /\ i \in Up(i)
      OBVIOUS
  <2>2. IsFiniteSet(Up(i)) /\ Cardinality(Up(i)) <= Cardinality(P)
      BY <1>1, <2>1, FS_Subset
  <2>3. Cardinality(Up(i)) \in Nat /\ Cardinality(Up(i)) # 0
      BY <2>1, <2>2, FS_CardinalityType, FS_EmptySet
  <2> HIDE DEF Up
  <2> QED
      BY <1>1, <2>2, <2>3
<1>3. ASSUME NEW i \in P, NEW k \in P, i <= k, Cardinality(Up(i)) = Cardinality(Up(k))
      PROVE  i = k
  <2>1. P \subseteq Int /\ i \in Int /\ k \in Int
      BY <1>3
  <2>4. \A j \in P : j <= i => j <= k
      BY <1>3, <2>1
  <2>5. k <= k
      BY <2>1
  <2>3. Up(i) \in SUBSET Up(k) /\ k \in Up(k)
      BY <2>4, <2>5, Zenon
  <2>2. Up(i) = Up(k)
      BY <1>2, <1>3, <2>3, FS_Subset
  <2> QED
      BY <1>3, <2>1, <2>2, <2>3
<1> DEFINE f == [i \in P |-> Cardinality(Up(i))]
<1> HIDE DEF Up
<1>4. f \in [P -> 1 .. Cardinality(P)]
    BY <1>2
<1>5. \A i, k \in P : f[i] = f[k] => i = k
    BY <1>3
<1>6. f \in Injection(P, 1 .. Cardinality(P))
  <2> HIDE DEF f
  <2> QED
      BY <1>4, <1>5, Fun_IsInj
<1>7. IsFiniteSet(1 .. Cardinality(P)) /\ Cardinality(1 .. Cardinality(P)) = Cardinality(P)
    BY <1>1, FS_Interval
<1>8. \A m \in 1 .. Cardinality(P) : \E i \in P : f[i] = m
  <2> HIDE DEF f
  <2>1. f \in Surjection(P, 1 .. Cardinality(P))
      BY <1>6, <1>7, FS_Injection
  <2> QED
      BY <2>1, Fun_SurjectionProperties
<1> QED
    BY <1>1, <1>2, <1>5, <1>8 DEF Up

\* Picking the numbers of different accounts gives each of their entries once.
LEMMA PickEntries ==
    ASSUME NEW l \in {1, 2}, NEW phones \in Seq(Phones), NEW places \in SUBSET DOMAIN phones,
           \A i \in places : AccountOf[phones[i]] # NoAccount,
           \A i, k \in places : AccountOf[phones[i]] = AccountOf[phones[k]] => i = k
    PROVE  LET picked == Pick(l, phones, places) IN
           /\ picked \in Seq(Entries)
           /\ IsInjective(picked)
           /\ ToSet(picked) = {<<l, AccountOf[phones[i]]>> : i \in places}
<1> DEFINE n == Cardinality(places)
           Up(i) == Cardinality({j \in places : j <= i})
           at(k) == CHOOSE i \in places : Up(i) = k
           picked == Pick(l, phones, places)
<1>1. /\ Len(phones) \in Nat /\ DOMAIN phones = 1 .. Len(phones)
      /\ \A i \in DOMAIN phones : phones[i] \in Phones
    BY LenProperties, ElementOfSeq
<1>2. /\ n \in Nat
      /\ \A i \in places : Up(i) \in 1 .. n
      /\ \A k \in 1 .. n : \E i \in places : Up(i) = k
      /\ \A i, k \in places : Up(i) = Up(k) => i = k
    BY <1>1, Ranks
<1>3. picked = [k \in 1 .. n |-> <<l, AccountOf[phones[at(k)]]>>]
    BY DEF Pick
<1> HIDE DEF n, Up
<1>4. \A k \in 1 .. n : at(k) \in places /\ Up(at(k)) = k
    BY <1>2
<1>5. \A i \in places : at(Up(i)) = i
    BY <1>2, <1>4
<1> HIDE DEF at, picked
<1>6. \A i \in places : <<l, AccountOf[phones[i]]>> \in Entries
    BY <1>1, GroupAssumption DEF Entries
<1>7. picked \in Seq(Entries)
  <2>1. picked \in [1 .. n -> Entries]
      BY <1>3, <1>4, <1>6
  <2> QED
      BY <1>2, <2>1
<1>8. IsInjective(picked)
    BY <1>3, <1>4 DEF IsInjective
<1>9. ToSet(picked) = {<<l, AccountOf[phones[i]]>> : i \in places}
    BY <1>2, <1>3, <1>4, <1>5 DEF ToSet
<1> QED
    BY <1>7, <1>8, <1>9 DEF picked

\* The accounts a list names.
NamedIn(phones) == {AccountOf[phones[i]] : i \in DOMAIN phones} \ {NoAccount}

\* The first of the positions that have something in common.
LEMMA FirstPlace ==
    ASSUME NEW phones \in Seq(Phones), NEW S \in SUBSET DOMAIN phones, S # {}
    PROVE  \E i \in S : \A j \in 1 .. i - 1 : j \notin S
<1>1. Len(phones) \in Nat /\ DOMAIN phones = 1 .. Len(phones) /\ S \in SUBSET Nat
    BY LenProperties
<1>2. PICK m \in S : \A k \in S : m <= k
    BY <1>1, LeastElement
<1> QED
    BY <1>1, <1>2

\* resolveParticipants lists each account of the request once.
LEMMA ResolveEntries ==
    ASSUME NEW l \in {1, 2}, NEW phones \in Seq(Phones)
    PROVE  /\ resolve(l, phones) \in Seq(Entries)
           /\ IsInjective(resolve(l, phones))
           /\ ToSet(resolve(l, phones)) = {l} \X NamedIn(phones)
           /\ \A a \in NamedIn(phones) : \E i \in FirstNamed(phones) : AccountOf[phones[i]] = a
           /\ \A i, k \in FirstNamed(phones) : AccountOf[phones[i]] = AccountOf[phones[k]] => i = k
<1> DEFINE P == FirstNamed(phones)
<1>1. Len(phones) \in Nat /\ DOMAIN phones = 1 .. Len(phones)
    BY LenProperties
<1>2. /\ P \in SUBSET DOMAIN phones
      /\ \A i \in P : AccountOf[phones[i]] # NoAccount
      /\ \A i \in P : \A j \in 1 .. i - 1 : AccountOf[phones[j]] # AccountOf[phones[i]]
    BY DEF FirstNamed
<1>3. \A i, k \in P : AccountOf[phones[i]] = AccountOf[phones[k]] => i = k
  <2> SUFFICES ASSUME NEW i \in P, NEW k \in P, i # k
               PROVE  AccountOf[phones[i]] # AccountOf[phones[k]]
      OBVIOUS
  <2>1. i \in 1 .. k - 1 \/ k \in 1 .. i - 1
      BY <1>1, <1>2
  <2> QED
      BY <1>2, <2>1
<1>4. ASSUME NEW a \in NamedIn(phones)
      PROVE  \E i \in P : AccountOf[phones[i]] = a
  <2> DEFINE S == {i \in DOMAIN phones : AccountOf[phones[i]] = a}
  <2>1. S # {} /\ a # NoAccount
      BY DEF NamedIn
  <2>2. PICK i \in S : \A j \in 1 .. i - 1 : j \notin S
      BY <2>1, FirstPlace
  <2>3. \A j \in 1 .. i - 1 : j \in DOMAIN phones
      BY <1>1, <2>2
  <2>4. i \in P
      BY <2>1, <2>2, <2>3 DEF FirstNamed
  <2> QED
      BY <2>2, <2>4
<1>5. {<<l, AccountOf[phones[i]]>> : i \in P} = {l} \X NamedIn(phones)
  <2> HIDE DEF P
  <2>1. \A i \in P : AccountOf[phones[i]] \in NamedIn(phones)
      BY <1>2 DEF NamedIn
  <2>2. \A a \in NamedIn(phones) : \E i \in P : AccountOf[phones[i]] = a
      BY <1>4
  <2>3. \A i \in P : <<l, AccountOf[phones[i]]>> \in {l} \X NamedIn(phones)
      BY <2>1
  <2>4. ASSUME NEW e \in {l} \X NamedIn(phones)
        PROVE  \E i \in P : e = <<l, AccountOf[phones[i]]>>
    <3>1. e = <<l, e[2]>> /\ e[2] \in NamedIn(phones)
        BY <2>4
    <3> QED
        BY <2>2, <3>1
  <2> QED
      BY <2>3, <2>4
<1> QED
    BY <1>2, <1>3, <1>4, <1>5, PickEntries DEF resolve

\* statusList has each of them once as well.
LEMMA StatusEntries ==
    ASSUME NEW l \in {1, 2}, NEW phones \in Seq(Phones)
    PROVE  /\ statusList(l, phones) \in Seq(Entries)
           /\ IsInjective(statusList(l, phones))
           /\ ToSet(statusList(l, phones)) = {l} \X NamedIn(phones)
<1> DEFINE P == Listed(l, phones)
           first(a) == CHOOSE i \in FirstNamed(phones) : AccountOf[phones[i]] = a
<1>1. Len(phones) \in Nat /\ DOMAIN phones = 1 .. Len(phones)
    BY LenProperties
<1>2. \A a \in NamedIn(phones) :
        first(a) \in FirstNamed(phones) /\ AccountOf[phones[first(a)]] = a
    BY ResolveEntries
<1>3. \A a : PhoneOf(<<l, a>>, phones) = phones[first(a)]
    BY DEF PhoneOf
<1> HIDE DEF first
<1>4. /\ P \in SUBSET DOMAIN phones
      /\ \A i \in P : /\ AccountOf[phones[i]] # NoAccount
                      /\ phones[i] = phones[first(AccountOf[phones[i]])]
                      /\ \A j \in 1 .. i - 1 : phones[j] # phones[i]
    BY <1>3 DEF Listed
<1>5. \A i, k \in P : AccountOf[phones[i]] = AccountOf[phones[k]] => i = k
  <2> SUFFICES ASSUME NEW i \in P, NEW k \in P, i # k, AccountOf[phones[i]] = AccountOf[phones[k]]
               PROVE  FALSE
      OBVIOUS
  <2>1. i \in 1 .. k - 1 \/ k \in 1 .. i - 1
      BY <1>1, <1>4
  <2>2. phones[i] = phones[k]
      BY <1>4
  <2> QED
      BY <1>4, <2>1, <2>2
<1>6. ASSUME NEW a \in NamedIn(phones)
      PROVE  \E i \in P : AccountOf[phones[i]] = a
  <2> DEFINE S == {i \in DOMAIN phones : phones[i] = phones[first(a)]}
  <2>1. first(a) \in DOMAIN phones /\ a # NoAccount
      BY <1>2 DEF FirstNamed, NamedIn
  <2>2. first(a) \in S
      BY <2>1
  <2>3. PICK i \in S : \A j \in 1 .. i - 1 : j \notin S
      BY <2>2, FirstPlace
  <2>4. \A j \in 1 .. i - 1 : j \in DOMAIN phones
      BY <1>1, <2>3
  <2>5. AccountOf[phones[i]] = a
      BY <1>2, <2>3
  <2>6. i \in P
      BY <1>3, <2>1, <2>3, <2>4, <2>5 DEF Listed
  <2> QED
      BY <2>5, <2>6
<1>7. {<<l, AccountOf[phones[i]]>> : i \in P} = {l} \X NamedIn(phones)
  <2> HIDE DEF P
  <2>1. \A i \in P : AccountOf[phones[i]] \in NamedIn(phones)
      BY <1>4 DEF NamedIn
  <2>2. \A a \in NamedIn(phones) : \E i \in P : AccountOf[phones[i]] = a
      BY <1>6
  <2>3. \A i \in P : <<l, AccountOf[phones[i]]>> \in {l} \X NamedIn(phones)
      BY <2>1
  <2>4. ASSUME NEW e \in {l} \X NamedIn(phones)
        PROVE  \E i \in P : e = <<l, AccountOf[phones[i]]>>
    <3>1. e = <<l, e[2]>> /\ e[2] \in NamedIn(phones)
        BY <2>4
    <3> QED
        BY <2>2, <3>1
  <2> QED
      BY <2>3, <2>4
<1> QED
    BY <1>4, <1>5, <1>7, PickEntries DEF statusList

\* Two lists one after the other.
LEMMA ConcatEntries ==
    ASSUME NEW s \in Seq(Entries), NEW t \in Seq(Entries)
    PROVE  /\ s \o t \in Seq(Entries)
           /\ ToSet(s \o t) = ToSet(s) \cup ToSet(t)
           /\ IsInjective(s \o t) <=>
                 IsInjective(s) /\ IsInjective(t) /\ ToSet(s) \cap ToSet(t) = {}
<1> DEFINE u == s \o t
           m == Len(s)
           n == Len(t)
<1>1. /\ m \in Nat /\ n \in Nat /\ DOMAIN s = 1 .. m /\ DOMAIN t = 1 .. n
      /\ u \in Seq(Entries) /\ Len(u) = m + n
      /\ \A i \in 1 .. m + n : u[i] = IF i <= m THEN s[i] ELSE t[i - m]
    BY LenProperties, ConcatProperties
<1>2. DOMAIN u = 1 .. m + n
    BY <1>1, LenProperties
<1> HIDE DEF u, m, n
<1>3. \A i \in 1 .. m : i \in 1 .. m + n /\ u[i] = s[i]
    BY <1>1
<1>4. \A i \in 1 .. n : m + i \in 1 .. m + n /\ u[m + i] = t[i]
  <2> SUFFICES ASSUME NEW i \in 1 .. n PROVE m + i \in 1 .. m + n /\ u[m + i] = t[i]
      OBVIOUS
  <2>1. m + i \in 1 .. m + n /\ ~(m + i <= m) /\ (m + i) - m = i
      BY <1>1
  <2> QED
      BY <1>1, <2>1
<1>5. \A i \in 1 .. m + n : \/ i \in 1 .. m /\ u[i] = s[i]
                            \/ \E k \in 1 .. n : i = m + k /\ u[i] = t[k]
  <2> SUFFICES ASSUME NEW i \in 1 .. m + n, ~(i <= m)
               PROVE  \E k \in 1 .. n : i = m + k /\ u[i] = t[k]
      BY <1>1
  <2>1. i - m \in 1 .. n /\ i = m + (i - m)
      BY <1>1
  <2> QED
      BY <1>1, <2>1
<1>6. ToSet(u) = ToSet(s) \cup ToSet(t)
  <2>1. ToSet(u) \subseteq ToSet(s) \cup ToSet(t)
      BY <1>1, <1>2, <1>5 DEF ToSet
  <2>2. ToSet(s) \subseteq ToSet(u)
      BY <1>1, <1>2, <1>3 DEF ToSet
  <2>3. ASSUME NEW e \in ToSet(t) PROVE e \in ToSet(u)
    <3>1. PICK k \in 1 .. n : e = t[k]
        BY <1>1 DEF ToSet
    <3>2. m + k \in DOMAIN u /\ u[m + k] = e
        BY <1>2, <1>4, <3>1
    <3> QED
        BY <3>2 DEF ToSet
  <2> QED
      BY <2>1, <2>2, <2>3
<1>7. ASSUME IsInjective(u)
      PROVE  IsInjective(s) /\ IsInjective(t) /\ ToSet(s) \cap ToSet(t) = {}
  <2>1. IsInjective(s)
      BY <1>1, <1>2, <1>3, <1>7 DEF IsInjective
  <2>2. IsInjective(t)
    <3> SUFFICES ASSUME NEW i \in 1 .. n, NEW k \in 1 .. n, t[i] = t[k] PROVE i = k
        BY <1>1 DEF IsInjective
    <3>1. m + i = m + k
        BY <1>2, <1>4, <1>7 DEF IsInjective
    <3> QED
        BY <1>1, <3>1
  <2>3. ASSUME NEW e \in ToSet(s), e \in ToSet(t) PROVE FALSE
    <3>1. PICK i \in 1 .. m : s[i] = e
        BY <1>1 DEF ToSet
    <3>2. PICK k \in 1 .. n : t[k] = e
        BY <1>1, <2>3 DEF ToSet
    <3>3. i = m + k
        BY <1>2, <1>3, <1>4, <1>7, <3>1, <3>2 DEF IsInjective
    <3> QED
        BY <1>1, <3>3
  <2> QED
      BY <2>1, <2>2, <2>3
<1>8. ASSUME IsInjective(s), IsInjective(t), ToSet(s) \cap ToSet(t) = {}
      PROVE  IsInjective(u)
  <2> SUFFICES ASSUME NEW i \in 1 .. m + n, NEW k \in 1 .. m + n, u[i] = u[k] PROVE i = k
      BY <1>2 DEF IsInjective
  <2>1. \A a \in 1 .. m, b \in 1 .. n : s[a] # t[b]
      BY <1>1, <1>8 DEF ToSet
  <2>2. \A a, b \in 1 .. m : s[a] = s[b] => a = b
      BY <1>1, <1>8 DEF IsInjective
  <2>3. \A a, b \in 1 .. n : t[a] = t[b] => a = b
      BY <1>1, <1>8 DEF IsInjective
  <2> QED
      BY <1>5, <2>1, <2>2, <2>3
<1> QED
    BY <1>1, <1>6, <1>7, <1>8 DEF u

\* What a request resolves to and what it is answered with: the same entries,
\* each once.
LEMMA InputEntries ==
    ASSUME NEW input \in Inputs
    PROVE  /\ \A l \in {1, 2} : /\ Lists[input][l] \in Seq(Entries)
                                 /\ \A e \in ToSet(Lists[input][l]) : e[1] = l
           /\ Resolved[input] = Lists[input][1] \o Lists[input][2]
           /\ Resolved[input] \in Seq(Entries) /\ IsInjective(Resolved[input])
           /\ IsInjective(Answers[input])
           /\ ToSet(Answers[input]) = ToSet(Resolved[input])
<1>1. input[1] \in Seq(Phones) /\ input[2] \in Seq(Phones)
    BY GroupAssumption
<1> DEFINE l1 == Lists[input][1]
           l2 == Lists[input][2]
           s1 == statusList(1, input[1])
           s2 == statusList(2, input[2])
<1>2. l1 = resolve(1, input[1]) /\ l2 = resolve(2, input[2])
    BY DEF Lists
<1>3. /\ l1 \in Seq(Entries) /\ IsInjective(l1) /\ ToSet(l1) = {1} \X NamedIn(input[1])
      /\ l2 \in Seq(Entries) /\ IsInjective(l2) /\ ToSet(l2) = {2} \X NamedIn(input[2])
    BY <1>1, <1>2, ResolveEntries
<1>4. /\ s1 \in Seq(Entries) /\ IsInjective(s1) /\ ToSet(s1) = {1} \X NamedIn(input[1])
      /\ s2 \in Seq(Entries) /\ IsInjective(s2) /\ ToSet(s2) = {2} \X NamedIn(input[2])
    BY <1>1, StatusEntries
<1>5. Resolved[input] = l1 \o l2 /\ Answers[input] = s1 \o s2
    BY DEF Resolved, Answers
<1> HIDE DEF l1, l2, s1, s2
<1>6. ToSet(l1) \cap ToSet(l2) = {} /\ ToSet(s1) \cap ToSet(s2) = {}
    BY <1>3, <1>4
<1>7. Resolved[input] \in Seq(Entries) /\ IsInjective(Resolved[input])
      /\ ToSet(Resolved[input]) = ToSet(l1) \cup ToSet(l2)
    BY <1>3, <1>5, <1>6, ConcatEntries
<1>8. IsInjective(Answers[input]) /\ ToSet(Answers[input]) = ToSet(s1) \cup ToSet(s2)
    BY <1>4, <1>5, <1>6, ConcatEntries
<1>9. \A l \in {1, 2} : /\ Lists[input][l] \in Seq(Entries)
                        /\ \A e \in ToSet(Lists[input][l]) : e[1] = l
    BY <1>3 DEF l1, l2
<1> QED
    BY <1>3, <1>4, <1>5, <1>7, <1>8, <1>9 DEF l1, l2

-------------------------------------------------------------------------------
(***************************************************************************)
(* One request, as the record it is: what each step makes of it.           *)
(***************************************************************************)

\* A request in progress.
Sound(q) == RequestOK(q) /\ OrderInv(q) /\ StepInv(q) /\ AheadInv(q) /\ ToldInv(q)

\* A sequence is what it begins with and what is left.
LEMMA SplitAt ==
    ASSUME NEW s \in Seq(Entries), NEW n \in 0 .. Len(s)
    PROVE  /\ SubSeq(s, 1, n) \in Seq(Entries) /\ Len(SubSeq(s, 1, n)) = n
           /\ SubSeq(s, n + 1, Len(s)) \in Seq(Entries)
           /\ SubSeq(s, 1, n) \o SubSeq(s, n + 1, Len(s)) = s
<1>1. Len(s) \in Nat /\ \A i \in 1 .. Len(s) : s[i] \in Entries
    BY LenProperties, ElementOfSeq
<1>2. SubSeq(s, 1, n) \in Seq(Entries) /\ Len(SubSeq(s, 1, n)) = n
    BY <1>1, SubSeqProperties
<1>3. SubSeq(s, n + 1, Len(s)) \in Seq(Entries)
    BY <1>1, SubSeqProperties
<1>4. SubSeq(s, 1, n) \o SubSeq(s, n + 1, Len(s)) = SubSeq(s, 1, Len(s))
  <2>1. 1 \in 1 .. Len(s) + 1 /\ n \in 1 - 1 .. Len(s) /\ Len(s) \in n .. Len(s)
      BY <1>1
  <2> QED
      BY <2>1, ConcatAdjacentSubSeq
<1>5. SubSeq(s, 1, Len(s)) = s
    BY SubSeqFull
<1> QED
    BY <1>2, <1>3, <1>4, <1>5

\* The batch is the first part of what is to come, in a decision one list of it.
LEMMA BatchFirst ==
    ASSUME NEW q, Sound(q), q.step \in {"create", "add", "change", "decide", "pause"}
    PROVE  /\ Batch(q) \in Seq(Entries) /\ Rest(q) \in Seq(Entries)
           /\ Batch(q) \o Rest(q) = q.todo
           /\ q.step = "change" => Rest(q) = <<>>
           /\ q.step = "decide" /\ Rest(q) # <<>> =>
                 /\ q.asked = <<>> /\ q.taken = {} /\ Rest(q) = Lists[q.input][2]
                 /\ \A e \in ToSet(Batch(q)) : e[1] = 1
<1>1. /\ q.todo \in Seq(Entries) /\ q.asked \in Seq(Entries) /\ q.input \in Inputs
      /\ q.asked \o q.todo = Resolved[q.input]
    BY DEF Sound, RequestOK, OrderInv, Ahead
<1>2. Len(q.todo) \in Nat
    BY <1>1, LenProperties
<1>3. CASE q.step = "change"
  <2>1. Batch(q) = q.todo
      BY <1>3 DEF Batch
  <2>2. Rest(q) = <<>>
      BY <1>2, <2>1, SubSeqEmpty DEF Rest
  <2> QED
      BY <1>1, <1>3, <2>1, <2>2, ConcatEmptySeq, EmptySeq
<1>4. CASE q.step \in {"create", "add", "pause"}
  <2>1. PICK n \in 0 .. Len(q.todo) : Batch(q) = SubSeq(q.todo, 1, n)
    <3>1. CASE Len(q.todo) <= participantAddBatchLen
      <4>1. Batch(q) = SubSeq(q.todo, 1, Len(q.todo))
          BY <1>1, <1>4, <3>1, SubSeqFull DEF Batch
      <4> QED
          BY <1>2, <4>1
    <3>2. CASE ~(Len(q.todo) <= participantAddBatchLen)
      <4>1. Batch(q) = SubSeq(q.todo, 1, participantAddBatchLen)
          BY <1>4, <3>2 DEF Batch
      <4> QED
          BY <1>2, <3>2, <4>1, GroupAssumption
    <3> QED
        BY <3>1, <3>2
  <2>2. Rest(q) = SubSeq(q.todo, n + 1, Len(q.todo))
      BY <1>1, <2>1, SplitAt DEF Rest
  <2> QED
      BY <1>1, <1>4, <2>1, <2>2, SplitAt
<1>5. CASE q.step = "decide"
  <2> DEFINE l1 == Lists[q.input][1]
             l2 == Lists[q.input][2]
  <2>1. /\ l1 \in Seq(Entries) /\ (\A e \in ToSet(l1) : e[1] = 1)
        /\ l2 \in Seq(Entries) /\ (\A e \in ToSet(l2) : e[1] = 2)
        /\ Resolved[q.input] = l1 \o l2
      BY <1>1, InputEntries
  <2>2. /\ q.todo # <<>>
        /\ \/ q.asked = <<>> /\ q.taken = {}
           \/ q.todo = l2
      BY <1>5 DEF Sound, StepInv
  <2>3. Batch(q) = Lists[q.input][q.todo[1][1]]
      BY <1>5 DEF Batch
  <2>4. 1 \in DOMAIN q.todo /\ Len(q.todo) > 0
      BY <1>1, <2>2, EmptySeq, LenProperties
  <2> HIDE DEF l1, l2
  <2>5. CASE q.todo = l2
    <3>1. q.todo[1][1] = 2
        BY <2>1, <2>4, <2>5 DEF ToSet
    <3>2. Batch(q) = q.todo
        BY <2>3, <2>5, <3>1 DEF l2
    <3>3. Rest(q) = <<>>
        BY <1>2, <3>2, SubSeqEmpty DEF Rest
    <3> QED
        BY <1>1, <1>5, <3>2, <3>3, ConcatEmptySeq, EmptySeq
  <2>6. CASE q.asked = <<>> /\ q.taken = {}
    <3>1. q.todo = l1 \o l2
        BY <1>1, <2>1, <2>6, ConcatEmptySeq
    <3>2. CASE l1 = <<>>
        BY <2>1, <2>5, <3>1, <3>2, ConcatEmptySeq
    <3>3. CASE l1 # <<>>
      <4>1. Len(l1) \in Nat \ {0} /\ DOMAIN l1 = 1 .. Len(l1)
          BY <2>1, <3>3, EmptySeq, LenProperties
      <4>2. Len(l2) \in Nat /\ Len(q.todo) = Len(l1) + Len(l2)
          BY <2>1, <3>1, ConcatProperties, LenProperties
      <4>3. q.todo[1] = l1[1]
        <5>1. \A i \in 1 .. Len(l1) + Len(l2) : (l1 \o l2)[i] =
                     IF i <= Len(l1) THEN l1[i] ELSE l2[i - Len(l1)]
            BY <2>1, ConcatProperties
        <5>2. 1 \in 1 .. Len(l1) + Len(l2) /\ 1 <= Len(l1)
            BY <4>1, <4>2
        <5> QED
            BY <3>1, <5>1, <5>2
      <4>4. l1[1][1] = 1
          BY <2>1, <4>1 DEF ToSet
      <4>5. Batch(q) = l1
          BY <2>3, <4>3, <4>4 DEF l1
      <4>6. Len(l1) \in 0 .. Len(q.todo)
          BY <4>1, <4>2
      <4>7. SubSeq(q.todo, 1, Len(l1)) = l1
        <5>1. 1 \in 1 .. Len(l1) /\ Len(l1) \in 1 .. Len(l1)
            BY <4>1
        <5>2. SubSeq(l1 \o l2, 1, Len(l1)) = SubSeq(l1, 1, Len(l1))
            BY <2>1, <5>1, SubSeqOfConcat1
        <5> QED
            BY <2>1, <3>1, <5>2, SubSeqFull
      <4>8. Rest(q) = SubSeq(q.todo, Len(l1) + 1, Len(q.todo))
          BY <4>5 DEF Rest
      <4>9. Rest(q) \in Seq(Entries) /\ l1 \o Rest(q) = q.todo
          BY <1>1, <4>6, <4>7, <4>8, SplitAt
      <4>10. Rest(q) = l2
          BY <2>1, <3>1, <4>9, ConcatSimplifications
      <4> QED
          BY <1>5, <2>1, <2>6, <4>5, <4>9, <4>10 DEF l2
    <3> QED
        BY <3>2, <3>3
  <2> QED
      BY <2>2, <2>5, <2>6
<1> QED
    BY <1>3, <1>4, <1>5

\* Those in the batch were not asked about before and will not be again.
LEMMA BatchApart ==
    ASSUME NEW q, Sound(q), q.step \in {"create", "add", "change", "decide", "pause"}
    PROVE  /\ q.asked \o Batch(q) \in Seq(Entries) /\ IsInjective(q.asked \o Batch(q))
           /\ (q.asked \o Batch(q)) \o Rest(q) = Resolved[q.input]
           /\ ToSet(q.todo) = ToSet(Batch(q)) \cup ToSet(Rest(q))
           /\ ToSet(Batch(q)) \cap ToSet(Rest(q)) = {}
           /\ ToSet(q.todo) \subseteq DOMAIN q.status
<1> DEFINE a == q.asked
           b == Batch(q)
           c == Rest(q)
<1>1. /\ a \in Seq(Entries) /\ q.todo \in Seq(Entries) /\ q.input \in Inputs
      /\ a \o q.todo = Resolved[q.input] /\ DOMAIN q.status = ToSet(Resolved[q.input])
    BY DEF Sound, RequestOK, OrderInv, Ahead
<1>2. b \in Seq(Entries) /\ c \in Seq(Entries) /\ b \o c = q.todo
    BY BatchFirst
<1> HIDE DEF a, b, c
<1>3. IsInjective(a \o q.todo)
    BY <1>1, InputEntries
<1>4. PICK ab \in Seq(Entries) : ab = a \o b
    BY <1>1, <1>2, ConcatEntries
<1>5. ab \o c = a \o q.todo
  <2>1. a \in Seq(Entries) /\ b \in Seq(Entries) /\ c \in Seq(Entries)
      BY <1>1, <1>2
  <2>2. (a \o b) \o c = a \o (b \o c)
      BY ONLY <2>1, ConcatAssociative
  <2> QED
      BY <1>2, <1>4, <2>2
<1>6. IsInjective(ab)
    BY <1>2, <1>3, <1>4, <1>5, ConcatEntries
<1>7. IsInjective(q.todo) /\ ToSet(q.todo) \subseteq ToSet(a \o q.todo)
  <2>1. PICK t \in Seq(Entries) : t = q.todo
      BY <1>1
  <2>2. IsInjective(a \o t)
      BY <1>3, <2>1
  <2>3. IsInjective(t) /\ ToSet(t) \subseteq ToSet(a \o t)
      BY <1>1, <2>2, ConcatEntries
  <2> QED
      BY <2>1, <2>3
<1>8. IsInjective(b \o c) /\ ToSet(b \o c) = ToSet(q.todo)
    BY <1>2, <1>7
<1>9. ToSet(q.todo) = ToSet(b) \cup ToSet(c) /\ ToSet(b) \cap ToSet(c) = {}
    BY <1>2, <1>8, ConcatEntries
<1> QED
    BY <1>1, <1>4, <1>5, <1>6, <1>7, <1>9 DEF a, b, c

\* Where a call leads.
LEMMA NextSteps ==
    ASSUME NEW q, Sound(q), q.step \in {"create", "add", "change", "decide"}
    PROVE  /\ Rest(q) = <<>> => NextStep(q) = LastStep(q)
           /\ Rest(q) # <<>> => \/ q.step = "create" /\ NextStep(q) = "add"
                                \/ q.step = "add" /\ NextStep(q) = "pause"
                                \/ q.step = "decide" /\ NextStep(q) = "decide"
           /\ LastStep(q) \in {"wrap", "answer"}
<1>1. q.step = "change" => Rest(q) = <<>>
    BY BatchFirst
<1>2. LastStep(q) \in {"wrap", "answer"}
    BY DEF LastStep
<1>3. Rest(q) = <<>> => NextStep(q) = LastStep(q)
    BY DEF NextStep
<1>4. Rest(q) # <<>> /\ q.step = "create" => NextStep(q) = "add"
    BY DEF NextStep
<1>5. Rest(q) # <<>> /\ q.step = "add" => NextStep(q) = "pause"
    BY DEF NextStep
<1>6. Rest(q) # <<>> /\ q.step = "decide" => NextStep(q) = "decide"
    BY DEF NextStep
<1> QED
    BY <1>1, <1>2, <1>3, <1>4, <1>5, <1>6

\* The steps at which WhatsApp is asked.
Calls == {"create", "add", "change", "decide"}
Statuses == {"pending", "ok", "refused", "failed"}

\* What a sound request is made of.
LEMMA Sounds ==
    ASSUME NEW q, Sound(q)
    PROVE  /\ DOMAIN q = DOMAIN NoRequest
           /\ q.step \in Steps \cup {"idle"} /\ q.kind \in Kinds \cup {"none"}
           /\ q.object \in Objects /\ q.input \in Inputs
           /\ q.todo \in Seq(Entries) /\ q.asked \in Seq(Entries)
           /\ DOMAIN q.status \subseteq Entries /\ DOMAIN q.status = ToSet(Resolved[q.input])
           /\ \A e \in DOMAIN q.status : q.status[e] \in Statuses
           /\ q.cancelled \in BOOLEAN /\ q.failed \in BOOLEAN
           /\ IsInjective(q.asked) /\ q.limit \in {-1, Len(q.asked)}
BY DEF Sound, RequestOK, OrderInv, StepInv, Statuses

\* A call that leads on, from q to p, to those after the batch B.
Advance(q, p, B) ==
    /\ DOMAIN p = DOMAIN NoRequest
    /\ p.kind = q.kind /\ p.object = q.object /\ p.input = q.input
    /\ p.cancelled = q.cancelled /\ p.failed = FALSE /\ p.limit = q.limit
    /\ p.asked = q.asked \o Batch(q) /\ p.todo = Rest(q) /\ p.step = NextStep(q)
    /\ DOMAIN p.status = DOMAIN q.status
    /\ \A e \in DOMAIN q.status \ B : p.status[e] = q.status[e]
    /\ \A e \in DOMAIN q.status : p.status[e] \in Statuses
    /\ p.taken \ B = q.taken \ B /\ p.unsure \ B = q.unsure \ B
    /\ p.unnamed \ B = q.unnamed \ B
    /\ \A e \in B \ p.unnamed :
            /\ p.status[e] # "pending"
            /\ p.status[e] = "ok" => e \in p.taken
            /\ e \in p.taken => p.status[e] = "ok" \/ e \in p.unsure

\* Such a call leaves the request sound.
LEMMA Advanced ==
    ASSUME NEW q, Sound(q), q.step \in Calls, NEW p, NEW B, B = ToSet(Batch(q)),
           Advance(q, p, B)
    PROVE  Sound(p)
<1> USE DEF Advance
<1>1. /\ q.asked \o Batch(q) \in Seq(Entries) /\ IsInjective(q.asked \o Batch(q))
      /\ (q.asked \o Batch(q)) \o Rest(q) = Resolved[q.input]
      /\ ToSet(q.todo) = B \cup ToSet(Rest(q)) /\ B \cap ToSet(Rest(q)) = {}
      /\ ToSet(q.todo) \subseteq DOMAIN q.status
    BY BatchApart DEF Calls
<1>2. /\ Rest(q) \in Seq(Entries)
      /\ q.step = "decide" /\ Rest(q) # <<>> =>
            /\ q.taken = {} /\ Rest(q) = Lists[q.input][2]
            /\ \A e \in B : e[1] = 1
    BY BatchFirst DEF Calls
<1>3. /\ Rest(q) = <<>> => p.step = LastStep(q)
      /\ Rest(q) # <<>> => \/ q.step = "create" /\ p.step = "add"
                           \/ q.step = "add" /\ p.step = "pause"
                           \/ q.step = "decide" /\ p.step = "decide"
      /\ LastStep(q) \in {"wrap", "answer"}
    BY NextSteps DEF Calls
<1>4. q.limit = -1 /\ q.step \in Ahead
    BY DEF Sound, OrderInv, Ahead, Calls
<1>5. RequestOK(p)
    BY Sounds, <1>1, <1>2, <1>3 DEF RequestOK, Steps, Statuses
<1>6. OrderInv(p)
    BY Sounds, <1>1, <1>4 DEF OrderInv
<1>7. StepInv(p)
  <2>1. (p.step = "add" \/ p.step = "pause") => q.kind \in {"create", "add"}
      BY <1>3 DEF Sound, StepInv, Calls
  <2>2. ASSUME p.step = "decide"
        PROVE  /\ q.kind = "decide" /\ Rest(q) # <<>>
               /\ Rest(q) = Lists[q.input][2] /\ \A e \in p.taken : e[1] = 1
    <3>1. Rest(q) # <<>> /\ q.step = "decide"
        BY <2>2, <1>3
    <3>2. q.kind = "decide"
        BY <3>1 DEF Sound, StepInv
    <3> QED
        BY <1>2, <3>1, <3>2
  <2>3. p.step \notin {"check", "create", "change"}
      BY <1>3
  <2> QED
      BY Sounds, <2>1, <2>2, <2>3 DEF StepInv
<1>8. AheadInv(p)
    BY <1>1, <1>4 DEF Sound, AheadInv
<1>9. ToldInv(p)
  <2> SUFFICES ASSUME NEW e \in DOMAIN q.status \ p.unnamed
               PROVE  /\ p.status[e] = "ok" => e \in p.taken
                      /\ e \in p.taken => p.status[e] = "ok" \/ e \in p.unsure
                      /\ p.status[e] = "pending" => p.step \in Ahead /\ e \in ToSet(Rest(q))
      BY DEF ToldInv
  <2>1. CASE e \in B
      BY <2>1
  <2>2. CASE e \notin B
    <3>1. /\ p.status[e] = q.status[e] /\ e \notin q.unnamed
          /\ e \in p.taken <=> e \in q.taken
          /\ e \in p.unsure <=> e \in q.unsure
        BY <2>2
    <3>2. ~q.failed
        BY DEF Sound, StepInv, Calls
    <3>3. /\ q.status[e] = "ok" => e \in q.taken
          /\ e \in q.taken => q.status[e] = "ok" \/ e \in q.unsure
          /\ q.status[e] = "pending" => e \in ToSet(q.todo)
        BY <1>4, <3>1, <3>2 DEF Sound, ToldInv
    <3>4. e \in ToSet(q.todo) => e \in ToSet(Rest(q))
        BY <1>1, <2>2
    <3>5. e \in ToSet(Rest(q)) => p.step \in Ahead
      <4>1. e \in ToSet(Rest(q)) => Rest(q) # <<>>
          BY DEF ToSet
      <4> QED
          BY <4>1, <1>3 DEF Ahead
    <3> QED
        BY <3>1, <3>3, <3>4, <3>5
  <2> QED
      BY <2>1, <2>2
<1> QED
    BY <1>5, <1>6, <1>7, <1>8, <1>9 DEF Sound

\* A call at which the request fails as a whole.
LEMMA GivenUp ==
    ASSUME NEW q, Sound(q), q.step \in Calls, q.step # "add", NEW p,
           DOMAIN p = DOMAIN NoRequest,
           p.kind = q.kind, p.object = q.object, p.input = q.input, p.status = q.status,
           p.cancelled = q.cancelled, p.failed = TRUE, p.todo = q.todo, p.step = "answer",
           p.asked = q.asked \o Batch(q), p.limit \in {-1, Len(q.asked \o Batch(q))},
           p.taken \ p.unsure \subseteq q.taken
    PROVE  Sound(p)
<1>1. q.asked \o Batch(q) \in Seq(Entries) /\ IsInjective(q.asked \o Batch(q))
    BY BatchApart DEF Calls
<1>2. RequestOK(p)
    BY Sounds, <1>1 DEF RequestOK, Steps, Statuses
<1>3. OrderInv(p)
    BY Sounds, <1>1 DEF OrderInv, Ahead
<1>4. StepInv(p) /\ AheadInv(p)
    BY Sounds DEF StepInv, AheadInv, Ahead
<1>5. ToldInv(p)
  <2> SUFFICES ASSUME NEW e \in q.taken PROVE q.kind = "decide" /\ e[1] = 1
      BY DEF ToldInv, FailureTrue
  <2>1. q.step = "decide"
      BY DEF Sound, StepInv, Calls
  <2> QED
      BY <2>1 DEF Sound, StepInv
<1> QED
    BY <1>2, <1>3, <1>4, <1>5 DEF Sound

\* Additions that WhatsApp limits: the rest are marked.
LEMMA Stopped ==
    ASSUME NEW q, Sound(q), q.step = "add", NEW p,
           DOMAIN p = DOMAIN NoRequest,
           p.kind = q.kind, p.object = q.object, p.input = q.input,
           p.cancelled = q.cancelled, p.failed = FALSE, p.todo = q.todo, p.step = LastStep(q),
           p.asked = q.asked \o Batch(q), p.limit = Len(q.asked \o Batch(q)),
           p.status = markPending(q.status, ToSet(q.todo)),
           p.taken = q.taken, p.unsure = q.unsure, p.unnamed = q.unnamed
    PROVE  Sound(p)
<1>1. q.asked \o Batch(q) \in Seq(Entries) /\ IsInjective(q.asked \o Batch(q))
    BY BatchApart
<1>2. /\ DOMAIN p.status = DOMAIN q.status
      /\ \A e \in DOMAIN q.status : p.status[e] =
            IF e \in ToSet(q.todo) /\ q.status[e] = "pending" THEN "failed" ELSE q.status[e]
    BY DEF markPending
<1>3. p.step \in {"wrap", "answer"}
    BY DEF LastStep
<1>4. RequestOK(p)
  <2>1. \A e \in DOMAIN q.status : p.status[e] \in Statuses
      BY <1>2, Sounds DEF Statuses
  <2> QED
      BY Sounds, <1>1, <1>2, <1>3, <2>1 DEF RequestOK, Steps, Statuses
<1>5. OrderInv(p)
    BY Sounds, <1>1, <1>2, <1>3 DEF OrderInv, Ahead
<1>6. StepInv(p) /\ AheadInv(p)
    BY Sounds, <1>3 DEF StepInv, AheadInv, Ahead
<1>7. ToldInv(p)
  <2> SUFFICES ASSUME NEW e \in DOMAIN q.status \ q.unnamed
               PROVE  /\ p.status[e] = "ok" => e \in q.taken
                      /\ e \in q.taken => p.status[e] = "ok" \/ e \in q.unsure
                      /\ p.status[e] # "pending"
      BY <1>2 DEF ToldInv
  <2>1. ~q.failed /\ q.step \in Ahead
      BY DEF Sound, StepInv, Ahead
  <2>2. /\ q.status[e] = "ok" => e \in q.taken
        /\ e \in q.taken => q.status[e] = "ok" \/ e \in q.unsure
        /\ q.status[e] = "pending" => e \in ToSet(q.todo)
      BY <2>1 DEF Sound, ToldInv
  <2> QED
      BY <1>2, <2>2
<1> QED
    BY <1>4, <1>5, <1>6, <1>7 DEF Sound

\* What is left depends on the batch, the batch on a step only before a call.
LEMMA SameRest ==
    ASSUME NEW q, NEW p, p.todo = q.todo, p.input = q.input,
           q.step \notin {"change", "decide"}, p.step \notin {"change", "decide"}
    PROVE  Batch(p) = Batch(q) /\ Rest(p) = Rest(q)
<1>1. Batch(p) = Batch(q)
    BY DEF Batch
<1> QED
    BY <1>1 DEF Rest

\* A step that changes nothing but where the request is.
LEMMA Moved ==
    ASSUME NEW q, Sound(q), NEW p,
           DOMAIN p = DOMAIN NoRequest,
           p.kind = q.kind, p.object = q.object, p.input = q.input, p.status = q.status,
           p.failed = q.failed, p.asked = q.asked, p.limit = q.limit, p.todo = q.todo,
           p.taken = q.taken, p.unsure = q.unsure, p.unnamed = q.unnamed,
           \/ q.step = "check" /\ p.step = "create" /\ p.cancelled = q.cancelled
           \/ q.step = "pause" /\ p.step = "add" /\ p.cancelled = q.cancelled
           \/ q.step = "wrap" /\ p.step = "answer" /\ p.cancelled = q.cancelled
           \/ p.step = q.step /\ p.cancelled = TRUE
    PROVE  Sound(p)
<1>1. RequestOK(p)
    BY Sounds DEF RequestOK, Steps, Statuses
<1>2. p.step \in Ahead <=> q.step \in Ahead
    BY DEF Ahead
<1>3. OrderInv(p)
    BY Sounds, <1>2 DEF Sound, OrderInv
<1>4. StepInv(p)
    BY DEF Sound, StepInv
<1>5. AheadInv(p)
    BY <1>2 DEF Sound, AheadInv
<1>6. q.step \notin Ahead => Rest(p) = Rest(q)
    <2>1. CASE p.step = q.step
        BY <2>1 DEF Rest, Batch
    <2>2. CASE q.step = "wrap" /\ p.step = "answer"
        BY <2>2, SameRest
    <2> QED
        BY <2>1, <2>2 DEF Ahead
<1>7. ToldInv(p)
  <2>1. CASE q.failed
      BY <2>1 DEF Sound, ToldInv, FailureTrue
  <2>2. CASE ~q.failed
    <3> SUFFICES ASSUME NEW e \in DOMAIN q.status \ q.unnamed
                 PROVE  /\ q.status[e] = "ok" => e \in q.taken
                        /\ e \in q.taken => q.status[e] = "ok" \/ e \in q.unsure
                        /\ q.status[e] = "pending" =>
                              IF p.step \in Ahead THEN e \in ToSet(q.todo)
                              ELSE p.cancelled /\ e \in ToSet(Rest(p))
        BY <2>2 DEF ToldInv
    <3>1. /\ q.status[e] = "ok" => e \in q.taken
          /\ e \in q.taken => q.status[e] = "ok" \/ e \in q.unsure
          /\ q.status[e] = "pending" =>
                IF q.step \in Ahead THEN e \in ToSet(q.todo)
                ELSE q.cancelled /\ e \in ToSet(Rest(q))
        BY <2>2 DEF Sound, ToldInv
    <3>2. q.cancelled => p.cancelled
        OBVIOUS
    <3> QED
        BY <1>2, <1>6, <3>1, <3>2
  <2> QED
      BY <2>1, <2>2
<1> QED
    BY <1>1, <1>3, <1>4, <1>5, <1>7 DEF Sound

\* A check that fails.
LEMMA TurnedDown ==
    ASSUME NEW q, Sound(q), q.step = "check", NEW p,
           DOMAIN p = DOMAIN NoRequest,
           p.kind = q.kind, p.object = q.object, p.input = q.input, p.status = q.status,
           p.cancelled = q.cancelled, p.failed = TRUE, p.todo = q.todo, p.step = "answer",
           p.asked = q.asked, p.limit = q.limit, p.taken = q.taken
    PROVE  Sound(p)
<1>1. RequestOK(p)
    BY Sounds DEF RequestOK, Steps, Statuses
<1>2. OrderInv(p)
    BY Sounds DEF OrderInv, Ahead
<1>3. StepInv(p) /\ AheadInv(p)
    BY Sounds DEF StepInv, AheadInv, Ahead
<1>4. ToldInv(p)
    BY DEF Sound, StepInv, ToldInv, FailureTrue
<1> QED
    BY <1>1, <1>2, <1>3, <1>4 DEF Sound

\* A pause that ends the request.
LEMMA CutShort ==
    ASSUME NEW q, Sound(q), q.step = "pause", q.cancelled, NEW p,
           DOMAIN p = DOMAIN NoRequest,
           p.kind = q.kind, p.object = q.object, p.input = q.input,
           p.status = markPending(q.status, ToSet(Batch(q))),
           p.cancelled = q.cancelled, p.failed = q.failed, p.todo = q.todo,
           p.step = LastStep(q), p.asked = q.asked, p.limit = q.limit,
           p.taken = q.taken, p.unsure = q.unsure, p.unnamed = q.unnamed
    PROVE  Sound(p)
<1>1. ToSet(q.todo) = ToSet(Batch(q)) \cup ToSet(Rest(q))
    BY BatchApart
<1>2. /\ DOMAIN p.status = DOMAIN q.status
      /\ \A e \in DOMAIN q.status : p.status[e] =
            IF e \in ToSet(Batch(q)) /\ q.status[e] = "pending" THEN "failed" ELSE q.status[e]
    BY DEF markPending
<1>3. p.step \in {"wrap", "answer"}
    BY DEF LastStep
<1>4. RequestOK(p)
  <2>1. \A e \in DOMAIN q.status : p.status[e] \in Statuses
      BY <1>2, Sounds DEF Statuses
  <2> QED
      BY Sounds, <1>2, <1>3, <2>1 DEF RequestOK, Steps, Statuses
<1>5. OrderInv(p)
    BY Sounds, <1>2, <1>3 DEF OrderInv, Ahead
<1>6. ~q.failed /\ q.step \in Ahead
    BY DEF Sound, StepInv, Ahead
<1>7. StepInv(p) /\ AheadInv(p)
    BY Sounds, <1>3, <1>6 DEF StepInv, AheadInv, Ahead
<1>8. Rest(p) = Rest(q)
    BY <1>3, SameRest
<1>9. ToldInv(p)
  <2> SUFFICES ASSUME NEW e \in DOMAIN q.status \ q.unnamed
               PROVE  /\ p.status[e] = "ok" => e \in q.taken
                      /\ e \in q.taken => p.status[e] = "ok" \/ e \in q.unsure
                      /\ p.status[e] = "pending" => e \in ToSet(Rest(q))
      BY <1>2, <1>3, <1>6, <1>8 DEF ToldInv, Ahead
  <2>1. /\ q.status[e] = "ok" => e \in q.taken
        /\ e \in q.taken => q.status[e] = "ok" \/ e \in q.unsure
        /\ q.status[e] = "pending" => e \in ToSet(q.todo)
      BY <1>6 DEF Sound, ToldInv
  <2> QED
      BY <1>1, <1>2, <2>1
<1> QED
    BY <1>4, <1>5, <1>7, <1>9 DEF Sound

\* A request as it begins.
LEMMA Begun ==
    ASSUME NEW p, NEW input \in Inputs, NEW kind \in Kinds,
           DOMAIN p = DOMAIN NoRequest,
           p.step = FirstStep(kind, Resolved[input]), p.kind = kind,
           p.object \in Objects, p.input = input, p.todo = Resolved[input],
           p.status = [e \in ToSet(Resolved[input]) |-> "pending"],
           p.cancelled = FALSE, p.failed = FALSE, p.asked = <<>>, p.limit = -1,
           p.taken = {}, p.unsure = {}, p.unnamed = {}
    PROVE  Sound(p) /\ p.step \in Steps
<1>1. Resolved[input] \in Seq(Entries)
    BY InputEntries
<1>2. /\ ToSet(Resolved[input]) \subseteq Entries
      /\ \A e \in ToSet(Resolved[input]) : p.status[e] = "pending"
      /\ DOMAIN p.status = ToSet(Resolved[input])
  <2>1. ToSet(Resolved[input]) \subseteq Entries
      BY <1>1, ElementOfSeq, LenProperties DEF ToSet
  <2> QED
      BY <2>1
<1>3. /\ p.step \in {"check", "add", "change", "decide", "answer"}
      /\ p.step = "check" => kind = "create"
      /\ p.step = "change" => kind = "change"
      /\ p.step = "add" => kind = "add"
      /\ p.step = "decide" => kind = "decide" /\ Resolved[input] # <<>>
      /\ p.step = "answer" => Resolved[input] = <<>>
    BY DEF FirstStep, Kinds
<1>4. <<>> \in Seq(Entries) /\ IsInjective(<<>>) /\ <<>> \o Resolved[input] = Resolved[input]
    BY <1>1, EmptySeq, ConcatEmptySeq DEF IsInjective
<1>5. RequestOK(p)
    BY <1>1, <1>2, <1>3, <1>4 DEF RequestOK, Steps
<1>6. OrderInv(p)
    BY <1>2, <1>4 DEF OrderInv
<1>7. StepInv(p)
    BY <1>3 DEF StepInv
<1>8. AheadInv(p)
    BY <1>2 DEF AheadInv
<1>9. ToldInv(p)
  <2>1. p.step \notin Ahead => ToSet(Resolved[input]) = {}
      BY <1>3 DEF Ahead, ToSet
  <2> QED
      BY <1>2, <2>1 DEF ToldInv
<1> QED
    BY <1>3, <1>5, <1>6, <1>7, <1>8, <1>9 DEF Sound, Steps

\* The part of the invariant that is about one request.
Good(q) == RequestOK(q) /\ RequestInv(q)

\* A request in progress is sound, none at all is as NoRequest has it.
LEMMA SoundGood ==
    ASSUME NEW q
    PROVE  /\ Good(q) /\ q.step # "idle" => Sound(q)
           /\ Sound(q) /\ q.step # "idle" => Good(q)
BY DEF Good, Sound, RequestInv

\* What an answered request leaves.
LEMMA NobodyGood == Good(NoRequest)
<1>1. <<>> \in Seq(Entries)
    BY EmptySeq
<1> QED
    BY <1>1 DEF Good, RequestOK, RequestInv, NoRequest

\* What a request is made of.
LEMMA Fields ==
    DOMAIN NoRequest = {"step", "kind", "object", "input", "todo", "status", "cancelled",
                        "failed", "asked", "limit", "taken", "unsure", "unnamed"}
BY DEF NoRequest

\* What a call leaves behind, field by field.
LEMMA AfterCall ==
    ASSUME NEW q, DOMAIN q = DOMAIN NoRequest, NEW c, c = Called(q)
    PROVE  /\ DOMAIN c = DOMAIN NoRequest /\ c.asked = q.asked \o Batch(q)
           /\ c.kind = q.kind /\ c.object = q.object /\ c.input = q.input
           /\ c.cancelled = q.cancelled /\ c.failed = q.failed /\ c.limit = q.limit
           /\ c.todo = q.todo /\ c.step = q.step /\ c.status = q.status
           /\ c.taken = q.taken /\ c.unsure = q.unsure /\ c.unnamed = q.unnamed
BY Fields DEF Called

\* Before a call nothing is known of those in the batch.
LEMMA CallGood ==
    ASSUME NEW q, Good(q), q.step \in Calls
    PROVE  /\ Sound(q) /\ DOMAIN q = DOMAIN NoRequest /\ q.failed = FALSE
           /\ ToSet(Batch(q)) \subseteq DOMAIN q.status
           /\ \A e \in ToSet(Batch(q)) : q.status[e] = "pending"
                   /\ e \notin q.taken \cup q.unsure \cup q.unnamed
           /\ NextStep(q) # "idle" /\ LastStep(q) # "idle"
<1>1. Sound(q)
    BY SoundGood DEF Calls
<1>2. DOMAIN q = DOMAIN NoRequest
    BY <1>1, Sounds
<1>3. q.failed = FALSE
    BY <1>1, Sounds DEF Sound, StepInv, Calls
<1>4. ToSet(Batch(q)) \subseteq ToSet(q.todo) /\ ToSet(q.todo) \subseteq DOMAIN q.status
    BY <1>1, BatchApart DEF Calls
<1>5. \A e \in ToSet(q.todo) : q.status[e] = "pending"
                   /\ e \notin q.taken \cup q.unsure \cup q.unnamed
    BY <1>1 DEF Sound, AheadInv, Calls, Ahead
<1>6. NextStep(q) # "idle" /\ LastStep(q) # "idle"
    BY DEF NextStep, LastStep
<1> QED
    BY <1>1, <1>2, <1>3, <1>4, <1>5, <1>6

\* The call is answered.
LEMMA AnsweredGood ==
    ASSUME NEW q, Good(q), q.step \in Calls,
           NEW refused \in SUBSET ToSet(Batch(q)), NEW unnamed \in SUBSET ToSet(Batch(q)),
           NEW p, p = [Called(q) EXCEPT
                     !.status = IF q.step = "change"
                                THEN Named(@, ToSet(Batch(q)) \ unnamed, refused)
                                ELSE applyResults(@, ToSet(Batch(q)),
                                                  ToSet(Batch(q)) \ unnamed, refused),
                     !.todo = Rest(q),
                     !.step = NextStep(q),
                     !.taken = @ \cup (ToSet(Batch(q)) \ refused),
                     !.unnamed = @ \cup unnamed]
    PROVE  Good(p)
<1>1. PICK B : B = ToSet(Batch(q))
    OBVIOUS
<1>2. PICK c : c = Called(q)
    OBVIOUS
<1>3. PICK s : s = IF q.step = "change" THEN Named(c.status, B \ unnamed, refused)
                   ELSE applyResults(c.status, B, B \ unnamed, refused)
    OBVIOUS
<1>4. p = [c EXCEPT !.status = s, !.todo = Rest(q), !.step = NextStep(q),
                    !.taken = @ \cup (B \ refused), !.unnamed = @ \cup unnamed]
    BY <1>1, <1>2, <1>3
<1>5. DOMAIN q = DOMAIN NoRequest
    BY CallGood
<1>6. DOMAIN c = DOMAIN NoRequest
    BY <1>2, <1>5, AfterCall
<1>7. DOMAIN p = DOMAIN NoRequest
    BY <1>4, <1>6
<1>8. /\ p.kind = c.kind /\ p.object = c.object /\ p.input = c.input
      /\ p.cancelled = c.cancelled /\ p.failed = c.failed
    BY <1>4, <1>6, Fields
<1>9. p.limit = c.limit /\ p.asked = c.asked /\ p.unsure = c.unsure
    BY <1>4, <1>6, Fields
<1>10. p.status = s /\ p.todo = Rest(q) /\ p.step = NextStep(q)
    BY <1>4, <1>6, Fields
<1>11. p.taken = c.taken \cup (B \ refused) /\ p.unnamed = c.unnamed \cup unnamed
    BY <1>4, <1>6, Fields
<1>12. /\ c.kind = q.kind /\ c.object = q.object /\ c.input = q.input
       /\ c.cancelled = q.cancelled /\ c.failed = q.failed /\ c.limit = q.limit
       /\ c.asked = q.asked \o Batch(q) /\ c.status = q.status
       /\ c.taken = q.taken /\ c.unsure = q.unsure /\ c.unnamed = q.unnamed
    BY <1>2, <1>5, AfterCall
<1>13. /\ B \subseteq DOMAIN q.status /\ q.failed = FALSE
       /\ \A e \in B : q.status[e] = "pending" /\ e \notin q.taken \cup q.unsure \cup q.unnamed
    BY <1>1, CallGood
<1>14. /\ DOMAIN s = DOMAIN q.status
       /\ \A e \in DOMAIN q.status \ B : s[e] = q.status[e]
       /\ \A e \in B \ unnamed : s[e] = IF e \in refused THEN "refused" ELSE "ok"
       /\ \A e \in B : s[e] \in Statuses
  <2>1. CASE q.step = "change"
      BY <2>1, <1>3, <1>12, <1>13 DEF Named, Statuses
  <2>2. CASE q.step # "change"
      BY <2>2, <1>3, <1>12, <1>13 DEF applyResults, Named, Statuses
  <2> QED
      BY <2>1, <2>2
<1>s. Sound(q) /\ q.step \in Calls /\ NextStep(q) # "idle"
    BY CallGood
<1>15. \A e \in DOMAIN q.status : p.status[e] \in Statuses
  <2>1. \A e \in DOMAIN q.status : q.status[e] \in Statuses
      BY <1>s, Sounds
  <2> QED
      BY <2>1, <1>10, <1>14
<1>16. \A e \in B \ p.unnamed :
            /\ p.status[e] # "pending"
            /\ p.status[e] = "ok" => e \in p.taken
            /\ e \in p.taken => p.status[e] = "ok" \/ e \in p.unsure
    BY <1>10, <1>11, <1>12, <1>13, <1>14
<1>17. /\ p.taken \ B = q.taken \ B /\ p.unsure \ B = q.unsure \ B
       /\ p.unnamed \ B = q.unnamed \ B
    BY <1>1, <1>9, <1>11, <1>12
<1>18. \A e \in DOMAIN q.status \ B : p.status[e] = q.status[e]
    BY <1>10, <1>14
<1>19. /\ p.kind = q.kind /\ p.object = q.object /\ p.input = q.input
       /\ p.cancelled = q.cancelled /\ p.failed = FALSE /\ p.limit = q.limit
       /\ p.asked = q.asked \o Batch(q) /\ p.todo = Rest(q) /\ p.step = NextStep(q)
       /\ DOMAIN p.status = DOMAIN q.status
    BY <1>8, <1>9, <1>10, <1>12, <1>13, <1>14
<1>20. Advance(q, p, B)
    BY ONLY <1>7, <1>15, <1>16, <1>17, <1>18, <1>19 DEF Advance
<1>21. Sound(p)
    BY <1>s, <1>1, <1>20, Advanced
<1> QED
    BY <1>10, <1>s, <1>21, SoundGood

\* The call meets the limit.
LEMMA LimitedGood ==
    ASSUME NEW q, Good(q), q.step \in Calls,
           NEW p, p = [Called(q) EXCEPT
                !.limit = Len(q.asked \o Batch(q)),
                !.status = IF q.step = "add" THEN markPending(@, ToSet(q.todo)) ELSE @,
                !.failed = ~(q.step = "add"),
                !.step = IF q.step = "add" THEN LastStep(q) ELSE "answer"]
    PROVE  Good(p)
<1>1. /\ Sound(q) /\ DOMAIN q = DOMAIN NoRequest
      /\ LastStep(q) # "idle"
    BY CallGood
<1>2. PICK c : c = Called(q)
    OBVIOUS
<1>3. /\ DOMAIN c = DOMAIN NoRequest /\ c.asked = q.asked \o Batch(q)
      /\ c.kind = q.kind /\ c.object = q.object /\ c.input = q.input
      /\ c.cancelled = q.cancelled /\ c.todo = q.todo /\ c.status = q.status
      /\ c.taken = q.taken /\ c.unsure = q.unsure /\ c.unnamed = q.unnamed
    BY <1>1, <1>2, AfterCall
<1>4. PICK s : s = IF q.step = "add" THEN markPending(q.status, ToSet(q.todo)) ELSE q.status
    OBVIOUS
<1>5. PICK t : t = IF q.step = "add" THEN LastStep(q) ELSE "answer"
    OBVIOUS
<1>6. PICK n : n = Len(q.asked \o Batch(q))
    OBVIOUS
<1>7. PICK f \in BOOLEAN : f <=> q.step # "add"
    <2>1. (q.step # "add") \in BOOLEAN
        OBVIOUS
    <2> QED
        BY <2>1
<1>8. p = [c EXCEPT !.limit = n, !.status = s, !.failed = f, !.step = t]
    BY <1>2, <1>3, <1>4, <1>5, <1>6, <1>7
<1>9. /\ p.kind = c.kind /\ p.object = c.object /\ p.input = c.input
      /\ p.cancelled = c.cancelled /\ DOMAIN p = DOMAIN c
    BY <1>3, <1>8, Fields
<1>10. p.todo = c.todo /\ p.asked = c.asked
    BY <1>3, <1>8, Fields
<1>11. p.taken = c.taken /\ p.unsure = c.unsure /\ p.unnamed = c.unnamed
    BY <1>3, <1>8, Fields
<1>12. p.limit = n /\ p.status = s
    BY <1>3, <1>8, Fields
<1>13. p.failed = f /\ p.step = t
    BY <1>3, <1>8, Fields
<1>14. CASE q.step = "add"
  <2>1. f = FALSE /\ t = LastStep(q) /\ s = markPending(q.status, ToSet(q.todo))
      BY <1>4, <1>5, <1>7, <1>14
  <2>2. /\ p.kind = q.kind /\ p.object = q.object /\ p.input = q.input
        /\ p.cancelled = q.cancelled /\ p.failed = FALSE /\ p.todo = q.todo
        /\ p.step = LastStep(q) /\ DOMAIN p = DOMAIN NoRequest
      BY <1>3, <1>9, <1>10, <1>13, <2>1
  <2>3. /\ p.asked = q.asked \o Batch(q) /\ p.limit = Len(q.asked \o Batch(q))
        /\ p.status = markPending(q.status, ToSet(q.todo))
        /\ p.taken = q.taken /\ p.unsure = q.unsure /\ p.unnamed = q.unnamed
      BY <1>3, <1>6, <1>10, <1>11, <1>12, <2>1
  <2>4. Sound(p)
      BY ONLY <1>1, <1>14, <2>2, <2>3, Stopped
  <2> QED
      BY <1>1, <1>13, <2>1, <2>4, SoundGood
<1>15. CASE q.step # "add"
  <2>1. f = TRUE /\ t = "answer" /\ s = q.status
      BY <1>4, <1>5, <1>7, <1>15
  <2>2. p.taken \ p.unsure \subseteq q.taken /\ p.limit \in {-1, Len(q.asked \o Batch(q))}
      BY <1>3, <1>6, <1>11, <1>12
  <2>3. Sound(p)
      BY <1>1, <1>3, <1>9, <1>10, <1>12, <1>13, <1>15, <2>1, <2>2, GivenUp
  <2> QED
      BY <1>13, <2>1, <2>3, SoundGood
<1> QED
    BY <1>14, <1>15

\* The answer of the call is lost.
LEMMA LostGood ==
    ASSUME NEW q, Good(q), q.step \in Calls, NEW taken \in SUBSET ToSet(Batch(q)),
           NEW p, p = [Called(q) EXCEPT
                    !.status = IF q.step = "add" THEN markPending(@, ToSet(Batch(q))) ELSE @,
                    !.todo = IF q.step = "add" THEN Rest(q) ELSE @,
                    !.failed = ~(q.step = "add"),
                    !.step = IF q.step = "add" THEN NextStep(q) ELSE "answer",
                    !.taken = @ \cup taken,
                    !.unsure = @ \cup ToSet(Batch(q))]
    PROVE  Good(p)
<1>0. PICK B : B = ToSet(Batch(q))
    OBVIOUS
<1>1. /\ Sound(q) /\ DOMAIN q = DOMAIN NoRequest
      /\ NextStep(q) # "idle"
    BY CallGood
<1>2. PICK c : c = Called(q)
    OBVIOUS
<1>3. /\ DOMAIN c = DOMAIN NoRequest /\ c.asked = q.asked \o Batch(q)
      /\ c.kind = q.kind /\ c.object = q.object /\ c.input = q.input /\ c.limit = q.limit
      /\ c.cancelled = q.cancelled /\ c.todo = q.todo /\ c.status = q.status
      /\ c.taken = q.taken /\ c.unsure = q.unsure /\ c.unnamed = q.unnamed
    BY <1>1, <1>2, AfterCall
<1>4. PICK s : s = IF q.step = "add" THEN markPending(q.status, B) ELSE q.status
    OBVIOUS
<1>5. PICK t : t = IF q.step = "add" THEN NextStep(q) ELSE "answer"
    OBVIOUS
<1>6. PICK w : w = IF q.step = "add" THEN Rest(q) ELSE q.todo
    OBVIOUS
<1>7. PICK f \in BOOLEAN : f <=> q.step # "add"
    <2>1. (q.step # "add") \in BOOLEAN
        OBVIOUS
    <2> QED
        BY <2>1
<1>8. p = [c EXCEPT !.status = s, !.todo = w, !.failed = f, !.step = t,
                    !.taken = @ \cup taken, !.unsure = @ \cup B]
    BY <1>0, <1>2, <1>3, <1>4, <1>5, <1>6, <1>7
<1>9. /\ p.kind = c.kind /\ p.object = c.object /\ p.input = c.input
      /\ p.cancelled = c.cancelled /\ DOMAIN p = DOMAIN c
  <2>1. p.kind = c.kind /\ p.object = c.object
      BY <1>3, <1>8, Fields
  <2>2. p.input = c.input /\ p.cancelled = c.cancelled
      BY <1>3, <1>8, Fields
  <2>3. DOMAIN p = DOMAIN c
      BY <1>8
  <2> QED
      BY <2>1, <2>2, <2>3
<1>10. p.limit = c.limit /\ p.asked = c.asked /\ p.unnamed = c.unnamed
    BY <1>3, <1>8, Fields
<1>11. p.taken = c.taken \cup taken /\ p.unsure = c.unsure \cup B
    BY <1>3, <1>8, Fields
<1>12. p.todo = w /\ p.status = s
    BY <1>3, <1>8, Fields
<1>13. p.failed = f /\ p.step = t
    BY <1>3, <1>8, Fields
<1>14. CASE q.step = "add"
  <2>1. f = FALSE /\ t = NextStep(q) /\ s = markPending(q.status, B) /\ w = Rest(q)
      BY <1>4, <1>5, <1>6, <1>7, <1>14
  <2>2. /\ B \subseteq DOMAIN q.status
        /\ \A e \in B : q.status[e] = "pending"
      BY <1>0, CallGood
  <2>3. \A e \in DOMAIN q.status : q.status[e] \in Statuses
      BY <1>1, Sounds
  <2>4. /\ DOMAIN p.status = DOMAIN q.status
        /\ \A e \in DOMAIN q.status \ B : p.status[e] = q.status[e]
        /\ \A e \in B : p.status[e] = "failed"
      BY <1>12, <2>1, <2>2 DEF markPending
  <2>5. \A e \in DOMAIN q.status : p.status[e] \in Statuses
      BY <2>3, <2>4 DEF Statuses
  <2>6. /\ p.kind = q.kind /\ p.object = q.object /\ p.input = q.input
        /\ p.cancelled = q.cancelled /\ p.failed = FALSE /\ p.limit = q.limit
        /\ p.asked = q.asked \o Batch(q) /\ p.todo = Rest(q) /\ p.step = NextStep(q)
        /\ DOMAIN p = DOMAIN NoRequest
      BY <1>3, <1>9, <1>10, <1>12, <1>13, <2>1
  <2>7. \A e \in B \ p.unnamed :
            /\ p.status[e] # "pending"
            /\ p.status[e] = "ok" => e \in p.taken
            /\ e \in p.taken => p.status[e] = "ok" \/ e \in p.unsure
      BY <1>11, <2>4
  <2>8. /\ p.taken \ B = q.taken \ B /\ p.unsure \ B = q.unsure \ B
        /\ p.unnamed \ B = q.unnamed \ B
      BY <1>0, <1>3, <1>10, <1>11
  <2>9. Advance(q, p, B)
      BY ONLY <2>4, <2>5, <2>6, <2>7, <2>8 DEF Advance
  <2>10. Sound(p)
      BY <1>0, <1>1, <2>9, Advanced
  <2> QED
      BY <1>1, <2>6, <2>10, SoundGood
<1>15. CASE q.step # "add"
  <2>1. f = TRUE /\ t = "answer" /\ s = q.status /\ w = q.todo
      BY <1>4, <1>5, <1>6, <1>7, <1>15
  <2>2. q.limit = -1
      BY <1>1 DEF Sound, OrderInv, Ahead, Calls
  <2>3. p.taken \ p.unsure \subseteq q.taken /\ p.limit \in {-1, Len(q.asked \o Batch(q))}
      BY <1>0, <1>3, <1>10, <1>11, <2>2
  <2>4. Sound(p)
      BY <1>1, <1>3, <1>9, <1>10, <1>12, <1>13, <1>15, <2>1, <2>3, GivenUp
  <2> QED
      BY <1>13, <2>1, <2>4, SoundGood
<1> QED
    BY <1>14, <1>15

-------------------------------------------------------------------------------
(***************************************************************************)
(* The actions, each as what it makes of one request.                      *)
(***************************************************************************)

\* A request that becomes p.
LEMMA Updated ==
    ASSUME IInv, CooldownInv', NEW r \in Requests, NEW p, Upd(r, p), Good(p)
    PROVE  IInv'
<1>1. req = [s \in Requests |-> req[s]] /\ \A s \in Requests : Good(req[s])
    BY DEF IInv, TypeOK, Good
<1>2. /\ req' = [s \in Requests |-> req'[s]]
      /\ \A s \in Requests : req'[s] = IF s = r THEN p ELSE req[s]
    BY <1>1 DEF Upd
<1>3. \A s \in Requests : Good(req'[s])
    BY <1>1, <1>2
<1>4. \A s \in Requests : Good(req[s])'
    BY <1>3 DEF Good, RequestOK, RequestInv, OrderInv, StepInv, AheadInv, ToldInv, FailureTrue,
       Rest, Batch
<1>5. CooldownTypeOK'
    BY DEF CooldownInv
<1> QED
    BY <1>2, <1>4, <1>5 DEF IInv, TypeOK, Good

\* Every request is.
LEMMA RequestGood ==
    ASSUME IInv, NEW r \in Requests
    PROVE  Good(req[r])
BY DEF IInv, TypeOK, Good

\* Begin takes the object from the map.
LEMMA BeginGood ==
    ASSUME IInv, NEW r \in Requests, NEW kind \in Kinds, NEW input \in Inputs,
           Begin(r, kind, input)
    PROVE  UNCHANGED cooldownVars /\ \E p : Upd(r, p) /\ Good(p)
<1>1. PICK o : o = cur
    OBVIOUS
<1>2. o \in Objects
    BY <1>1 DEF Begin, IInv, CooldownInv, CooldownTypeOK
<1>3. PICK t : t = FirstStep(kind, Resolved[input])
    OBVIOUS
<1>4. PICK w : w = Resolved[input]
    OBVIOUS
<1>5. PICK s : s = [e \in ToSet(w) |-> "pending"]
    OBVIOUS
<1>6. PICK p : p = [NoRequest EXCEPT !.step = t, !.kind = kind, !.object = o,
                                     !.input = input, !.todo = w, !.status = s]
    OBVIOUS
<1>7. Upd(r, p) /\ UNCHANGED cooldownVars
    BY <1>1, <1>3, <1>4, <1>5, <1>6 DEF Begin
<1>8. /\ DOMAIN p = DOMAIN NoRequest /\ p.step = t /\ p.kind = kind /\ p.object = o
      /\ p.input = input /\ p.todo = w /\ p.status = s
    BY <1>6 DEF NoRequest
<1>9. /\ p.cancelled = FALSE /\ p.failed = FALSE /\ p.asked = <<>> /\ p.limit = -1
      /\ p.taken = {} /\ p.unsure = {} /\ p.unnamed = {}
    BY <1>6 DEF NoRequest
<1>10. /\ p.step = FirstStep(kind, Resolved[input]) /\ p.todo = Resolved[input]
       /\ p.status = [e \in ToSet(Resolved[input]) |-> "pending"]
       /\ p.object \in Objects /\ input \in Inputs /\ kind \in Kinds
    BY <1>2, <1>3, <1>4, <1>5, <1>8
<1>11. Sound(p) /\ p.step \in Steps
    BY ONLY <1>8, <1>9, <1>10, Begun
<1>12. Good(p)
    BY <1>11, SoundGood DEF Steps
<1> QED
    BY <1>7, <1>12

\* One of the steps that change only where the request is.
LEMMA MovedGood ==
    ASSUME NEW q, Good(q), NEW step, NEW cancelled,
           \/ q.step = "check" /\ step = "create" /\ cancelled = q.cancelled
           \/ q.step = "pause" /\ step = "add" /\ cancelled = q.cancelled
           \/ q.step = "wrap" /\ step = "answer" /\ cancelled = q.cancelled
           \/ q.step # "idle" /\ step = q.step /\ cancelled = TRUE,
           NEW p, p = [q EXCEPT !.step = step, !.cancelled = cancelled]
    PROVE  Good(p)
<1>1. Sound(q)
    BY SoundGood
<1>2. DOMAIN q = DOMAIN NoRequest
    BY <1>1, Sounds
<1>3. DOMAIN p = DOMAIN NoRequest /\ p.step = step /\ p.cancelled = cancelled
    BY <1>2, Fields
<1>4. p.kind = q.kind /\ p.object = q.object /\ p.input = q.input /\ p.status = q.status
    BY <1>2, Fields
<1>5. p.failed = q.failed /\ p.asked = q.asked /\ p.limit = q.limit /\ p.todo = q.todo
    BY <1>2, Fields
<1>6. p.taken = q.taken /\ p.unsure = q.unsure /\ p.unnamed = q.unnamed
    BY <1>2, Fields
<1>7. Sound(p)
    BY <1>1, <1>3, <1>4, <1>5, <1>6, Moved
<1> QED
    BY <1>3, <1>7, SoundGood

\* The client hangs up.
LEMMA CancelGood ==
    ASSUME IInv, NEW r \in Requests, Cancel(r)
    PROVE  UNCHANGED cooldownVars /\ \E p : Upd(r, p) /\ Good(p)
<1>1. PICK q : q = req[r]
    OBVIOUS
<1>2. Good(q) /\ q.step # "idle" /\ DOMAIN q = DOMAIN NoRequest
    BY <1>1, RequestGood DEF Cancel, Good, RequestOK
<1>3. PICK p : p = [q EXCEPT !.cancelled = TRUE]
    OBVIOUS
<1>4. p = [q EXCEPT !.step = q.step, !.cancelled = TRUE]
    BY <1>2, <1>3, Fields
<1>5. Good(p)
    BY <1>2, <1>4, MovedGood
<1> QED
    BY <1>1, <1>3, <1>5 DEF Cancel

\* The cooldown lets the creation through, for the object the request holds.
LEMMA CheckGood ==
    ASSUME IInv, NEW r \in Requests, Check(r)
    PROVE  /\ \E o \in Objects : checkGroupCooldown(o)
           /\ \E p : Upd(r, p) /\ Good(p)
<1>1. PICK q : q = req[r]
    OBVIOUS
<1>2. Good(q) /\ q.step = "check" /\ DOMAIN q = DOMAIN NoRequest
    BY <1>1, RequestGood DEF Check, In, Good, RequestOK
<1>3. q.object \in Objects
    BY <1>2, SoundGood, Sounds
<1>4. PICK p : p = [q EXCEPT !.step = "create"]
    OBVIOUS
<1>5. p = [q EXCEPT !.step = "create", !.cancelled = q.cancelled]
    BY <1>2, <1>4, Fields
<1>6. Good(p)
    BY <1>2, <1>5, MovedGood
<1> QED
    BY <1>1, <1>3, <1>4, <1>6 DEF Check

\* The cooldown does not.
LEMMA RefuseGood ==
    ASSUME IInv, NEW r \in Requests, Refuse(r)
    PROVE  UNCHANGED cooldownVars /\ \E p : Upd(r, p) /\ Good(p)
<1>1. PICK q : q = req[r]
    OBVIOUS
<1>2. Good(q) /\ q.step = "check" /\ DOMAIN q = DOMAIN NoRequest
    BY <1>1, RequestGood DEF Refuse, In, Good, RequestOK
<1>3. Sound(q)
    BY <1>2, SoundGood
<1>4. PICK p : p = [q EXCEPT !.step = "answer", !.failed = TRUE]
    OBVIOUS
<1>5. DOMAIN p = DOMAIN NoRequest /\ p.step = "answer" /\ p.failed = TRUE
    BY <1>2, <1>4, Fields
<1>6. /\ p.kind = q.kind /\ p.object = q.object /\ p.input = q.input /\ p.status = q.status
      /\ p.cancelled = q.cancelled
    BY <1>2, <1>4, Fields
<1>7. p.asked = q.asked /\ p.limit = q.limit /\ p.todo = q.todo /\ p.taken = q.taken
    BY <1>2, <1>4, Fields
<1>8. Sound(p)
    BY <1>2, <1>3, <1>5, <1>6, <1>7, TurnedDown
<1>9. Good(p)
    BY <1>5, <1>8, SoundGood
<1> QED
    BY <1>1, <1>4, <1>9 DEF Refuse

\* A pause ends, the topic and the link are asked for.
LEMMA ContinueGood ==
    ASSUME IInv, NEW r \in Requests, Continue(r) \/ Wrap(r)
    PROVE  UNCHANGED cooldownVars /\ \E p : Upd(r, p) /\ Good(p)
<1>1. PICK q : q = req[r]
    OBVIOUS
<1>2. PICK step : step = IF q.step = "pause" THEN "add" ELSE "answer"
    OBVIOUS
<1>3. /\ Good(q) /\ DOMAIN q = DOMAIN NoRequest
      /\ \/ q.step = "pause" /\ step = "add"
         \/ q.step = "wrap" /\ step = "answer"
    BY <1>1, <1>2, RequestGood DEF Continue, Wrap, In, Good, RequestOK
<1>4. PICK p : p = [q EXCEPT !.step = step]
    OBVIOUS
<1>5. p = [q EXCEPT !.step = step, !.cancelled = q.cancelled]
    BY <1>3, <1>4, Fields
<1>6. Good(p)
    BY <1>3, <1>5, MovedGood
<1>7. UNCHANGED cooldownVars /\ Upd(r, p)
    BY <1>1, <1>2, <1>4 DEF Continue, Wrap, In
<1> QED
    BY <1>6, <1>7

\* A pause ends in the end of a cancelled request.
LEMMA CutGood ==
    ASSUME IInv, NEW r \in Requests, Cut(r)
    PROVE  UNCHANGED cooldownVars /\ \E p : Upd(r, p) /\ Good(p)
<1>1. PICK q : q = req[r]
    OBVIOUS
<1>2. Good(q) /\ q.step = "pause" /\ q.cancelled /\ DOMAIN q = DOMAIN NoRequest
    BY <1>1, RequestGood DEF Cut, In, Good, RequestOK
<1>3. Sound(q)
    BY <1>2, SoundGood
<1>4. PICK p : p = [q EXCEPT !.status = markPending(@, ToSet(Batch(q))), !.step = LastStep(q)]
    OBVIOUS
<1>5. /\ DOMAIN p = DOMAIN NoRequest /\ p.step = LastStep(q)
      /\ p.status = markPending(q.status, ToSet(Batch(q)))
    BY <1>2, <1>4, Fields
<1>6. /\ p.kind = q.kind /\ p.object = q.object /\ p.input = q.input
      /\ p.cancelled = q.cancelled /\ p.failed = q.failed
    BY <1>2, <1>4, Fields
<1>7. p.asked = q.asked /\ p.limit = q.limit /\ p.todo = q.todo
    BY <1>2, <1>4, Fields
<1>8. p.taken = q.taken /\ p.unsure = q.unsure /\ p.unnamed = q.unnamed
    BY <1>2, <1>4, Fields
<1>9. Sound(p)
    BY ONLY <1>2, <1>3, <1>5, <1>6, <1>7, <1>8, CutShort
<1>10. LastStep(q) # "idle"
    BY DEF LastStep
<1>11. Good(p)
    BY <1>5, <1>9, <1>10, SoundGood
<1> QED
    BY <1>1, <1>4, <1>11 DEF Cut

\* The calls.
LEMMA CalledGood ==
    ASSUME IInv, NEW r \in Requests, Answered(r) \/ Limited(r) \/ Lost(r)
    PROVE  UNCHANGED cooldownVars /\ \E p : Upd(r, p) /\ Good(p)
<1>1. PICK q : q = req[r]
    OBVIOUS
<1>2. Good(q) /\ q.step \in Calls
    BY <1>1, RequestGood DEF Answered, Limited, Lost, InCall, Calls
<1>3. UNCHANGED cooldownVars
    BY DEF Answered, Limited, Lost
<1>4. CASE Answered(r)
  <2>1. PICK refused \in SUBSET ToSet(Batch(q)), unnamed \in SUBSET ToSet(Batch(q)) :
            Upd(r, [Called(q) EXCEPT
                     !.status = IF q.step = "change"
                                THEN Named(@, ToSet(Batch(q)) \ unnamed, refused)
                                ELSE applyResults(@, ToSet(Batch(q)),
                                                  ToSet(Batch(q)) \ unnamed, refused),
                     !.todo = Rest(q),
                     !.step = NextStep(q),
                     !.taken = @ \cup (ToSet(Batch(q)) \ refused),
                     !.unnamed = @ \cup unnamed])
      BY <1>1, <1>4 DEF Answered, In
  <2> QED
      BY <1>2, <1>3, <2>1, AnsweredGood
<1>5. CASE Limited(r)
  <2>1. Upd(r, [Called(q) EXCEPT
                !.limit = Len(q.asked \o Batch(q)),
                !.status = IF q.step = "add" THEN markPending(@, ToSet(q.todo)) ELSE @,
                !.failed = ~(q.step = "add"),
                !.step = IF q.step = "add" THEN LastStep(q) ELSE "answer"])
      BY <1>1, <1>5 DEF Limited, In
  <2> QED
      BY <1>2, <1>3, <2>1, LimitedGood
<1>6. CASE Lost(r)
  <2>1. PICK taken \in SUBSET ToSet(Batch(q)) :
            Upd(r, [Called(q) EXCEPT
                    !.status = IF q.step = "add" THEN markPending(@, ToSet(Batch(q))) ELSE @,
                    !.todo = IF q.step = "add" THEN Rest(q) ELSE @,
                    !.failed = ~(q.step = "add"),
                    !.step = IF q.step = "add" THEN NextStep(q) ELSE "answer",
                    !.taken = @ \cup taken,
                    !.unsure = @ \cup ToSet(Batch(q))])
      BY <1>1, <1>6 DEF Lost, In
  <2> QED
      BY <1>2, <1>3, <2>1, LostGood
<1> QED
    BY <1>4, <1>5, <1>6

\* The request is answered.
LEMMA AnswerGood ==
    ASSUME NEW r \in Requests, Answer(r)
    PROVE  UNCHANGED cooldownVars /\ \E p : Upd(r, p) /\ Good(p)
BY NobodyGood DEF Answer

-------------------------------------------------------------------------------
(***************************************************************************)
(* The requests together, and the cooldown under them.                     *)
(***************************************************************************)

\* A step takes the requests on together with the cooldown under them.
LEMMA GroupStep ==
    ASSUME IInv, [Next]_groupVars
    PROVE  IInv' /\ [CooldownNext]_cooldownVars
<1>1. CooldownInv
    BY DEF IInv
<1>2. ASSUME NEW r \in Requests,
             \/ UNCHANGED cooldownVars
             \/ \E o \in Objects : checkGroupCooldown(o),
             \E p : Upd(r, p) /\ Good(p)
      PROVE  IInv' /\ [CooldownNext]_cooldownVars
  <2>1. [CooldownNext]_cooldownVars
      BY <1>2 DEF CooldownNext
  <2>2. CooldownInv'
      BY <1>1, <2>1, NextInv
  <2> QED
      BY <1>2, <2>1, <2>2, Updated
<1>3. ASSUME UNCHANGED req \/ req' = [r \in Requests |-> NoRequest],
             [CooldownNext]_cooldownVars
      PROVE  IInv'
  <2>1. CooldownInv'
      BY <1>1, <1>3, NextInv
  <2>2. CooldownTypeOK'
      BY <2>1 DEF CooldownInv
  <2>3. /\ req' = [r \in Requests |-> req'[r]]
        /\ \A r \in Requests : Good(req'[r])
    <3>1. CASE UNCHANGED req
        BY <3>1 DEF IInv, TypeOK, Good
    <3>2. CASE req' = [r \in Requests |-> NoRequest]
        BY <3>2, NobodyGood
    <3> QED
        BY <1>3, <3>1, <3>2
  <2>4. \A r \in Requests : Good(req[r])'
      BY <2>3 DEF Good, RequestOK, RequestInv, OrderInv, StepInv, AheadInv, ToldInv,
         FailureTrue, Rest, Batch
  <2> QED
      BY <2>1, <2>2, <2>3, <2>4 DEF IInv, TypeOK, Good
<1>4. CASE \E r \in Requests, kind \in Kinds, input \in Inputs : Begin(r, kind, input)
    BY <1>2, <1>4, BeginGood
<1>5. CASE \E r \in Requests : Check(r)
    BY <1>2, <1>5, CheckGood
<1>6. CASE \E r \in Requests : Cancel(r) \/ Refuse(r) \/ Cut(r)
    BY <1>2, <1>6, CancelGood, RefuseGood, CutGood
<1>7. CASE \E r \in Requests : Continue(r) \/ Wrap(r) \/ Answer(r)
    BY <1>2, <1>7, ContinueGood, AnswerGood
<1>8. CASE \E r \in Requests : Answered(r) \/ Limited(r) \/ Lost(r)
    BY <1>2, <1>8, CalledGood
<1>9. CASE Replace \/ SessionStep
  <2>1. UNCHANGED req /\ CooldownNext
      BY <1>9 DEF Replace, SessionStep, CooldownNext
  <2> QED
      BY <1>3, <2>1
<1>10. CASE ExitAll
  <2>1. req' = [r \in Requests |-> NoRequest] /\ CooldownNext
      BY <1>10 DEF ExitAll, CooldownNext
  <2> QED
      BY <1>3, <2>1
<1>11. CASE UNCHANGED groupVars
    BY <1>3, <1>11 DEF groupVars
<1> QED
    BY <1>4, <1>5, <1>6, <1>7, <1>8, <1>9, <1>10, <1>11 DEF Next

\* Nobody asks for anything at first.
LEMMA InitGroup == Init => IInv /\ CooldownInit
<1> SUFFICES ASSUME Init PROVE IInv /\ CooldownInit
    OBVIOUS
<1>1. CooldownInit /\ CooldownInv
    BY InitInv DEF Init
<1>2. req = [r \in Requests |-> req[r]] /\ \A r \in Requests : Good(req[r])
    BY NobodyGood DEF Init
<1>3. CooldownTypeOK
    BY <1>1 DEF CooldownInv
<1> QED
    BY <1>1, <1>2, <1>3 DEF IInv, TypeOK, Good

\* What is known of every request at every step, and of the cooldown under it.
THEOREM GroupInvariance == Spec => []IInv
<1>1. Init => IInv
    BY InitGroup
<1>2. IInv /\ [Next]_groupVars => IInv'
    BY GroupStep
<1> QED
    BY <1>1, <1>2, PTL DEF Spec

\* Nobody is asked about twice, nor anybody after a 429.
THEOREM AskedOnceKept == Spec => []AskedOnce
<1>1. IInv => AskedOnce
  <2> SUFFICES ASSUME IInv, NEW r \in Requests
               PROVE  IsInjective(req[r].asked) /\ req[r].limit \in {-1, Len(req[r].asked)}
      BY DEF AskedOnce
  <2>1. CASE req[r] = NoRequest
      BY <2>1, EmptySeq DEF NoRequest, IsInjective
  <2>2. CASE req[r] # NoRequest
      BY <2>2 DEF IInv, RequestInv, OrderInv
  <2> QED
      BY <2>1, <2>2
<1> QED
    BY <1>1, GroupInvariance, PTL

\* The answer is true, however the calls and the requests interleave.
THEOREM AnswersTrue == Spec => []AnswerTrue
<1>1. IInv => AnswerTrue
  <2> SUFFICES ASSUME IInv, NEW r \in Requests, In(r, "answer")
               PROVE  IF req[r].failed THEN FailureTrue(req[r])
                      ELSE ListTrue(req[r], ToSet(Rest(req[r])))
      BY DEF AnswerTrue
  <2>1. PICK q : q = req[r]
      OBVIOUS
  <2>2. q.step = "answer" /\ Sound(q)
      BY <2>1, RequestGood, SoundGood DEF In
  <2>3. q.input \in Inputs /\ DOMAIN q.status = ToSet(Resolved[q.input])
      BY <2>2, Sounds
  <2>4. IsInjective(Answers[q.input]) /\ ToSet(Answers[q.input]) = DOMAIN q.status
      BY <2>3, InputEntries
  <2>5. CASE q.failed
      BY <2>1, <2>2, <2>5 DEF Sound, ToldInv
  <2>6. CASE ~q.failed
    <3>1. \A e \in DOMAIN q.status \ q.unnamed :
            /\ q.status[e] = "ok" => e \in q.taken
            /\ e \in q.taken => q.status[e] = "ok" \/ e \in q.unsure
            /\ q.status[e] = "pending" => q.cancelled /\ e \in ToSet(Rest(q))
        BY <2>2, <2>6 DEF Sound, ToldInv, Ahead
    <3> QED
        BY <2>1, <2>4, <2>6, <3>1 DEF ListTrue
  <2> QED
      BY <2>5, <2>6
<1> QED
    BY <1>1, GroupInvariance, PTL

\* Whatever the requests do, the cooldown behaves as it does alone.
THEOREM GroupComposition == Spec => CooldownSpec
<1>1. Init => CooldownInit
    BY DEF Init
<1>2. IInv /\ [Next]_groupVars => [CooldownNext]_cooldownVars
    BY GroupStep
<1> QED
    BY <1>1, <1>2, GroupInvariance, PTL DEF Spec, CooldownSpec

\* Groups asked for by any number of requests, at any time, are paced.
THEOREM RequestsPaced == Spec => []CooldownInv /\ Paced
BY GroupComposition, CooldownInvariance, GroupsPaced, PTL
===============================================================================
