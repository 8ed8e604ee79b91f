---------------------------- MODULE ApiKeysProofs -----------------------------
(***************************************************************************)
(* Proofs about ApiKeys: the counts of a key and the cache of the table,   *)
(* for any number of keys, admin requests and uses.                        *)
(***************************************************************************)
EXTENDS ApiKeys, FiniteSetTheorems, TLAPS

USE KeysAssumption DEF KeysAssumption

LEMMA KeysInitInv == KeysInit => KeysInv
<1> SUFFICES ASSUME KeysInit PROVE KeysInv
    OBVIOUS
<1> USE DEF KeysInit
<1>1. KeysTypeOK
  <2>1. <<>> \in Seq(Nat)
      OBVIOUS
  <2>2. uses \in [Keys -> Seq(Nat)]
      BY <2>1
  <2>3. /\ rows \in [Keys -> Maybe(Row)] /\ cache \in [Keys -> Maybe(Entry)]
        /\ load \in [Admins -> [Keys -> Maybe(Entry)]]
      BY DEF Maybe
  <2>4. /\ phase \in [Admins -> {"idle", "query", "copy", "done"}]
        /\ todo \in [Admins -> SUBSET Keys]
        /\ taken \in [Keys -> Nat]
      OBVIOUS
  <2>5. now \in 1 .. MaxTime /\ keyFaults \in 0 .. MaxFaults
      OBVIOUS
  <2>6. /\ born \in SUBSET Keys /\ behind \in SUBSET Admins
        /\ outdated \in BOOLEAN /\ miscounted \in SUBSET Keys /\ unlimited \in SUBSET Keys
      OBVIOUS
  <2> HIDE DEF KeysInit
  <2> QED
      BY <2>2, <2>3, <2>4, <2>5, <2>6 DEF KeysTypeOK
<1>2. UnbornInv /\ CopyInv /\ LoadInv
    BY DEF UnbornInv, CopyInv, LoadInv, Reading
<1>3. CacheInv
    BY DEF CacheInv, Agrees
<1>4. Accounted
    BY DEF Accounted
<1> QED
    BY <1>1, <1>2, <1>3, <1>4 DEF KeysInv

\* What a write leaves alone: the counts and entries of every key that keeps its row.
LEMMA WriteInv ==
    ASSUME KeysInv, NEW a \in Admins, NEW table, Write(a, table),
           table \in [Keys -> Maybe(Row)],
           born \subseteq born', born' \subseteq Keys,
           \A k \in Keys \ born' : table[k] = NoKey,
           \A k \in Keys : table[k] # NoKey =>
               \/ rows[k] # NoKey /\ table[k].count = rows[k].count
               \/ k \notin born /\ table[k].count = 0
    PROVE  KeysInv'
<1>t. KeysTypeOK /\ UnbornInv /\ CopyInv /\ LoadInv /\ CacheInv /\ Accounted
    BY DEF KeysInv
<1>u. /\ rows' = table /\ phase[a] = "idle"
      /\ phase' = [phase EXCEPT ![a] = "query"]
      /\ behind' = Reading
      /\ UNCHANGED <<cache, load, todo, taken, now, keyFaults, uses, outdated, miscounted, unlimited>>
    BY DEF Write
<1>r. Reading' = Reading
    BY <1>t, <1>u DEF Reading, KeysTypeOK
<1>1. KeysTypeOK'
  <2>1. Reading \subseteq Admins
      BY DEF Reading
  <2> QED
      BY <1>t, <1>u, <2>1 DEF KeysTypeOK
<1>2. UnbornInv'
    BY <1>t, <1>u DEF UnbornInv
<1>3. CopyInv'
  <2> SUFFICES ASSUME NEW b \in Reading, NEW k \in Keys
               PROVE  /\ k \in todo[b] => load[b][k] # NoKey /\ load[b][k].delta = 0
                      /\ k \notin todo[b] /\ k \notin miscounted /\ table[k] # NoKey =>
                            Delta(load[b], k) = Delta(cache, k)
      BY <1>u, <1>r DEF CopyInv, Delta
  <2>1. k \in todo[b] => load[b][k] # NoKey /\ load[b][k].delta = 0
      BY <1>t DEF CopyInv
  <2>2. ASSUME k \notin todo[b], k \notin miscounted, table[k] # NoKey
        PROVE  Delta(load[b], k) = Delta(cache, k)
    <3>1. CASE rows[k] # NoKey
        BY <1>t, <2>2, <3>1 DEF CopyInv
    <3>2. CASE k \notin born
      <4>1. b \in Admins
          BY DEF Reading
      <4> QED
          BY <1>t, <3>2, <4>1 DEF UnbornInv, Delta
    <3> QED
        BY <2>2, <3>1, <3>2
  <2> QED
      BY <2>1, <2>2
<1>4. LoadInv'
    BY <1>u, <1>r DEF LoadInv
<1>5. CacheInv'
  <2>1. phase'[a] = "query"
      BY <1>t, <1>u DEF KeysTypeOK
  <2> QED
      BY <2>1 DEF CacheInv, Underway
<1>6. Accounted'
  <2> SUFFICES ASSUME NEW k \in Keys \ miscounted, table[k] # NoKey
               PROVE  table[k].count + taken[k] + Delta(cache, k) = Len(uses[k])
      BY <1>u DEF Accounted, Delta
  <2>1. CASE rows[k] # NoKey /\ table[k].count = rows[k].count
      BY <1>t, <2>1 DEF Accounted
  <2>2. CASE k \notin born /\ table[k].count = 0
      BY <1>t, <2>2 DEF UnbornInv, Delta
  <2> QED
      BY <2>1, <2>2
<1> QED
    BY <1>1, <1>2, <1>3, <1>4, <1>5, <1>6 DEF KeysInv

LEMMA CreateInv ==
    ASSUME KeysInv, NEW a \in Admins, NEW k \in Keys, Create(a, k) PROVE KeysInv'
<1> DEFINE row == [ver |-> 1, enabled |-> TRUE, count |-> 0]
           table == [rows EXCEPT ![k] = row]
<1>t. KeysTypeOK /\ UnbornInv
    BY DEF KeysInv
<1>1. row \in Row
    BY DEF Row
<1>2. table \in [Keys -> Maybe(Row)]
    BY <1>t, <1>1 DEF KeysTypeOK, Maybe
<1>3. k \notin born /\ born' = born \cup {k} /\ Write(a, table)
    BY DEF Create
<1>4. born' \subseteq Keys
    BY <1>t, <1>3 DEF KeysTypeOK
<1>5. \A j \in Keys : table[j] = IF j = k THEN row ELSE rows[j]
    BY <1>t DEF KeysTypeOK
<1>6. \A j \in Keys \ born' : table[j] = NoKey
    BY <1>t, <1>3, <1>5 DEF UnbornInv
<1>7. \A j \in Keys : table[j] # NoKey =>
          \/ rows[j] # NoKey /\ table[j].count = rows[j].count
          \/ j \notin born /\ table[j].count = 0
    BY <1>3, <1>5
<1> HIDE DEF table
<1> QED
    BY <1>2, <1>3, <1>4, <1>6, <1>7, WriteInv

\* The writes to a key that exists.
LEMMA ChangeInv ==
    ASSUME KeysInv, NEW a \in Admins, NEW k \in Keys,
           rows[k] # NoKey, NEW row \in Maybe(Row),
           row # NoKey => row.count = rows[k].count,
           Write(a, [rows EXCEPT ![k] = row]), UNCHANGED born
    PROVE  KeysInv'
<1> DEFINE table == [rows EXCEPT ![k] = row]
<1>t. KeysTypeOK /\ UnbornInv
    BY DEF KeysInv
<1>1. table \in [Keys -> Maybe(Row)]
    BY <1>t DEF KeysTypeOK
<1>2. \A j \in Keys : table[j] = IF j = k THEN row ELSE rows[j]
    BY <1>t DEF KeysTypeOK
<1>3. born \subseteq Keys
    BY <1>t DEF KeysTypeOK
<1>4. \A j \in Keys \ born' : table[j] = NoKey
    BY <1>t, <1>2 DEF UnbornInv
<1>5. \A j \in Keys : table[j] # NoKey =>
          \/ rows[j] # NoKey /\ table[j].count = rows[j].count
          \/ j \notin born /\ table[j].count = 0
    BY <1>2
<1> HIDE DEF table
<1>6. Write(a, table)
    BY DEF table
<1> QED
    BY <1>1, <1>3, <1>4, <1>5, <1>6, WriteInv

LEMMA AdminWritesInv ==
    ASSUME KeysInv, NEW a \in Admins, NEW k \in Keys,
           Rotate(a, k) \/ Update(a, k) \/ Delete(a, k)
    PROVE  KeysInv'
<1>t. KeysTypeOK
    BY DEF KeysInv
<1>1. rows[k] # NoKey /\ UNCHANGED born
    BY DEF Rotate, Update, Delete
<1>2. rows[k] \in Row
    BY <1>t, <1>1 DEF KeysTypeOK, Maybe
<1>3. CASE Rotate(a, k)
  <2> DEFINE row == [rows[k] EXCEPT !.ver = @ + 1]
  <2>1. row \in Maybe(Row) /\ row.count = rows[k].count
      BY <1>2, <1>3 DEF Row, Maybe, Rotate
  <2>2. Write(a, [rows EXCEPT ![k] = row])
      BY <1>3 DEF Rotate
  <2> HIDE DEF row
  <2> QED
      BY <1>1, <2>1, <2>2, ChangeInv
<1>4. CASE Update(a, k)
  <2>1. PICK on \in BOOLEAN : Write(a, [rows EXCEPT ![k].enabled = on])
      BY <1>4 DEF Update
  <2> DEFINE row == [rows[k] EXCEPT !.enabled = on]
  <2>2. row \in Maybe(Row) /\ row.count = rows[k].count
      BY <1>2 DEF Row, Maybe
  <2>3. Write(a, [rows EXCEPT ![k] = row])
      BY <2>1
  <2> HIDE DEF row
  <2> QED
      BY <1>1, <2>2, <2>3, ChangeInv
<1>5. CASE Delete(a, k)
  <2>1. Write(a, [rows EXCEPT ![k] = NoKey])
      BY <1>5 DEF Delete
  <2>2. NoKey \in Maybe(Row)
      BY DEF Maybe
  <2> QED
      BY <1>1, <2>1, <2>2, ChangeInv
<1> QED
    BY <1>3, <1>4, <1>5

\* The entries a reload starts from.
LEMMA LoadedType ==
    ASSUME NEW table \in [Keys -> Maybe(Row)]
    PROVE  /\ Loaded(table) \in [Keys -> Maybe(Entry)]
           /\ \A k \in Keys : Agrees(table[k], Loaded(table)[k])
           /\ \A k \in Keys : table[k] = NoKey => Loaded(table)[k] = NoKey
           /\ \A k \in Keys : table[k] # NoKey =>
                  Loaded(table)[k] # NoKey /\ Loaded(table)[k].delta = 0
           /\ \A k \in Keys : Delta(Loaded(table), k) = 0
<1>1. ASSUME NEW k \in Keys, table[k] # NoKey
      PROVE  Fresh(table[k]) \in Entry
  <2>1. table[k] \in Row
      BY <1>1 DEF Maybe
  <2> QED
      BY <2>1 DEF Row, Entry, Fresh
<1>2. \A k \in Keys : Loaded(table)[k] = IF table[k] = NoKey THEN NoKey ELSE Fresh(table[k])
    BY DEF Loaded
<1>3. Loaded(table) \in [Keys -> Maybe(Entry)]
    BY <1>1 DEF Loaded, Maybe
<1>4. \A k \in Keys : table[k] # NoKey => Fresh(table[k]) # NoKey
    BY <1>1
<1>5. \A k \in Keys : table[k] # NoKey =>
          /\ Fresh(table[k]).delta = 0
          /\ Fresh(table[k]).ver = table[k].ver
          /\ Fresh(table[k]).enabled = table[k].enabled
    BY DEF Fresh
<1> HIDE DEF Loaded, Fresh
<1> QED
    BY <1>2, <1>3, <1>4, <1>5 DEF Agrees, Delta

LEMMA QueryStepInv == ASSUME KeysInv, NEW a \in Admins, Query(a) PROVE KeysInv'
<1>t. KeysTypeOK /\ UnbornInv /\ CopyInv /\ LoadInv /\ CacheInv /\ Accounted
    BY DEF KeysInv
<1>u. /\ phase[a] = "query"
      /\ phase' = [phase EXCEPT ![a] = "copy"]
      /\ load' = [load EXCEPT ![a] = Loaded(rows)]
      /\ todo' = [todo EXCEPT ![a] = {k \in Keys : rows[k] # NoKey}]
      /\ behind' = behind \ {a}
      /\ UNCHANGED <<rows, cache, taken, now, keyFaults, born, uses, outdated, miscounted, unlimited>>
    BY DEF Query
<1>l. /\ Loaded(rows) \in [Keys -> Maybe(Entry)]
      /\ \A k \in Keys : Agrees(rows[k], Loaded(rows)[k])
      /\ \A k \in Keys : rows[k] = NoKey => Loaded(rows)[k] = NoKey
      /\ \A k \in Keys : rows[k] # NoKey =>
             Loaded(rows)[k] # NoKey /\ Loaded(rows)[k].delta = 0
    BY <1>t, LoadedType DEF KeysTypeOK
<1>r. Reading' = Reading \cup {a}
    BY <1>t, <1>u DEF Reading, KeysTypeOK
<1>a. \A b \in Admins : b # a => load'[b] = load[b] /\ todo'[b] = todo[b]
    BY <1>t, <1>u DEF KeysTypeOK
<1>b. load'[a] = Loaded(rows) /\ todo'[a] = {k \in Keys : rows[k] # NoKey}
    BY <1>t, <1>u DEF KeysTypeOK
<1>c. Reading \subseteq Admins
    BY DEF Reading
<1>1. KeysTypeOK'
    BY <1>t, <1>u, <1>l DEF KeysTypeOK
<1>2. UnbornInv'
  <2> SUFFICES ASSUME NEW k \in Keys \ born, NEW b \in Admins
               PROVE  load'[b][k] = NoKey
      BY <1>t, <1>u DEF UnbornInv
  <2>1. CASE b = a
      BY <1>t, <1>b, <1>l, <2>1 DEF UnbornInv
  <2>2. CASE b # a
      BY <1>t, <1>a, <2>2 DEF UnbornInv
  <2> QED
      BY <2>1, <2>2
<1>3. CopyInv'
  <2> SUFFICES ASSUME NEW b \in Reading \cup {a}, NEW k \in Keys
               PROVE  /\ k \in todo'[b] => load'[b][k] # NoKey /\ load'[b][k].delta = 0
                      /\ k \notin todo'[b] /\ k \notin miscounted /\ rows[k] # NoKey =>
                            Delta(load'[b], k) = Delta(cache, k)
      BY <1>u, <1>r DEF CopyInv, Delta
  <2>1. CASE b = a
      BY <1>b, <1>l, <2>1
  <2>2. CASE b # a
    <3>1. load'[b] = load[b] /\ todo'[b] = todo[b] /\ b \in Reading
        BY <1>a, <1>c, <2>2
    <3> QED
        BY <1>t, <3>1 DEF CopyInv
  <2> QED
      BY <2>1, <2>2
<1>4. LoadInv'
  <2> SUFFICES ASSUME NEW b \in (Reading \cup {a}) \ (behind \ {a}), NEW k \in Keys
               PROVE  Agrees(rows[k], load'[b][k])
      BY <1>u, <1>r DEF LoadInv, Agrees
  <2>1. CASE b = a
      BY <1>b, <1>l, <2>1
  <2>2. CASE b # a
    <3>1. load'[b] = load[b] /\ b \in Reading \ behind
        BY <1>a, <1>c, <2>2
    <3> QED
        BY <1>t, <3>1 DEF LoadInv
  <2> QED
      BY <2>1, <2>2
<1>5. CacheInv'
  <2>1. phase'[a] = "copy" /\ a \notin behind'
      BY <1>t, <1>u DEF KeysTypeOK
  <2> QED
      BY <2>1 DEF CacheInv, Underway
<1>6. Accounted'
    BY <1>t, <1>u DEF Accounted, Delta
<1> QED
    BY <1>1, <1>2, <1>3, <1>4, <1>5, <1>6 DEF KeysInv

LEMMA CopyStepInv ==
    ASSUME KeysInv, NEW a \in Admins, NEW k \in Keys, Copy(a, k) PROVE KeysInv'
<1> DEFINE prev == cache[k]
           next == load[a][k]
           copied == [next EXCEPT !.start = prev.start, !.used = prev.used, !.delta = prev.delta]
<1>t. KeysTypeOK /\ UnbornInv /\ CopyInv /\ LoadInv /\ CacheInv /\ Accounted
    BY DEF KeysInv
<1>u. /\ phase[a] = "copy" /\ k \in todo[a]
      /\ todo' = [todo EXCEPT ![a] = @ \ {k}]
      /\ miscounted \subseteq miscounted'
      /\ UNCHANGED <<rows, cache, phase, taken, now, keyFaults, born, uses, behind, outdated>>
    BY DEF Copy
<1>v. \/ SameSecret(prev, next) /\ load' = [load EXCEPT ![a][k] = copied]
          /\ UNCHANGED <<miscounted, unlimited>>
      \/ /\ ~SameSecret(prev, next) /\ UNCHANGED load
         /\ miscounted' = miscounted \cup With({k}, "delta")
         /\ unlimited' = unlimited \cup With({k}, "used")
    BY DEF Copy
<1>n. a \in Reading /\ Reading' = Reading /\ Reading \subseteq Admins
    BY <1>u DEF Reading
<1>o. next # NoKey /\ next.delta = 0
    BY <1>t, <1>u, <1>n DEF CopyInv
<1>p. next \in Entry /\ (prev # NoKey => prev \in Entry)
    BY <1>t, <1>o DEF KeysTypeOK, Maybe
<1>q. SameSecret(prev, next) =>
          /\ copied \in Entry
          /\ copied.ver = next.ver /\ copied.enabled = next.enabled
          /\ copied.delta = prev.delta
    BY <1>p DEF SameSecret, Entry
<1>w. \A b \in Admins, j \in Keys :
          /\ b # a \/ j # k => load'[b][j] = load[b][j]
          /\ ~SameSecret(prev, next) => load'[b][j] = load[b][j]
          /\ b = a /\ j = k /\ SameSecret(prev, next) => load'[b][j] = copied
    BY <1>t, <1>v DEF KeysTypeOK
<1>x. \A b \in Admins : todo'[b] = IF b = a THEN todo[a] \ {k} ELSE todo[b]
    BY <1>t, <1>u DEF KeysTypeOK
<1>y. load' \in [Admins -> [Keys -> Maybe(Entry)]]
  <2>1. load \in [Admins -> [Keys -> Maybe(Entry)]]
      BY <1>t DEF KeysTypeOK
  <2>2. CASE SameSecret(prev, next)
    <3>1. copied \in Maybe(Entry)
        BY <1>q, <2>2 DEF Maybe
    <3>2. load' = [load EXCEPT ![a][k] = copied]
        BY <1>v, <2>2
    <3> HIDE DEF copied
    <3> QED
        BY <2>1, <3>1, <3>2
  <2> QED
      BY <1>v, <2>1, <2>2
<1>z. NoKey \notin Entry
    OBVIOUS
<1> HIDE DEF prev, next, copied
<1>1. KeysTypeOK'
  <2>1. miscounted' \subseteq Keys /\ unlimited' \subseteq Keys
    <3>1. With({k}, "delta") \subseteq Keys /\ With({k}, "used") \subseteq Keys
        BY DEF With
    <3>2. miscounted \subseteq Keys /\ unlimited \subseteq Keys
        BY <1>t DEF KeysTypeOK
    <3> QED
        BY <1>v, <3>1, <3>2
  <2>2. todo' \in [Admins -> SUBSET Keys]
      BY <1>t, <1>u DEF KeysTypeOK
  <2> QED
      BY <1>t, <1>u, <1>y, <2>1, <2>2 DEF KeysTypeOK
<1>2. UnbornInv'
  <2>1. k \in born
      BY <1>t, <1>o DEF UnbornInv, next
  <2> QED
      BY <1>t, <1>u, <1>w, <2>1 DEF UnbornInv
<1>3. CopyInv'
  <2> SUFFICES ASSUME NEW b \in Reading, NEW j \in Keys
               PROVE  /\ j \in todo'[b] => load'[b][j] # NoKey /\ load'[b][j].delta = 0
                      /\ j \notin todo'[b] /\ j \notin miscounted' /\ rows[j] # NoKey =>
                            Delta(load'[b], j) = Delta(cache, j)
      BY <1>u, <1>n DEF CopyInv, Delta
  <2>0. b \in Admins
      BY <1>n
  <2>1. CASE b # a \/ j # k
    <3>1. load'[b][j] = load[b][j] /\ (j \in todo'[b] <=> j \in todo[b])
        BY <1>w, <1>x, <2>0, <2>1
    <3>2. j \notin miscounted' => j \notin miscounted
        BY <1>u
    <3> QED
        BY <1>t, <3>1, <3>2 DEF CopyInv, Delta
  <2>2. CASE b = a /\ j = k
    <3>1. j \notin todo'[b]
        BY <1>x, <2>0, <2>2
    <3>2. CASE SameSecret(prev, next)
      <4>1. load'[b][j] = copied /\ copied # NoKey /\ cache[j] # NoKey
          BY <1>w, <1>q, <1>z, <2>0, <2>2, <3>2 DEF SameSecret, prev
      <4> QED
          BY <1>q, <2>2, <3>1, <3>2, <4>1 DEF Delta, prev
    <3>3. CASE ~SameSecret(prev, next)
      <4>1. load'[b][j] = next
          BY <1>w, <2>0, <2>2, <3>3 DEF next
      <4>2. Delta(load'[b], j) = 0
          BY <1>o, <4>1 DEF Delta
      <4>3. ASSUME j \notin miscounted' PROVE Delta(cache, j) = 0
        <5>1. j \notin With({k}, "delta")
            BY <1>v, <3>3, <4>3
        <5>2. CASE prev = NoKey
            BY <2>2, <5>2 DEF Delta, prev
        <5>3. CASE prev # NoKey
          <6>1. ~(prev.delta > 0) /\ prev.delta \in Nat
              BY <1>p, <2>2, <5>1, <5>3 DEF With, prev, Entry
          <6> QED
              BY <2>2, <5>3, <6>1 DEF Delta, prev
        <5> QED
            BY <5>2, <5>3
      <4> QED
          BY <3>1, <4>2, <4>3
    <3> QED
        BY <3>2, <3>3
  <2> QED
      BY <2>1, <2>2
<1>4. LoadInv'
  <2> SUFFICES ASSUME NEW b \in Reading \ behind, NEW j \in Keys
               PROVE  Agrees(rows[j], load'[b][j])
      BY <1>u, <1>n DEF LoadInv, Agrees
  <2>0. b \in Admins /\ Agrees(rows[j], load[b][j])
      BY <1>t, <1>n DEF LoadInv
  <2>1. CASE load'[b][j] = load[b][j]
      BY <2>0, <2>1
  <2>2. CASE load'[b][j] # load[b][j]
    <3>1. b = a /\ j = k /\ SameSecret(prev, next) /\ load'[b][j] = copied
        BY <1>w, <2>0, <2>2
    <3>2. copied # NoKey /\ load[b][j] = next
        BY <1>q, <1>z, <3>1 DEF next
    <3> QED
        BY <1>q, <1>o, <2>0, <3>1, <3>2 DEF Agrees
  <2> QED
      BY <2>1, <2>2
<1>5. CacheInv'
    BY <1>t, <1>u DEF CacheInv, Underway
<1>6. Accounted'
    BY <1>t, <1>u DEF Accounted, Delta
<1> QED
    BY <1>1, <1>2, <1>3, <1>4, <1>5, <1>6 DEF KeysInv

LEMMA SwapInv == ASSUME KeysInv, NEW a \in Admins, Swap(a) PROVE KeysInv'
<1> DEFINE empty == [k \in Keys |-> NoKey]
<1>t. KeysTypeOK /\ UnbornInv /\ CopyInv /\ LoadInv /\ CacheInv /\ Accounted
    BY DEF KeysInv
<1>u. /\ phase[a] = "copy" /\ todo[a] = {}
      /\ cache' = load[a] /\ outdated' = (a \in behind)
      /\ behind' = behind \ {a}
      /\ phase' = [phase EXCEPT ![a] = "done"]
      /\ load' = [load EXCEPT ![a] = empty]
      /\ todo' = [todo EXCEPT ![a] = {}]
      /\ UNCHANGED <<rows, taken, now, keyFaults, born, uses, miscounted, unlimited>>
    BY DEF Swap, Done
<1>n. a \in Reading /\ Reading \subseteq Admins
    BY <1>u DEF Reading
<1>r. Reading' = Reading \ {a}
    BY <1>t, <1>u DEF Reading, KeysTypeOK
<1>a. \A b \in Admins : b # a => load'[b] = load[b] /\ todo'[b] = todo[b]
    BY <1>t, <1>u DEF KeysTypeOK
<1>d. \A k \in Keys : k \notin miscounted /\ rows[k] # NoKey =>
          Delta(load[a], k) = Delta(cache, k)
    BY <1>t, <1>u, <1>n DEF CopyInv
<1>1. KeysTypeOK'
  <2>1. empty \in [Keys -> Maybe(Entry)]
      BY DEF Maybe
  <2> HIDE DEF empty
  <2> QED
      BY <1>t, <1>u, <2>1 DEF KeysTypeOK
<1>2. UnbornInv'
  <2>1. ASSUME NEW k \in Keys \ born, NEW b \in Admins PROVE load'[b][k] = NoKey
    <3>1. CASE b = a
        BY <1>t, <1>u, <3>1 DEF KeysTypeOK
    <3>2. CASE b # a
        BY <1>t, <1>a, <3>2 DEF UnbornInv
    <3> QED
        BY <3>1, <3>2
  <2> QED
      BY <1>t, <1>u, <2>1 DEF UnbornInv
<1>3. CopyInv'
  <2> SUFFICES ASSUME NEW b \in Reading \ {a}, NEW k \in Keys
               PROVE  /\ k \in todo'[b] => load'[b][k] # NoKey /\ load'[b][k].delta = 0
                      /\ k \notin todo'[b] /\ k \notin miscounted /\ rows[k] # NoKey =>
                            Delta(load'[b], k) = Delta(load[a], k)
      BY <1>u, <1>r DEF CopyInv, Delta
  <2>1. load'[b] = load[b] /\ todo'[b] = todo[b]
      BY <1>a, <1>n
  <2> QED
      BY <1>t, <1>d, <2>1 DEF CopyInv
<1>4. LoadInv'
  <2> SUFFICES ASSUME NEW b \in (Reading \ {a}) \ (behind \ {a}), NEW k \in Keys
               PROVE  Agrees(rows[k], load'[b][k])
      BY <1>u, <1>r DEF LoadInv, Agrees
  <2>1. load'[b] = load[b]
      BY <1>a, <1>n
  <2> QED
      BY <1>t, <2>1 DEF LoadInv
<1>5. CacheInv'
  <2>1. CASE a \in behind
      BY <1>u, <2>1 DEF CacheInv
  <2>2. CASE a \notin behind
    <3>1. \A k \in Keys : Agrees(rows[k], load[a][k])
        BY <1>t, <1>n, <2>2 DEF LoadInv
    <3> QED
        BY <1>u, <3>1 DEF CacheInv, Agrees
  <2> QED
      BY <2>1, <2>2
<1>6. Accounted'
  <2> SUFFICES ASSUME NEW k \in Keys \ miscounted, rows[k] # NoKey
               PROVE  rows[k].count + taken[k] + Delta(load[a], k) = Len(uses[k])
      BY <1>u DEF Accounted, Delta
  <2> QED
      BY <1>t, <1>d DEF Accounted
<1> QED
    BY <1>1, <1>2, <1>3, <1>4, <1>5, <1>6 DEF KeysInv

LEMMA ReloadFailsInv == ASSUME KeysInv, NEW a \in Admins, ReloadFails(a) PROVE KeysInv'
<1> DEFINE empty == [k \in Keys |-> NoKey]
<1>t. KeysTypeOK /\ UnbornInv /\ CopyInv /\ LoadInv /\ CacheInv /\ Accounted
    BY DEF KeysInv
<1>u. /\ outdated' = TRUE
      /\ behind' = behind \ {a}
      /\ phase' = [phase EXCEPT ![a] = "done"]
      /\ load' = [load EXCEPT ![a] = empty]
      /\ todo' = [todo EXCEPT ![a] = {}]
      /\ UNCHANGED <<rows, cache, taken, now, keyFaults, born, uses, miscounted, unlimited>>
    BY DEF ReloadFails, Done
<1>r. Reading' = Reading \ {a} /\ Reading \subseteq Admins
    BY <1>t, <1>u DEF Reading, KeysTypeOK
<1>a. \A b \in Admins : b # a => load'[b] = load[b] /\ todo'[b] = todo[b]
    BY <1>t, <1>u DEF KeysTypeOK
<1>1. KeysTypeOK'
  <2>1. empty \in [Keys -> Maybe(Entry)]
      BY DEF Maybe
  <2> HIDE DEF empty
  <2> QED
      BY <1>t, <1>u, <2>1 DEF KeysTypeOK
<1>2. UnbornInv'
  <2>1. ASSUME NEW k \in Keys \ born, NEW b \in Admins PROVE load'[b][k] = NoKey
    <3>1. CASE b = a
        BY <1>t, <1>u, <3>1 DEF KeysTypeOK
    <3>2. CASE b # a
        BY <1>t, <1>a, <3>2 DEF UnbornInv
    <3> QED
        BY <3>1, <3>2
  <2> QED
      BY <1>t, <1>u, <2>1 DEF UnbornInv
<1>3. CopyInv'
  <2> SUFFICES ASSUME NEW b \in Reading \ {a}, NEW k \in Keys
               PROVE  /\ k \in todo'[b] => load'[b][k] # NoKey /\ load'[b][k].delta = 0
                      /\ k \notin todo'[b] /\ k \notin miscounted /\ rows[k] # NoKey =>
                            Delta(load'[b], k) = Delta(cache, k)
      BY <1>u, <1>r DEF CopyInv, Delta
  <2>1. load'[b] = load[b] /\ todo'[b] = todo[b]
      BY <1>a, <1>r
  <2> QED
      BY <1>t, <2>1 DEF CopyInv
<1>4. LoadInv'
  <2> SUFFICES ASSUME NEW b \in (Reading \ {a}) \ (behind \ {a}), NEW k \in Keys
               PROVE  Agrees(rows[k], load'[b][k])
      BY <1>u, <1>r DEF LoadInv, Agrees
  <2>1. load'[b] = load[b]
      BY <1>a, <1>r
  <2> QED
      BY <1>t, <2>1 DEF LoadInv
<1>5. CacheInv'
    BY <1>u DEF CacheInv
<1>6. Accounted'
    BY <1>t, <1>u DEF Accounted, Delta
<1> QED
    BY <1>1, <1>2, <1>3, <1>4, <1>5, <1>6 DEF KeysInv

-------------------------------------------------------------------------------
(***************************************************************************)
(* Requests and the flusher.                                               *)
(***************************************************************************)

\* What Change(k, e) keeps, when e is the entry of k with other counters.
LEMMA ChangedEntry ==
    ASSUME KeysInv, NEW k \in Keys, NEW e \in Entry, cache[k] # NoKey,
           e.ver = cache[k].ver, e.enabled = cache[k].enabled,
           Change(k, e), UNCHANGED <<rows, phase, todo, behind, outdated>>
    PROVE  /\ cache' \in [Keys -> Maybe(Entry)]
           /\ load' \in [Admins -> [Keys -> Maybe(Entry)]]
           /\ cache'[k] = e
           /\ \A j \in Keys : j # k => cache'[j] = cache[j]
           /\ \A a \in Admins, j \in Keys :
                 j # k \/ a \notin Copied(k) => load'[a][j] = load[a][j]
           /\ \A a \in Admins, j \in Keys : load[a][j] = NoKey => load'[a][j] = NoKey
           /\ LoadInv' /\ CacheInv'
<1>t. KeysTypeOK /\ LoadInv /\ CacheInv
    BY DEF KeysInv
<1>1. /\ cache' \in [Keys -> Maybe(Entry)]
      /\ cache'[k] = e
      /\ \A j \in Keys : j # k => cache'[j] = cache[j]
    BY <1>t DEF KeysTypeOK, Change, Maybe
<1>2. PICK seen \in [Copied(k) -> SUBSET Counters] :
          load' = [a \in Admins |->
              IF a \in Copied(k) /\ SameSecret(load[a][k], e)
              THEN [load[a] EXCEPT ![k] = [c \in DOMAIN @ |->
                       IF c \in seen[a] THEN e[c] ELSE @[c]]]
              ELSE load[a]]
    BY DEF Change
<1> DEFINE mixed(a) == [c \in DOMAIN load[a][k] |-> IF c \in seen[a] THEN e[c] ELSE load[a][k][c]]
<1>3. ASSUME NEW a \in Admins, a \in Copied(k), SameSecret(load[a][k], e)
      PROVE  /\ mixed(a) \in Entry
             /\ mixed(a).ver = load[a][k].ver /\ mixed(a).enabled = load[a][k].enabled
             /\ load'[a] = [load[a] EXCEPT ![k] = mixed(a)]
  <2>1. load[a][k] \in Entry
      BY <1>t, <1>3 DEF KeysTypeOK, SameSecret, Maybe
  <2>2. seen[a] \subseteq Counters
      BY <1>2, <1>3
  <2>3. DOMAIN load[a][k] = {"ver", "enabled", "start", "used", "delta"}
      BY <2>1 DEF Entry
  <2>4. mixed(a) \in Entry /\ mixed(a).ver = load[a][k].ver
        /\ mixed(a).enabled = load[a][k].enabled
      BY <2>1, <2>2, <2>3 DEF Entry, Counters
  <2>5. load'[a] = [load[a] EXCEPT ![k] = mixed(a)]
      BY <1>2, <1>3
  <2> QED
      BY <2>4, <2>5
<1>4. \A a \in Admins : ~(a \in Copied(k) /\ SameSecret(load[a][k], e)) => load'[a] = load[a]
    BY <1>2
<1>5. DOMAIN load' = Admins
    BY <1>2
<1>6. ASSUME NEW a \in Admins
      PROVE  /\ load'[a] \in [Keys -> Maybe(Entry)]
             /\ \A j \in Keys : j # k \/ a \notin Copied(k) => load'[a][j] = load[a][j]
             /\ \A j \in Keys : load[a][j] = NoKey => load'[a][j] = NoKey
             /\ \A j \in Keys : Agrees(rows[j], load[a][j]) => Agrees(rows[j], load'[a][j])
  <2>1. load[a] \in [Keys -> Maybe(Entry)]
      BY <1>t DEF KeysTypeOK
  <2>2. CASE ~(a \in Copied(k) /\ SameSecret(load[a][k], e))
      BY <1>4, <2>1, <2>2
  <2>3. CASE a \in Copied(k) /\ SameSecret(load[a][k], e)
    <3>1. /\ mixed(a) \in Entry
          /\ mixed(a).ver = load[a][k].ver /\ mixed(a).enabled = load[a][k].enabled
          /\ load'[a] = [load[a] EXCEPT ![k] = mixed(a)]
        BY <1>3, <2>3
    <3> HIDE DEF mixed
    <3>2. load'[a] \in [Keys -> Maybe(Entry)]
        BY <2>1, <3>1 DEF Maybe
    <3>3. load[a][k] # NoKey
        BY <2>3 DEF SameSecret
    <3>4. \A j \in Keys : load'[a][j] = IF j = k THEN mixed(a) ELSE load[a][j]
        BY <2>1, <3>1
    <3>5. mixed(a) # NoKey
        BY <3>1
    <3> QED
        BY <2>3, <3>1, <3>2, <3>3, <3>4, <3>5 DEF Agrees
  <2> QED
      BY <2>2, <2>3
<1>7. load' \in [Admins -> [Keys -> Maybe(Entry)]]
  <2>1. load' = [a \in Admins |-> load'[a]]
      BY <1>2
  <2> QED
      BY <1>6, <2>1
<1>8. LoadInv'
  <2> SUFFICES ASSUME NEW a \in Reading \ behind, NEW j \in Keys
               PROVE  Agrees(rows[j], load'[a][j])
      BY DEF LoadInv, Reading, Agrees
  <2>1. a \in Admins
      BY DEF Reading
  <2> QED
      BY <1>t, <1>6, <2>1 DEF LoadInv
<1>9. CacheInv'
  <2>1. \A j \in Keys : Agrees(rows[j], cache[j]) => Agrees(rows[j], cache'[j])
      BY <1>1 DEF Agrees
  <2> QED
      BY <1>t, <2>1 DEF CacheInv, Underway, Agrees
<1> QED
    BY <1>1, <1>6, <1>7, <1>8, <1>9

\* The part of the invariant about counters, when one entry changes.
LEMMA ChangedInv ==
    ASSUME KeysInv, NEW k \in Keys, k \in born,
           cache' \in [Keys -> Maybe(Entry)], load' \in [Admins -> [Keys -> Maybe(Entry)]],
           \A j \in Keys : j # k => cache'[j] = cache[j],
           \A a \in Admins, j \in Keys :
               j # k \/ a \notin Copied(k) => load'[a][j] = load[a][j],
           \A a \in Admins, j \in Keys : load[a][j] = NoKey => load'[a][j] = NoKey,
           \A j \in Keys : j # k => uses'[j] = uses[j] /\ taken'[j] = taken[j],
           miscounted' = miscounted \cup Caught(k),
           UNCHANGED <<rows, phase, todo, born>>
    PROVE  /\ UnbornInv' /\ CopyInv'
           /\ (k \notin miscounted /\ rows[k] # NoKey =>
                  rows[k].count + taken'[k] + Delta(cache', k) = Len(uses'[k]))
                => Accounted'
<1>t. UnbornInv /\ CopyInv /\ Accounted
    BY DEF KeysInv
<1>1. UnbornInv'
    BY <1>t DEF UnbornInv
<1>2. CopyInv'
  <2> SUFFICES ASSUME NEW a \in Reading, NEW j \in Keys
               PROVE  /\ j \in todo[a] => load'[a][j] # NoKey /\ load'[a][j].delta = 0
                      /\ j \notin todo[a] /\ j \notin miscounted' /\ rows[j] # NoKey =>
                            Delta(load'[a], j) = Delta(cache', j)
      BY DEF CopyInv, Reading, Delta
  <2>0. a \in Admins
      BY DEF Reading
  <2>1. CASE j # k
    <3>1. load'[a][j] = load[a][j] /\ cache'[j] = cache[j]
        BY <2>0, <2>1
    <3> QED
        BY <1>t, <3>1 DEF CopyInv, Delta
  <2>2. CASE j = k /\ j \in todo[a]
    <3>1. a \notin Copied(k)
        BY <2>2 DEF Copied
    <3>2. load'[a][j] = load[a][j]
        BY <2>0, <3>1
    <3> QED
        BY <1>t, <2>2, <3>2 DEF CopyInv
  <2>3. CASE j = k /\ j \notin todo[a]
    <3>1. a \in Copied(k)
        BY <2>3 DEF Copied
    <3>2. k \in miscounted'
        BY <3>1 DEF Caught
    <3> QED
        BY <2>3, <3>2
  <2> QED
      BY <2>1, <2>2, <2>3
<1>3. ASSUME k \notin miscounted /\ rows[k] # NoKey =>
                 rows[k].count + taken'[k] + Delta(cache', k) = Len(uses'[k])
      PROVE  Accounted'
  <2> SUFFICES ASSUME NEW j \in Keys \ miscounted', rows[j] # NoKey
               PROVE  rows[j].count + taken'[j] + Delta(cache', j) = Len(uses'[j])
      BY DEF Accounted, Delta
  <2>1. j \notin miscounted
      OBVIOUS
  <2>2. CASE j = k
      BY <1>3, <2>1, <2>2
  <2>3. CASE j # k
    <3>1. cache'[j] = cache[j] /\ taken'[j] = taken[j] /\ uses'[j] = uses[j]
        BY <2>3
    <3>2. Delta(cache', j) = Delta(cache, j)
        BY <3>1 DEF Delta
    <3> QED
        BY <1>t, <2>1, <3>1, <3>2 DEF Accounted
  <2> QED
      BY <2>2, <2>3
<1> QED
    BY <1>1, <1>2, <1>3

LEMMA UseEntry ==
    ASSUME KeysTypeOK, NEW k \in Keys, cache[k] # NoKey
    PROVE  /\ Use(k) \in Entry
           /\ Use(k).ver = cache[k].ver /\ Use(k).enabled = cache[k].enabled
           /\ Use(k).delta = cache[k].delta + 1
<1>1. cache[k] \in Entry /\ now \in Nat
    BY DEF KeysTypeOK, Maybe
<1>2. /\ Current(cache[k]) \in Entry
      /\ Current(cache[k]).ver = cache[k].ver /\ Current(cache[k]).enabled = cache[k].enabled
      /\ Current(cache[k]).delta = cache[k].delta
    BY <1>1 DEF Current, Entry
<1>3. /\ InWindow(cache[k]) \in Entry
      /\ InWindow(cache[k]).ver = cache[k].ver /\ InWindow(cache[k]).enabled = cache[k].enabled
      /\ InWindow(cache[k]).delta = cache[k].delta
  <2>1. CASE RateLimit > 0
    <3>1. InWindow(cache[k]) = [Current(cache[k]) EXCEPT !.used = @ + 1]
        BY <2>1 DEF InWindow
    <3> HIDE DEF Current, InWindow
    <3> QED
        BY <1>2, <3>1 DEF Entry
  <2>2. CASE ~(RateLimit > 0)
      BY <1>1, <2>2 DEF InWindow
  <2> QED
      BY <2>1, <2>2
<1> HIDE DEF InWindow
<1> QED
    BY <1>3 DEF Use, Entry

LEMMA AuthenticateInv ==
    ASSUME KeysInv, NEW k \in Keys, NEW v \in 1 .. MaxVersion, Authenticate(k, v)
    PROVE  KeysInv'
<1>t. KeysTypeOK /\ UnbornInv /\ Accounted
    BY DEF KeysInv
<1>u. /\ Change(k, Use(k))
      /\ uses' = [uses EXCEPT ![k] = Append(@, now)]
      /\ miscounted' = miscounted \cup Caught(k)
      /\ unlimited' = unlimited \cup Caught(k)
      /\ UNCHANGED <<rows, phase, todo, taken, now, keyFaults, born, behind, outdated>>
    BY DEF Authenticate
<1>v. cache[k] # NoKey
    BY DEF Authenticate, Valid
<1>w. k \in born
    BY <1>t, <1>v DEF UnbornInv
<1>e. /\ Use(k) \in Entry
      /\ Use(k).ver = cache[k].ver /\ Use(k).enabled = cache[k].enabled
      /\ Use(k).delta = cache[k].delta + 1
    BY <1>t, <1>v, UseEntry
<1>c. /\ cache' \in [Keys -> Maybe(Entry)]
      /\ load' \in [Admins -> [Keys -> Maybe(Entry)]]
      /\ cache'[k] = Use(k)
      /\ \A j \in Keys : j # k => cache'[j] = cache[j]
      /\ \A a \in Admins, j \in Keys :
            j # k \/ a \notin Copied(k) => load'[a][j] = load[a][j]
      /\ \A a \in Admins, j \in Keys : load[a][j] = NoKey => load'[a][j] = NoKey
      /\ LoadInv' /\ CacheInv'
    BY <1>e, <1>u, <1>v, ChangedEntry
<1>s. /\ uses' \in [Keys -> Seq(Nat)] /\ Len(uses'[k]) = Len(uses[k]) + 1
      /\ \A j \in Keys : j # k => uses'[j] = uses[j]
  <2>1. uses[k] \in Seq(Nat) /\ now \in Nat
      BY <1>t DEF KeysTypeOK
  <2>2. Append(uses[k], now) \in Seq(Nat) /\ Len(Append(uses[k], now)) = Len(uses[k]) + 1
      BY <2>1
  <2> QED
      BY <1>t, <1>u, <2>2 DEF KeysTypeOK
<1>1. KeysTypeOK'
  <2>1. Caught(k) \subseteq Keys
      BY DEF Caught
  <2> QED
      BY <1>t, <1>u, <1>c, <1>s, <2>1 DEF KeysTypeOK
<1>2. k \notin miscounted /\ rows[k] # NoKey =>
          rows[k].count + taken'[k] + Delta(cache', k) = Len(uses'[k])
  <2> SUFFICES ASSUME k \notin miscounted, rows[k] # NoKey
               PROVE  rows[k].count + taken[k] + Delta(cache', k) = Len(uses'[k])
      BY <1>u
  <2>1. rows[k].count + taken[k] + Delta(cache, k) = Len(uses[k])
      BY <1>t DEF Accounted
  <2>2. Delta(cache, k) = cache[k].delta
      BY <1>v DEF Delta
  <2>3. Delta(cache', k) = cache[k].delta + 1
      BY <1>c, <1>e DEF Delta
  <2>4. rows[k].count \in Nat /\ taken[k] \in Nat /\ cache[k].delta \in Nat /\ Len(uses[k]) \in Nat
    <3>1. rows[k] \in Row /\ cache[k] \in Entry /\ taken[k] \in Nat /\ uses[k] \in Seq(Nat)
        BY <1>t, <1>v DEF KeysTypeOK, Maybe
    <3> QED
        BY <3>1 DEF Row, Entry
  <2>5. Len(uses'[k]) = Len(uses[k]) + 1
      BY <1>s
  <2> DEFINE c == rows[k].count
             t == taken[k]
             d == cache[k].delta
             l == Len(uses[k])
  <2>6. c \in Nat /\ t \in Nat /\ d \in Nat /\ l \in Nat /\ c + t + d = l
      BY <2>1, <2>2, <2>4
  <2>7. Delta(cache', k) = d + 1 /\ Len(uses'[k]) = l + 1
      BY <2>3, <2>5
  <2> HIDE DEF c, t, d, l
  <2>8. c + t + (d + 1) = l + 1
      BY <2>6
  <2>9. rows[k].count + taken[k] + Delta(cache', k) = c + t + (d + 1)
      BY <2>7 DEF c, t
  <2> QED
      BY <2>7, <2>8, <2>9
<1>3. UnbornInv' /\ CopyInv' /\ Accounted'
    BY <1>c, <1>s, <1>u, <1>w, <1>2, ChangedInv
<1> QED
    BY <1>c, <1>1, <1>3 DEF KeysInv

LEMMA TakeInv == ASSUME KeysInv, NEW k \in Keys, Take(k) PROVE KeysInv'
<1> DEFINE e == [cache[k] EXCEPT !.delta = 0]
<1>t. KeysTypeOK /\ UnbornInv /\ Accounted
    BY DEF KeysInv
<1>u. /\ taken[k] = 0 /\ cache[k] # NoKey
      /\ Change(k, e)
      /\ taken' = [taken EXCEPT ![k] = cache[k].delta]
      /\ miscounted' = miscounted \cup Caught(k)
      /\ UNCHANGED <<rows, phase, todo, now, keyFaults, born, uses, behind, outdated, unlimited>>
    BY DEF Take
<1>w. k \in born
    BY <1>t, <1>u DEF UnbornInv
<1>v. cache[k] \in Entry
    BY <1>t, <1>u DEF KeysTypeOK, Maybe
<1>e. e \in Entry /\ e.ver = cache[k].ver /\ e.enabled = cache[k].enabled /\ e.delta = 0
    BY <1>v DEF Entry
<1> HIDE DEF e
<1>c. /\ cache' \in [Keys -> Maybe(Entry)]
      /\ load' \in [Admins -> [Keys -> Maybe(Entry)]]
      /\ cache'[k] = e
      /\ \A j \in Keys : j # k => cache'[j] = cache[j]
      /\ \A a \in Admins, j \in Keys :
            j # k \/ a \notin Copied(k) => load'[a][j] = load[a][j]
      /\ \A a \in Admins, j \in Keys : load[a][j] = NoKey => load'[a][j] = NoKey
      /\ LoadInv' /\ CacheInv'
    BY <1>e, <1>u, ChangedEntry
<1>s. /\ taken' \in [Keys -> Nat] /\ taken'[k] = cache[k].delta
      /\ \A j \in Keys : j # k => taken'[j] = taken[j]
  <2>1. cache[k].delta \in Nat
      BY <1>v DEF Entry
  <2> QED
      BY <1>t, <1>u, <2>1 DEF KeysTypeOK
<1>1. KeysTypeOK'
  <2>1. Caught(k) \subseteq Keys
      BY DEF Caught
  <2> QED
      BY <1>t, <1>u, <1>c, <1>s, <2>1 DEF KeysTypeOK
<1>2. k \notin miscounted /\ rows[k] # NoKey =>
          rows[k].count + taken'[k] + Delta(cache', k) = Len(uses'[k])
  <2> SUFFICES ASSUME k \notin miscounted, rows[k] # NoKey
               PROVE  rows[k].count + taken'[k] + Delta(cache', k) = Len(uses[k])
      BY <1>u
  <2>1. rows[k].count + taken[k] + Delta(cache, k) = Len(uses[k])
      BY <1>t DEF Accounted
  <2>2. Delta(cache, k) = cache[k].delta
      BY <1>u DEF Delta
  <2>3. Delta(cache', k) = 0
      BY <1>c, <1>e DEF Delta
  <2>4. rows[k].count \in Nat /\ cache[k].delta \in Nat
    <3>1. rows[k] \in Row
        BY <1>t DEF KeysTypeOK, Maybe
    <3> QED
        BY <1>v, <3>1 DEF Row, Entry
  <2> QED
      BY <1>s, <1>u, <2>1, <2>2, <2>3, <2>4
<1>3. UnbornInv' /\ CopyInv' /\ Accounted'
    BY <1>c, <1>s, <1>u, <1>w, <1>2, ChangedInv
<1> QED
    BY <1>c, <1>1, <1>3 DEF KeysInv

LEMMA FlushRowInv == ASSUME KeysInv, NEW k \in Keys, FlushRow(k) PROVE KeysInv'
<1> DEFINE added == Counted(rows[k], taken[k])
<1>t. KeysTypeOK /\ UnbornInv /\ CopyInv /\ LoadInv /\ CacheInv /\ Accounted
    BY DEF KeysInv
<1>u. /\ taken[k] > 0 /\ taken' = [taken EXCEPT ![k] = 0]
      /\ UNCHANGED <<cache, phase, load, todo, now, born, uses, behind, outdated, unlimited>>
    BY DEF FlushRow, adminVars
<1>v. \/ rows' = [rows EXCEPT ![k] = added] /\ UNCHANGED <<keyFaults, miscounted>>
      \/ /\ keyFaults < MaxFaults /\ keyFaults' = keyFaults + 1
         /\ miscounted' = miscounted \cup {k} /\ UNCHANGED rows
    BY DEF FlushRow
<1>r. Reading' = Reading
    BY <1>u DEF Reading
<1>w. /\ added \in Maybe(Row)
      /\ added = NoKey <=> rows[k] = NoKey
      /\ added # NoKey => /\ added.count = rows[k].count + taken[k]
                          /\ added.ver = rows[k].ver /\ added.enabled = rows[k].enabled
  <2>1. taken[k] \in Nat
      BY <1>t DEF KeysTypeOK
  <2>2. CASE rows[k] = NoKey
      BY <2>2 DEF Maybe, Counted
  <2>3. CASE rows[k] # NoKey
    <3>1. rows[k] \in Row
        BY <1>t, <2>3 DEF KeysTypeOK, Maybe
    <3>2. added = [rows[k] EXCEPT !.count = @ + taken[k]]
        BY <2>3 DEF Counted
    <3>3. added \in Row /\ added.count = rows[k].count + taken[k]
          /\ added.ver = rows[k].ver /\ added.enabled = rows[k].enabled
        BY <2>1, <3>1, <3>2 DEF Row
    <3> HIDE DEF added
    <3> QED
        BY <2>3, <3>3 DEF Maybe
  <2> QED
      BY <2>2, <2>3
<1> HIDE DEF added
<1>x. \A j \in Keys : rows'[j] = rows[j] \/ (j = k /\ rows'[j] = added)
    BY <1>t, <1>v DEF KeysTypeOK
<1>y. miscounted \subseteq miscounted'
    BY <1>v
<1>z. \A j \in Keys :
          /\ rows'[j] = NoKey <=> rows[j] = NoKey
          /\ \A e : Agrees(rows[j], e) => Agrees(rows'[j], e)
    BY <1>w, <1>x DEF Agrees
<1>1. KeysTypeOK'
  <2>1. rows' \in [Keys -> Maybe(Row)]
      BY <1>t, <1>v, <1>w DEF KeysTypeOK
  <2>2. keyFaults' \in 0 .. MaxFaults
      BY <1>t, <1>v DEF KeysTypeOK
  <2>3. taken' \in [Keys -> Nat] /\ miscounted' \subseteq Keys
      BY <1>t, <1>u, <1>v DEF KeysTypeOK
  <2> QED
      BY <1>t, <1>u, <2>1, <2>2, <2>3 DEF KeysTypeOK
<1>2. UnbornInv'
  <2>1. \A j \in Keys \ born : taken'[j] = 0
      BY <1>t, <1>u DEF UnbornInv, KeysTypeOK
  <2> QED
      BY <1>t, <1>u, <1>z, <2>1 DEF UnbornInv
<1>3. CopyInv'
    BY <1>t, <1>u, <1>r, <1>y, <1>z DEF CopyInv, Delta
<1>4. LoadInv'
  <2> SUFFICES ASSUME NEW a \in Reading \ behind, NEW j \in Keys
               PROVE  Agrees(rows'[j], load[a][j])
      BY <1>u, <1>r DEF LoadInv, Agrees
  <2> QED
      BY <1>t, <1>z DEF LoadInv
<1>5. CacheInv'
  <2>1. (\A j \in Keys : Agrees(rows[j], cache[j])) => \A j \in Keys : Agrees(rows'[j], cache[j])
      BY <1>z
  <2>2. Underway' <=> Underway
      BY <1>u DEF Underway
  <2>3. \A j \in Keys : Agrees(rows'[j], cache[j]) <=> Agrees(rows[j], cache[j])'
      BY <1>u DEF Agrees
  <2> QED
      BY <1>t, <1>u, <2>1, <2>2, <2>3 DEF CacheInv
<1>6. Accounted'
  <2> SUFFICES ASSUME NEW j \in Keys \ miscounted', rows'[j] # NoKey
               PROVE  rows'[j].count + taken'[j] + Delta(cache, j) = Len(uses[j])
      BY <1>u DEF Accounted, Delta
  <2>1. j \notin miscounted /\ rows[j] # NoKey
      BY <1>y, <1>z
  <2>2. rows[j].count + taken[j] + Delta(cache, j) = Len(uses[j])
      BY <1>t, <2>1 DEF Accounted
  <2>3. CASE j # k
      BY <1>t, <1>u, <1>x, <2>2, <2>3 DEF KeysTypeOK
  <2>4. CASE j = k
    <3>1. rows'[k] = added
        BY <1>t, <1>v, <2>4 DEF KeysTypeOK
    <3>2. rows'[k].count = rows[k].count + taken[k]
        BY <1>w, <2>4, <3>1
    <3>3. taken'[k] = 0
        BY <1>t, <1>u DEF KeysTypeOK
    <3>4. rows[k].count \in Nat /\ taken[k] \in Nat
      <4>1. rows[k] \in Row
          BY <1>t, <2>1, <2>4 DEF KeysTypeOK, Maybe
      <4> QED
          BY <1>t, <4>1 DEF KeysTypeOK, Row
    <3>5. Delta(cache, k) \in Int
      <4>1. cache[k] # NoKey => cache[k] \in Entry
          BY <1>t DEF KeysTypeOK, Maybe
      <4> QED
          BY <4>1 DEF Delta, Entry
    <3> QED
        BY <2>2, <2>4, <3>2, <3>3, <3>4, <3>5
  <2> QED
      BY <2>3, <2>4
<1> QED
    BY <1>1, <1>2, <1>3, <1>4, <1>5, <1>6 DEF KeysInv

LEMMA KeysExitInv == ASSUME KeysInv, KeysExit PROVE KeysInv'
<1> DEFINE empty == [k \in Keys |-> NoKey]
           unflushed == {k \in Keys : taken[k] > 0} \cup With(Keys, "delta")
<1>t. KeysTypeOK /\ UnbornInv /\ Accounted
    BY DEF KeysInv
<1>u. /\ keyFaults < MaxFaults /\ keyFaults' = keyFaults + 1
      /\ cache' = Loaded(rows)
      /\ phase' = [a \in Admins |-> IF phase[a] = "idle" THEN "idle" ELSE "done"]
      /\ load' = [a \in Admins |-> empty]
      /\ todo' = [a \in Admins |-> {}]
      /\ taken' = [k \in Keys |-> 0]
      /\ behind' = {} /\ outdated' = FALSE
      /\ miscounted' = miscounted \cup unflushed
      /\ unlimited' = unlimited \cup With(Keys, "used")
      /\ UNCHANGED <<rows, now, born, uses>>
    BY DEF KeysExit
<1>l. /\ Loaded(rows) \in [Keys -> Maybe(Entry)]
      /\ \A k \in Keys : Agrees(rows[k], Loaded(rows)[k])
      /\ \A k \in Keys : rows[k] = NoKey => Loaded(rows)[k] = NoKey
      /\ \A k \in Keys : Delta(Loaded(rows), k) = 0
    BY <1>t, LoadedType DEF KeysTypeOK
<1>r. Reading' = {}
    BY <1>u DEF Reading
<1>1. KeysTypeOK'
  <2>1. unflushed \subseteq Keys /\ With(Keys, "used") \subseteq Keys
      BY DEF With
  <2>2. load' \in [Admins -> [Keys -> Maybe(Entry)]]
      BY <1>u DEF Maybe
  <2>3. keyFaults' \in 0 .. MaxFaults
      BY <1>t, <1>u DEF KeysTypeOK
  <2> HIDE DEF unflushed, empty
  <2>4. phase' \in [Admins -> {"idle", "query", "copy", "done"}] /\ todo' \in [Admins -> SUBSET Keys]
      BY <1>u
  <2> QED
      BY <1>t, <1>u, <1>l, <2>1, <2>2, <2>3, <2>4 DEF KeysTypeOK
<1>2. UnbornInv'
    BY <1>t, <1>u, <1>l DEF UnbornInv
<1>3. CopyInv' /\ LoadInv'
    BY <1>r DEF CopyInv, LoadInv
<1>4. CacheInv'
    BY <1>u, <1>l DEF CacheInv, Agrees
<1>5. Accounted'
  <2> SUFFICES ASSUME NEW k \in Keys \ miscounted', rows[k] # NoKey
               PROVE  rows[k].count + 0 + Delta(Loaded(rows), k) = Len(uses[k])
      BY <1>u DEF Accounted, Delta
  <2>1. k \notin miscounted /\ taken[k] = 0 /\ k \notin With(Keys, "delta")
    <3>1. taken[k] \in Nat
        BY <1>t DEF KeysTypeOK
    <3> QED
        BY <1>u, <3>1
  <2>2. Delta(cache, k) = 0
    <3>1. cache[k] # NoKey => cache[k].delta \in Nat /\ ~(cache[k].delta > 0)
      <4>1. cache[k] # NoKey => cache[k] \in Entry
          BY <1>t DEF KeysTypeOK, Maybe
      <4>2. cache[k] # NoKey => ~(cache[k]["delta"] > 0)
          BY <2>1 DEF With
      <4> QED
          BY <4>1, <4>2 DEF Entry
    <3> QED
        BY <3>1 DEF Delta
  <2>3. rows[k].count + taken[k] + Delta(cache, k) = Len(uses[k])
      BY <1>t, <2>1 DEF Accounted
  <2> QED
      BY <1>l, <2>1, <2>2, <2>3
<1> QED
    BY <1>1, <1>2, <1>3, <1>4, <1>5 DEF KeysInv

LEMMA TickInv == ASSUME KeysInv, Tick \/ UNCHANGED keyVars PROVE KeysInv'
<1>t. KeysTypeOK /\ UnbornInv /\ CopyInv /\ LoadInv /\ CacheInv /\ Accounted
    BY DEF KeysInv
<1>u. /\ now' \in 1 .. MaxTime
      /\ UNCHANGED <<rows, cache, phase, load, todo, taken, keyFaults, born, uses,
                     behind, outdated, miscounted, unlimited>>
    BY <1>t DEF Tick, keyVars, adminVars, excuses, KeysTypeOK
<1>r. Reading' = Reading
    BY <1>u DEF Reading
<1>1. KeysTypeOK'
    BY <1>t, <1>u DEF KeysTypeOK
<1>2. UnbornInv' /\ CopyInv'
    BY <1>t, <1>u, <1>r DEF UnbornInv, CopyInv, Delta
<1>3. LoadInv' /\ CacheInv'
    BY <1>t, <1>u, <1>r DEF LoadInv, CacheInv, Underway, Agrees
<1>4. Accounted'
    BY <1>t, <1>u DEF Accounted, Delta
<1> QED
    BY <1>1, <1>2, <1>3, <1>4 DEF KeysInv

-------------------------------------------------------------------------------
\* The invariant is inductive.
THEOREM KeysInvariance == KeysSpec => []KeysInv
<1>1. KeysInv /\ [KeysNext]_keyVars => KeysInv'
  <2> SUFFICES ASSUME KeysInv, [KeysNext]_keyVars PROVE KeysInv'
      OBVIOUS
  <2>1. CASE \E a \in Admins : AdminStep(a)
    <3>1. PICK a \in Admins : AdminStep(a)
        BY <2>1
    <3>2. \/ \E k \in Keys : Create(a, k)
          \/ \E k \in Keys : Rotate(a, k) \/ Update(a, k) \/ Delete(a, k)
          \/ \E k \in Keys : Copy(a, k)
          \/ Query(a) \/ Swap(a) \/ ReloadFails(a)
        BY <3>1 DEF AdminStep
    <3> QED
        BY <3>2, CreateInv, AdminWritesInv, CopyStepInv, QueryStepInv, SwapInv, ReloadFailsInv
  <2>2. CASE \E k \in Keys, v \in 1 .. MaxVersion : Authenticate(k, v)
      BY <2>2, AuthenticateInv
  <2>3. CASE FlushStep
      BY <2>3, TakeInv, FlushRowInv DEF FlushStep
  <2>4. CASE KeysExit
      BY <2>4, KeysExitInv
  <2>5. CASE Tick \/ UNCHANGED keyVars
      BY <2>5, TickInv
  <2> QED
      BY <2>1, <2>2, <2>3, <2>4, <2>5 DEF KeysNext
<1> QED
    BY <1>1, KeysInitInv, PTL DEF KeysSpec

\* The request count of a key is exact, but for the excuses named there.
THEOREM UsesAccounted == KeysSpec => []Accounted
<1>1. KeysInv => Accounted
    BY DEF KeysInv
<1> QED
    BY <1>1, KeysInvariance, PTL

\* With no admin request under way and the last reload good, requests are
\* checked against the table as it is.
THEOREM CacheIsTable == KeysSpec => []CacheCurrent
<1>1. KeysInv => CacheCurrent
    BY DEF KeysInv, CacheInv, Underway, CacheCurrent
<1> QED
    BY <1>1, KeysInvariance, PTL
-------------------------------------------------------------------------------
(***************************************************************************)
(* The limit.  A span as long as a window meets two windows at most, and   *)
(* of the first of two not the use it began with.                          *)
(***************************************************************************)

\* The uses from s to t.
Hits(u, s, t) == {i \in DOMAIN u : u[i] \in s .. t}

LEMMA HitsFinite ==
    ASSUME NEW u \in Seq(Nat), NEW s \in Int, NEW t \in Int
    PROVE  IsFiniteSet(Hits(u, s, t)) /\ UsedIn(u, s, t) = Cardinality(Hits(u, s, t))
           /\ UsedIn(u, s, t) \in Nat
<1>1. DOMAIN u = 1 .. Len(u) /\ Len(u) \in Nat
    OBVIOUS
<1>2. IsFiniteSet(DOMAIN u)
    BY <1>1, FS_Interval
<1>3. Hits(u, s, t) \in SUBSET DOMAIN u
    BY DEF Hits
<1> QED
    BY <1>2, <1>3, FS_Subset, FS_CardinalityType DEF UsedIn, Hits

\* A shorter span has fewer uses.
LEMMA UsedWithin ==
    ASSUME NEW u \in Seq(Nat), NEW s \in Int, NEW t \in Int, NEW x \in Int, NEW y \in Int,
           \A i \in DOMAIN u : u[i] \in x .. y => u[i] \in s .. t
    PROVE  UsedIn(u, x, y) <= UsedIn(u, s, t)
<1>1. Hits(u, x, y) \in SUBSET Hits(u, s, t)
    BY DEF Hits
<1> QED
    BY <1>1, HitsFinite, FS_Subset

\* A span is the sum of its parts.
LEMMA UsedSplit ==
    ASSUME NEW u \in Seq(Nat), NEW x \in Int, NEW s \in Int, NEW t \in Int, x <= s, s <= t + 1
    PROVE  UsedIn(u, x, t) = UsedIn(u, x, s - 1) + UsedIn(u, s, t)
<1>0. s - 1 \in Int
    OBVIOUS
<1>1. \A i \in DOMAIN u : u[i] \in Nat
    OBVIOUS
<1>2. Hits(u, x, t) = Hits(u, x, s - 1) \cup Hits(u, s, t)
    BY <1>1 DEF Hits
<1>3. Hits(u, x, s - 1) \cap Hits(u, s, t) = {}
    BY <1>1 DEF Hits
<1>4. /\ IsFiniteSet(Hits(u, x, s - 1)) /\ IsFiniteSet(Hits(u, s, t))
      /\ UsedIn(u, x, s - 1) = Cardinality(Hits(u, x, s - 1))
      /\ UsedIn(u, s, t) = Cardinality(Hits(u, s, t))
      /\ UsedIn(u, x, t) = Cardinality(Hits(u, x, t))
      /\ UsedIn(u, x, s - 1) \in Nat /\ UsedIn(u, s, t) \in Nat
    BY <1>0, HitsFinite
<1>5. Cardinality(Hits(u, x, t)) =
          Cardinality(Hits(u, x, s - 1)) + Cardinality(Hits(u, s, t)) - Cardinality({})
    BY <1>2, <1>3, <1>4, FS_Union
<1> HIDE DEF Hits
<1> QED
    BY <1>4, <1>5, FS_EmptySet

\* One more use at t.
LEMMA UsedAppend ==
    ASSUME NEW u \in Seq(Nat), NEW t \in Nat, NEW x \in Int, NEW y \in Int
    PROVE  /\ Append(u, t) \in Seq(Nat)
           /\ UsedIn(Append(u, t), x, y) = UsedIn(u, x, y) + IF t \in x .. y THEN 1 ELSE 0
<1> DEFINE v == Append(u, t) n == Len(u) + 1
<1>1. /\ v \in Seq(Nat) /\ DOMAIN v = (DOMAIN u) \cup {n} /\ n \notin DOMAIN u
      /\ v[n] = t /\ \A i \in DOMAIN u : v[i] = u[i]
    OBVIOUS
<1> HIDE DEF v, n
<1>2. CASE t \in x .. y
  <2>1. Hits(v, x, y) = Hits(u, x, y) \cup {n} /\ n \notin Hits(u, x, y)
      BY <1>1, <1>2 DEF Hits
  <2>2. Cardinality(Hits(u, x, y) \cup {n}) = Cardinality(Hits(u, x, y)) + 1
      BY <2>1, HitsFinite, FS_AddElement
  <2> QED
      BY <1>1, <1>2, <2>1, <2>2, HitsFinite DEF v
<1>3. CASE t \notin x .. y
  <2>1. Hits(v, x, y) = Hits(u, x, y)
      BY <1>1, <1>3 DEF Hits
  <2>2. UsedIn(v, x, y) = UsedIn(u, x, y) /\ UsedIn(u, x, y) \in Nat
      BY <1>1, <2>1, HitsFinite
  <2> QED
      BY <1>1, <1>3, <2>2 DEF v
<1> QED
    BY <1>2, <1>3

\* LimitHeld of the uses u up to t.
Spans(u, t) == \A x \in 1 .. t : UsedIn(u, x, x + RateWindow - 1) < 2 * RateLimit

\* A use in the window it finds.
LEMMA UseInWindow ==
    ASSUME NEW u \in Seq(Nat), NEW t \in Nat \ {0}, \A i \in DOMAIN u : u[i] \in 1 .. t,
           NEW s \in Nat \ {0}, NEW n \in Nat, RateLimit > 0,
           Window(u, s, n, t), Spans(u, t), t - s < RateWindow, n < RateLimit
    PROVE  Window(Append(u, t), s, n + 1, t) /\ Spans(Append(u, t), t)
<1> DEFINE v == Append(u, t)
<1>w. /\ s <= t /\ \A i \in DOMAIN u : u[i] < s + RateWindow
      /\ UsedIn(u, s, t) = n /\ UsedIn(u, s, s) > 0
      /\ \A x \in 1 .. s : x > s - RateWindow => UsedIn(u, x, s - 1) < RateLimit
    BY DEF Window
<1>v. v \in Seq(Nat) /\ \A i \in DOMAIN v : v[i] = t \/ \E j \in DOMAIN u : v[i] = u[j]
    OBVIOUS
<1>a. \A x, y \in Int : UsedIn(v, x, y) = UsedIn(u, x, y) + IF t \in x .. y THEN 1 ELSE 0
    BY UsedAppend
<1>b. \A x, y \in Int : UsedIn(u, x, y) \in Nat
    BY HitsFinite
<1> HIDE DEF v
<1>1. \A i \in DOMAIN v : v[i] < s + RateWindow
    BY <1>v, <1>w
<1>2. UsedIn(v, s, t) = n + 1
    BY <1>a, <1>w
<1>3. UsedIn(v, s, s) > 0
  <2>1. UsedIn(u, s, s) \in Nat
      BY HitsFinite
  <2>2. UsedIn(v, s, s) = UsedIn(u, s, s) + IF t \in s .. s THEN 1 ELSE 0
      BY <1>a
  <2> QED
      BY <1>w, <2>1, <2>2
<1>4. ASSUME NEW x \in 1 .. s, x > s - RateWindow PROVE UsedIn(v, x, s - 1) < RateLimit
  <2>1. UsedIn(v, x, s - 1) = UsedIn(u, x, s - 1) + IF t \in x .. s - 1 THEN 1 ELSE 0
      BY <1>a
  <2>2. t \notin x .. s - 1 /\ UsedIn(u, x, s - 1) \in Nat
      BY HitsFinite, <1>w
  <2> QED
      BY <1>w, <1>4, <2>1, <2>2
<1>5. Window(v, s, n + 1, t)
    BY <1>1, <1>2, <1>3, <1>4, <1>w DEF Window
<1>6. ASSUME NEW x \in 1 .. t PROVE UsedIn(v, x, x + RateWindow - 1) < 2 * RateLimit
  <2> DEFINE y == x + RateWindow - 1
  <2>0. y \in Int /\ x \in Int
      OBVIOUS
  <2>1. UsedIn(v, x, y) = UsedIn(u, x, y) + IF t \in x .. y THEN 1 ELSE 0
      BY <1>a, <2>0
  <2>2. UsedIn(u, x, y) \in Nat /\ UsedIn(u, x, y) < 2 * RateLimit
      BY <1>b, <2>0 DEF Spans
  <2>3. CASE t \notin x .. y
      BY <2>1, <2>2, <2>3
  <2>4. CASE t \in x .. y /\ x <= s
    <3>1. x > s - RateWindow /\ x \in 1 .. s
        BY <1>w, <2>4
    <3>2. UsedIn(u, x, s - 1) < RateLimit
        BY <1>w, <3>1
    <3>6. UsedIn(u, x, s - 1) \in Nat
        BY HitsFinite
    <3>3. UsedIn(u, x, t) = UsedIn(u, x, s - 1) + n
        BY <1>w, <3>1, UsedSplit
    <3>4. UsedIn(u, x, y) <= UsedIn(u, x, t)
        BY <2>0, UsedWithin
    <3>5. UsedIn(u, x, y) + 1 < 2 * RateLimit
        BY <2>2, <3>2, <3>3, <3>4, <3>6
    <3> QED
        BY <2>1, <2>4, <3>5
  <2>5. CASE t \in x .. y /\ x > s
    <3>1. UsedIn(u, x, y) <= UsedIn(u, s, t)
        BY <2>0, <2>5, UsedWithin
    <3>2. UsedIn(u, x, y) + 1 < 2 * RateLimit
        BY <1>w, <2>2, <3>1
    <3> QED
        BY <2>1, <2>5, <3>2
  <2> QED
      BY <2>3, <2>4, <2>5
<1> QED
    BY <1>5, <1>6 DEF Spans, v

\* A use that begins a window.
LEMMA UseBeginsWindow ==
    ASSUME NEW u \in Seq(Nat), NEW t \in Nat \ {0}, \A i \in DOMAIN u : u[i] \in 1 .. t,
           NEW s \in Nat, NEW n \in Nat, RateLimit > 0,
           Window(u, s, n, t), Spans(u, t), s = 0 \/ t - s >= RateWindow
    PROVE  Window(Append(u, t), t, 1, t) /\ Spans(Append(u, t), t)
<1> DEFINE v == Append(u, t)
<1>v. v \in Seq(Nat) /\ \A i \in DOMAIN v : v[i] \in 1 .. t
    OBVIOUS
<1>a. \A x, y \in Int : UsedIn(v, x, y) = UsedIn(u, x, y) + IF t \in x .. y THEN 1 ELSE 0
    BY UsedAppend
<1>b. \A x, y \in Int : UsedIn(u, x, y) \in Nat
    BY HitsFinite
<1>1. UsedIn(u, t, t) = 0
  <2>1. Hits(u, t, t) = {}
    <3>1. CASE s = 0
        BY <3>1 DEF Window, Hits
    <3>2. CASE s # 0 /\ t - s >= RateWindow
      <4>1. \A i \in DOMAIN u : u[i] < s + RateWindow /\ u[i] \in Nat
          BY <3>2 DEF Window
      <4> QED
          BY <3>2, <4>1 DEF Hits
    <3> QED
        BY <3>1, <3>2
  <2> QED
      BY <2>1, HitsFinite, FS_EmptySet
<1>2. ASSUME NEW x \in 1 .. t, NEW y \in Int, x > t - RateWindow
      PROVE  UsedIn(u, x, y) < RateLimit
  <2>1. CASE s = 0
    <3>1. Hits(u, x, y) = {}
        BY <2>1 DEF Window, Hits
    <3> QED
        BY <3>1, HitsFinite, FS_EmptySet
  <2>2. CASE s # 0 /\ t - s >= RateWindow
    <3>1. s < x /\ s + 1 \in Int
        BY <1>2, <2>2
    <3>2. UsedIn(u, x, y) <= UsedIn(u, s + 1, t)
        BY <3>1, UsedWithin
    <3>3. s <= t /\ UsedIn(u, s, t) = n /\ n <= RateLimit /\ UsedIn(u, s, s) > 0
        BY <2>2 DEF Window
    <3>4. UsedIn(u, s, t) = UsedIn(u, s, (s + 1) - 1) + UsedIn(u, s + 1, t)
        BY <3>1, <3>3, UsedSplit
    <3>5. (s + 1) - 1 = s
        OBVIOUS
    <3>6. UsedIn(u, s, s) \in Nat /\ UsedIn(u, s + 1, t) \in Nat /\ UsedIn(u, x, y) \in Nat
        BY <3>1, HitsFinite
    <3> QED
        BY <3>2, <3>3, <3>4, <3>5, <3>6
  <2> QED
      BY <2>1, <2>2
<1> HIDE DEF v
<1>3. ASSUME NEW i \in DOMAIN v PROVE v[i] < t + RateWindow
  <2>1. v[i] <= t /\ v[i] \in Nat
      BY <1>v
  <2> QED
      BY <2>1
<1>4. UsedIn(v, t, t) = 1
    BY <1>a, <1>1
<1>5. ASSUME NEW x \in 1 .. t, x > t - RateWindow PROVE UsedIn(v, x, t - 1) < RateLimit
  <2>1. UsedIn(v, x, t - 1) = UsedIn(u, x, t - 1) + IF t \in x .. t - 1 THEN 1 ELSE 0
      BY <1>a
  <2>2. UsedIn(u, x, t - 1) < RateLimit /\ t \notin x .. t - 1
      BY <1>2, <1>5
  <2>3. UsedIn(u, x, t - 1) \in Nat
      BY HitsFinite
  <2> QED
      BY <2>1, <2>2, <2>3
<1>6. Window(v, t, 1, t)
    BY <1>3, <1>4, <1>5 DEF Window
<1>7. ASSUME NEW x \in 1 .. t PROVE UsedIn(v, x, x + RateWindow - 1) < 2 * RateLimit
  <2> DEFINE y == x + RateWindow - 1
  <2>0. y \in Int /\ x \in Int
      OBVIOUS
  <2>1. UsedIn(v, x, y) = UsedIn(u, x, y) + IF t \in x .. y THEN 1 ELSE 0
      BY <1>a, <2>0
  <2>2. UsedIn(u, x, y) \in Nat /\ UsedIn(u, x, y) < 2 * RateLimit
      BY <1>b, <2>0 DEF Spans
  <2>3. CASE t \notin x .. y
      BY <2>1, <2>2, <2>3
  <2>4. CASE t \in x .. y
    <3>1. UsedIn(u, x, y) < RateLimit
        BY <1>2, <2>0, <2>4
    <3> QED
        BY <2>1, <2>2, <2>4, <3>1
  <2> QED
      BY <2>3, <2>4
<1> QED
    BY <1>6, <1>7 DEF Spans, v

\* Time goes on.
LEMMA WindowLater ==
    ASSUME NEW u \in Seq(Nat), NEW t \in Nat \ {0}, \A i \in DOMAIN u : u[i] \in 1 .. t,
           NEW s \in Nat, NEW n \in Nat, RateLimit > 0
    PROVE  /\ Window(u, s, n, t) => Window(u, s, n, t + 1)
           /\ Spans(u, t) => Spans(u, t + 1)
<1>1. \A x \in Int : Hits(u, x, t + 1) = Hits(u, x, t)
    BY DEF Hits
<1>2. \A x \in Int : UsedIn(u, x, t + 1) = UsedIn(u, x, t)
    BY <1>1, HitsFinite
<1>3. Window(u, s, n, t) => Window(u, s, n, t + 1)
    BY <1>2 DEF Window
<1>4. \A y \in Int : Hits(u, t + 1, y) = {}
    BY DEF Hits
<1>5. UsedIn(u, t + 1, (t + 1) + RateWindow - 1) = 0
    BY <1>4, HitsFinite, FS_EmptySet
<1>6. Spans(u, t) => Spans(u, t + 1)
  <2> SUFFICES ASSUME Spans(u, t), NEW x \in 1 .. (t + 1)
               PROVE  UsedIn(u, x, x + RateWindow - 1) < 2 * RateLimit
      BY DEF Spans
  <2>1. CASE x = t + 1
      BY <1>5, <2>1
  <2>2. CASE x # t + 1
      BY <2>2 DEF Spans
  <2> QED
      BY <2>1, <2>2
<1> QED
    BY <1>3, <1>6

-------------------------------------------------------------------------------
\* What WindowInv says of a key that is not excused.
WindowOf(k) ==
    /\ Window(uses[k], Begun(cache, k), Spent(cache, k), now)
    /\ Spans(uses[k], now)
    /\ \A a \in Reading : k \notin todo[a] =>
          Begun(load[a], k) = Begun(cache, k) /\ Spent(load[a], k) = Spent(cache, k)

\* A step without a use: each key keeps its windows, or has none.
LEMMA QuietWindow ==
    ASSUME WindowInv, UNCHANGED <<uses, now>>,
           \A a \in Reading', k \in Keys : k \in todo'[a] =>
               Begun(load'[a], k) = 0 /\ Spent(load'[a], k) = 0,
           RateLimit > 0 => \A k \in Keys \ unlimited' : rows'[k] # NoKey => WindowOf(k)'
    PROVE  WindowInv'
<1>1. \A k \in Keys : \A i \in DOMAIN uses'[k] : uses'[k][i] \in 1 .. now'
    BY DEF WindowInv
<1> QED
    BY <1>1 DEF WindowInv, WindowOf, LimitHeld, Spans

LEMMA NoUseYet ==
    ASSUME RateLimit > 0
    PROVE  \A t \in Nat \ {0} : Window(<<>>, 0, 0, t) /\ Spans(<<>>, t)
<1>1. <<>> \in Seq(Nat)
    OBVIOUS
<1>2. \A x, y \in Int : Hits(<<>>, x, y) = {}
    BY DEF Hits
<1>3. \A x, y \in Int : UsedIn(<<>>, x, y) = 0
  <2> SUFFICES ASSUME NEW x \in Int, NEW y \in Int PROVE UsedIn(<<>>, x, y) = 0
      OBVIOUS
  <2>1. UsedIn(<<>>, x, y) = Cardinality(Hits(<<>>, x, y))
      BY DEF UsedIn, Hits
  <2> QED
      BY <1>2, <2>1, FS_EmptySet
<1> QED
    BY <1>3 DEF Window, Spans

\* A window of which nothing is used has not begun.
LEMMA NothingSpent ==
    ASSUME NEW u \in Seq(Nat), NEW s \in Nat, NEW t \in Nat, Window(u, s, 0, t)
    PROVE  s = 0
<1> SUFFICES ASSUME s # 0 PROVE FALSE
    OBVIOUS
<1>1. s <= t /\ UsedIn(u, s, t) = 0 /\ UsedIn(u, s, s) > 0
    BY DEF Window
<1>2. UsedIn(u, s, s) <= UsedIn(u, s, t)
    BY <1>1, UsedWithin
<1>3. UsedIn(u, s, s) \in Nat
    BY HitsFinite
<1> QED
    BY <1>1, <1>2, <1>3

\* The types of what a table has of a key.
LEMMA CounterTypes ==
    ASSUME KeysTypeOK, NEW k \in Keys
    PROVE  /\ Begun(cache, k) \in Nat /\ Spent(cache, k) \in Nat
           /\ uses[k] \in Seq(Nat) /\ now \in Nat \ {0}
<1>1. cache[k] # NoKey => cache[k] \in Entry
    BY DEF KeysTypeOK, Maybe
<1>2. Begun(cache, k) \in Nat /\ Spent(cache, k) \in Nat
    BY <1>1 DEF Begun, Spent, Entry
<1> QED
    BY <1>2 DEF KeysTypeOK

LEMMA WriteWindow ==
    ASSUME KeysInv, WindowInv, NEW a \in Admins, NEW table, Write(a, table),
           \A k \in Keys : table[k] # NoKey => rows[k] # NoKey \/ k \notin born
    PROVE  WindowInv'
<1>t. KeysTypeOK /\ UnbornInv
    BY DEF KeysInv
<1>u. /\ phase[a] = "idle" /\ phase' = [phase EXCEPT ![a] = "query"] /\ rows' = table
      /\ UNCHANGED <<cache, load, todo, now, uses, unlimited>>
    BY DEF Write
<1>r. Reading' = Reading /\ Reading \subseteq Admins
    BY <1>t, <1>u DEF Reading, KeysTypeOK
<1>1. ASSUME NEW b \in Reading', NEW k \in Keys, k \in todo'[b]
      PROVE  Begun(load'[b], k) = 0 /\ Spent(load'[b], k) = 0
    BY <1>1, <1>u, <1>r DEF WindowInv
<1>2. ASSUME RateLimit > 0, NEW k \in Keys \ unlimited', rows'[k] # NoKey
      PROVE  WindowOf(k)'
  <2>1. WindowOf(k)
    <3>1. CASE rows[k] # NoKey
        BY <1>2, <1>u, <3>1 DEF WindowInv, WindowOf, LimitHeld, Spans
    <3>2. CASE k \notin born
      <4>1. /\ uses[k] = <<>> /\ Begun(cache, k) = 0 /\ Spent(cache, k) = 0
            /\ \A b \in Admins : Begun(load[b], k) = 0 /\ Spent(load[b], k) = 0
          BY <1>t, <3>2 DEF UnbornInv, Begun, Spent
      <4> QED
          BY <1>2, <1>t, <1>r, <4>1, NoUseYet, CounterTypes DEF WindowOf
    <3> QED
        BY <1>2, <1>u, <3>1, <3>2
  <2> QED
      BY <1>u, <1>r, <2>1 DEF WindowOf, Begun, Spent
<1> QED
    BY <1>1, <1>2, <1>u, QuietWindow

LEMMA RowWindow ==
    ASSUME KeysInv, WindowInv, NEW a \in Admins, NEW k \in Keys, NEW row,
           rows[k] # NoKey \/ k \notin born, Write(a, [rows EXCEPT ![k] = row])
    PROVE  WindowInv'
<1> DEFINE table == [rows EXCEPT ![k] = row]
<1>1. \A j \in Keys : table[j] # NoKey => rows[j] # NoKey \/ j \notin born
    BY DEF KeysInv, KeysTypeOK
<1>2. Write(a, table)
    OBVIOUS
<1> HIDE DEF table
<1> QED
    BY <1>1, <1>2, WriteWindow

LEMMA AdminWritesWindow ==
    ASSUME KeysInv, WindowInv, NEW a \in Admins, NEW k \in Keys,
           Create(a, k) \/ Rotate(a, k) \/ Update(a, k) \/ Delete(a, k)
    PROVE  WindowInv'
<1>1. CASE Create(a, k)
    BY <1>1, RowWindow DEF Create
<1>2. CASE Rotate(a, k)
  <2>1. Write(a, [rows EXCEPT ![k] = [rows[k] EXCEPT !.ver = @ + 1]]) /\ rows[k] # NoKey
      BY <1>2 DEF Rotate
  <2> QED
      BY <2>1, RowWindow
<1>3. CASE Update(a, k)
  <2>1. PICK on \in BOOLEAN : Write(a, [rows EXCEPT ![k] = [rows[k] EXCEPT !.enabled = on]])
      BY <1>3 DEF Update
  <2>2. rows[k] # NoKey
      BY <1>3 DEF Update
  <2> QED
      BY <2>1, <2>2, RowWindow
<1>4. CASE Delete(a, k)
    BY <1>4, RowWindow DEF Delete
<1> QED
    BY <1>1, <1>2, <1>3, <1>4

\* A reload starts from entries without a window.
LEMMA LoadedWindow ==
    ASSUME NEW table, NEW k \in Keys
    PROVE  Begun(Loaded(table), k) = 0 /\ Spent(Loaded(table), k) = 0
<1>1. Loaded(table)[k] = IF table[k] = NoKey THEN NoKey ELSE Fresh(table[k])
    BY DEF Loaded
<1>2. Fresh(table[k]).start = 0 /\ Fresh(table[k]).used = 0
    BY DEF Fresh
<1> HIDE DEF Loaded, Fresh
<1> QED
    BY <1>1, <1>2 DEF Begun, Spent

LEMMA QueryWindow == ASSUME KeysInv, WindowInv, NEW a \in Admins, Query(a) PROVE WindowInv'
<1>t. KeysTypeOK
    BY DEF KeysInv
<1>u. /\ phase' = [phase EXCEPT ![a] = "copy"]
      /\ load' = [load EXCEPT ![a] = Loaded(rows)]
      /\ todo' = [todo EXCEPT ![a] = {k \in Keys : rows[k] # NoKey}]
      /\ UNCHANGED <<rows, cache, now, uses, unlimited>>
    BY DEF Query
<1>r. Reading' = Reading \cup {a} /\ Reading \subseteq Admins
    BY <1>t, <1>u DEF Reading, KeysTypeOK
<1>a. \A b \in Admins : b # a => load'[b] = load[b] /\ todo'[b] = todo[b]
    BY <1>t, <1>u DEF KeysTypeOK
<1>b. load'[a] = Loaded(rows) /\ todo'[a] = {k \in Keys : rows[k] # NoKey}
    BY <1>t, <1>u DEF KeysTypeOK
<1>1. ASSUME NEW b \in Reading', NEW k \in Keys, k \in todo'[b]
      PROVE  Begun(load'[b], k) = 0 /\ Spent(load'[b], k) = 0
  <2>1. CASE b = a
      BY <1>b, <2>1, LoadedWindow
  <2>2. CASE b # a
      BY <1>1, <1>a, <1>r, <2>2 DEF WindowInv
  <2> QED
      BY <2>1, <2>2
<1>2. ASSUME RateLimit > 0, NEW k \in Keys \ unlimited', rows'[k] # NoKey
      PROVE  WindowOf(k)'
  <2>1. WindowOf(k)
      BY <1>2, <1>u DEF WindowInv, WindowOf, LimitHeld, Spans
  <2>2. ASSUME NEW b \in Reading', k \notin todo'[b]
        PROVE  b \in Reading /\ k \notin todo[b] /\ load'[b] = load[b]
      BY <1>2, <1>u, <1>r, <1>a, <1>b, <2>2
  <2> QED
      BY <1>u, <2>1, <2>2 DEF WindowOf, Begun, Spent
<1> QED
    BY <1>1, <1>2, <1>u, QuietWindow

LEMMA CopyWindow ==
    ASSUME KeysInv, WindowInv, NEW a \in Admins, NEW k \in Keys, Copy(a, k) PROVE WindowInv'
<1> DEFINE prev == cache[k]
           next == load[a][k]
           copied == [next EXCEPT !.start = prev.start, !.used = prev.used, !.delta = prev.delta]
<1>t. KeysTypeOK
    BY DEF KeysInv
<1>u. /\ phase[a] = "copy" /\ k \in todo[a]
      /\ todo' = [todo EXCEPT ![a] = @ \ {k}]
      /\ UNCHANGED <<rows, cache, phase, now, uses>>
    BY DEF Copy
<1>v. \/ SameSecret(prev, next) /\ load' = [load EXCEPT ![a][k] = copied]
          /\ UNCHANGED unlimited
      \/ UNCHANGED load /\ unlimited' = unlimited \cup With({k}, "used")
    BY DEF Copy
<1>n. a \in Reading /\ Reading' = Reading /\ Reading \subseteq Admins
    BY <1>u DEF Reading
<1>p. /\ next # NoKey => next \in Entry
      /\ prev # NoKey => prev \in Entry
    BY <1>t DEF KeysTypeOK, Maybe
<1>c. SameSecret(prev, next) =>
          copied # NoKey /\ copied.start = prev.start /\ copied.used = prev.used
  <2> SUFFICES ASSUME SameSecret(prev, next)
               PROVE  copied # NoKey /\ copied.start = prev.start /\ copied.used = prev.used
      OBVIOUS
  <2>1. next \in Entry /\ prev \in Entry
      BY <1>p DEF SameSecret
  <2>2. copied \in Entry /\ copied.start = prev.start /\ copied.used = prev.used
      BY <2>1 DEF Entry
  <2> QED
      BY <2>2
<1> HIDE DEF copied
<1>d. \A b \in Admins, j \in Keys : b # a \/ j # k => load'[b][j] = load[b][j]
    BY <1>t, <1>v DEF KeysTypeOK
<1>e. \A b \in Admins : todo'[b] = IF b = a THEN todo[a] \ {k} ELSE todo[b]
    BY <1>t, <1>u DEF KeysTypeOK
<1>f. load'[a][k] = copied \/ load'[a][k] = next
    BY <1>t, <1>v DEF KeysTypeOK
<1>1. ASSUME NEW b \in Reading', NEW j \in Keys, j \in todo'[b]
      PROVE  Begun(load'[b], j) = 0 /\ Spent(load'[b], j) = 0
  <2>1. b \in Admins /\ j \in todo[b] /\ (b # a \/ j # k)
      BY <1>1, <1>e, <1>n
  <2>2. load'[b][j] = load[b][j]
      BY <1>d, <2>1
  <2> QED
      BY <1>n, <2>1, <2>2 DEF WindowInv, Begun, Spent
<1>2. ASSUME RateLimit > 0, NEW j \in Keys \ unlimited', rows'[j] # NoKey
      PROVE  WindowOf(j)'
  <2>1. WindowOf(j)
      BY <1>2, <1>u, <1>v DEF WindowInv, WindowOf, LimitHeld, Spans
  <2>2. ASSUME NEW b \in Reading, j \notin todo'[b]
        PROVE  Begun(load'[b], j) = Begun(cache, j) /\ Spent(load'[b], j) = Spent(cache, j)
    <3>1. CASE b # a \/ j # k
      <4>1. load'[b][j] = load[b][j] /\ j \notin todo[b]
          BY <1>d, <1>e, <1>n, <2>2, <3>1
      <4> QED
          BY <2>1, <4>1 DEF WindowOf, Begun, Spent
    <3>2. CASE b = a /\ j = k /\ SameSecret(prev, next) /\ load' = [load EXCEPT ![a][k] = copied]
      <4>1. load'[a][k] = copied /\ prev # NoKey
          BY <1>t, <3>2 DEF KeysTypeOK, SameSecret
      <4> QED
          BY <1>c, <3>2, <4>1 DEF Begun, Spent
    <3>3. CASE b = a /\ j = k /\ UNCHANGED load /\ unlimited' = unlimited \cup With({k}, "used")
      <4>1. Begun(load[a], k) = 0 /\ Spent(load[a], k) = 0
          BY <1>n, <1>u DEF WindowInv
      <4>2. Spent(cache, k) = 0
        <5>1. cache[k] # NoKey => ~(cache[k]["used"] > 0)
            BY <1>2, <3>3 DEF With
        <5> QED
            BY <1>p, <5>1 DEF Spent, Entry
      <4>3. Begun(cache, k) = 0
          BY <1>t, <2>1, <3>3, <4>2, NothingSpent, CounterTypes DEF WindowOf
      <4> QED
          BY <3>3, <4>1, <4>2, <4>3
    <3> QED
        BY <1>v, <3>1, <3>2, <3>3
  <2> QED
      BY <1>n, <1>u, <2>1, <2>2 DEF WindowOf, Begun, Spent
<1> QED
    BY <1>1, <1>2, <1>u, QuietWindow

LEMMA SwapWindow == ASSUME KeysInv, WindowInv, NEW a \in Admins, Swap(a) PROVE WindowInv'
<1>t. KeysTypeOK
    BY DEF KeysInv
<1>u. /\ phase[a] = "copy" /\ todo[a] = {} /\ cache' = load[a]
      /\ phase' = [phase EXCEPT ![a] = "done"]
      /\ load' = [load EXCEPT ![a] = [k \in Keys |-> NoKey]]
      /\ todo' = [todo EXCEPT ![a] = {}]
      /\ UNCHANGED <<rows, now, uses, unlimited>>
    BY DEF Swap, Done
<1>r. a \in Reading /\ Reading' = Reading \ {a} /\ Reading \subseteq Admins
    BY <1>t, <1>u DEF Reading, KeysTypeOK
<1>a. \A b \in Admins : b # a => load'[b] = load[b] /\ todo'[b] = todo[b]
    BY <1>t, <1>u DEF KeysTypeOK
<1>1. ASSUME NEW b \in Reading', NEW k \in Keys, k \in todo'[b]
      PROVE  Begun(load'[b], k) = 0 /\ Spent(load'[b], k) = 0
    BY <1>1, <1>a, <1>r DEF WindowInv
<1>2. ASSUME RateLimit > 0, NEW k \in Keys \ unlimited', rows'[k] # NoKey
      PROVE  WindowOf(k)'
  <2>1. WindowOf(k)
      BY <1>2, <1>u DEF WindowInv, WindowOf, LimitHeld, Spans
  <2>2. Begun(cache', k) = Begun(cache, k) /\ Spent(cache', k) = Spent(cache, k)
      BY <1>r, <1>u, <2>1 DEF WindowOf
  <2>3. ASSUME NEW b \in Reading', k \notin todo'[b]
        PROVE  Begun(load'[b], k) = Begun(cache, k) /\ Spent(load'[b], k) = Spent(cache, k)
      BY <1>a, <1>r, <2>1, <2>3 DEF WindowOf
  <2> QED
      BY <1>u, <2>1, <2>2, <2>3 DEF WindowOf
<1> QED
    BY <1>1, <1>2, <1>u, QuietWindow

\* A step that ends reloads and changes nothing else of a window.
LEMMA ReloadFailsWindow ==
    ASSUME KeysInv, WindowInv, NEW a \in Admins, ReloadFails(a) PROVE WindowInv'
<1>t. KeysTypeOK
    BY DEF KeysInv
<1>u. /\ phase' = [phase EXCEPT ![a] = "done"]
      /\ load' = [load EXCEPT ![a] = [k \in Keys |-> NoKey]]
      /\ todo' = [todo EXCEPT ![a] = {}]
      /\ UNCHANGED <<rows, cache, now, uses, unlimited>>
    BY DEF ReloadFails, Done
<1>r. Reading' = Reading \ {a} /\ Reading \subseteq Admins
    BY <1>t, <1>u DEF Reading, KeysTypeOK
<1>a. \A b \in Admins : b # a => load'[b] = load[b] /\ todo'[b] = todo[b]
    BY <1>t, <1>u DEF KeysTypeOK
<1>1. ASSUME NEW b \in Reading', NEW k \in Keys, k \in todo'[b]
      PROVE  Begun(load'[b], k) = 0 /\ Spent(load'[b], k) = 0
    BY <1>1, <1>a, <1>r DEF WindowInv
<1>2. ASSUME RateLimit > 0, NEW k \in Keys \ unlimited', rows'[k] # NoKey
      PROVE  WindowOf(k)'
  <2>1. WindowOf(k)
      BY <1>2, <1>u DEF WindowInv, WindowOf, LimitHeld, Spans
  <2>2. ASSUME NEW b \in Reading', k \notin todo'[b]
        PROVE  Begun(load'[b], k) = Begun(cache, k) /\ Spent(load'[b], k) = Spent(cache, k)
      BY <1>a, <1>r, <2>1, <2>2 DEF WindowOf
  <2> QED
      BY <1>u, <2>1, <2>2 DEF WindowOf, Begun, Spent
<1> QED
    BY <1>1, <1>2, <1>u, QuietWindow

LEMMA KeysExitWindow == ASSUME KeysInv, WindowInv, KeysExit PROVE WindowInv'
<1>t. KeysTypeOK
    BY DEF KeysInv
<1>u. /\ cache' = Loaded(rows)
      /\ phase' = [a \in Admins |-> IF phase[a] = "idle" THEN "idle" ELSE "done"]
      /\ unlimited' = unlimited \cup With(Keys, "used")
      /\ UNCHANGED <<rows, now, uses>>
    BY DEF KeysExit
<1>r. Reading' = {}
    BY <1>u DEF Reading
<1>1. ASSUME RateLimit > 0, NEW k \in Keys \ unlimited', rows'[k] # NoKey
      PROVE  WindowOf(k)'
  <2>1. WindowOf(k)
      BY <1>1, <1>u DEF WindowInv, WindowOf, LimitHeld, Spans
  <2>2. Spent(cache, k) = 0
    <3>1. cache[k] # NoKey => cache[k] \in Entry /\ ~(cache[k]["used"] > 0)
        BY <1>1, <1>t, <1>u DEF With, KeysTypeOK, Maybe
    <3> QED
        BY <3>1 DEF Spent, Entry
  <2>3. Begun(cache, k) = 0
      BY <1>t, <2>1, <2>2, NothingSpent, CounterTypes DEF WindowOf
  <2>4. Begun(cache', k) = 0 /\ Spent(cache', k) = 0
      BY <1>u, LoadedWindow
  <2> QED
      BY <1>r, <1>u, <2>1, <2>2, <2>3, <2>4 DEF WindowOf
<1> QED
    BY <1>1, <1>r, <1>u, QuietWindow

LEMMA FlushRowWindow ==
    ASSUME KeysInv, WindowInv, NEW k \in Keys, FlushRow(k) PROVE WindowInv'
<1>t. KeysTypeOK
    BY DEF KeysInv
<1>u. UNCHANGED <<cache, phase, load, todo, now, uses, unlimited>>
    BY DEF FlushRow, adminVars
<1>r. Reading' = Reading
    BY <1>u DEF Reading
<1>1. \A j \in Keys : rows'[j] # NoKey => rows[j] # NoKey
    BY <1>t DEF FlushRow, Counted, KeysTypeOK
<1>2. ASSUME RateLimit > 0, NEW j \in Keys \ unlimited', rows'[j] # NoKey
      PROVE  WindowOf(j)'
  <2>1. WindowOf(j)
      BY <1>1, <1>2, <1>u DEF WindowInv, WindowOf, LimitHeld, Spans
  <2> QED
      BY <1>r, <1>u, <2>1 DEF WindowOf, Begun, Spent
<1>3. ASSUME NEW b \in Reading', NEW j \in Keys, j \in todo'[b]
      PROVE  Begun(load'[b], j) = 0 /\ Spent(load'[b], j) = 0
    BY <1>3, <1>r, <1>u DEF WindowInv
<1> QED
    BY <1>2, <1>3, <1>u, QuietWindow

LEMMA TickWindow ==
    ASSUME KeysInv, WindowInv, Tick \/ UNCHANGED keyVars PROVE WindowInv'
<1>t. KeysTypeOK
    BY DEF KeysInv
<1>u. /\ now' = now + 1 \/ now' = now
      /\ UNCHANGED <<rows, cache, phase, load, todo, uses, unlimited>>
    BY DEF Tick, keyVars, adminVars, excuses
<1>r. Reading' = Reading
    BY <1>u DEF Reading
<1>n. now \in Nat \ {0}
    BY <1>t DEF KeysTypeOK
<1>1. \A k \in Keys : \A i \in DOMAIN uses'[k] : uses'[k][i] \in 1 .. now'
    BY <1>n, <1>u DEF WindowInv
<1>2. ASSUME NEW b \in Reading', NEW j \in Keys, j \in todo'[b]
      PROVE  Begun(load'[b], j) = 0 /\ Spent(load'[b], j) = 0
    BY <1>2, <1>r, <1>u DEF WindowInv
<1>3. ASSUME RateLimit > 0, NEW k \in Keys \ unlimited', rows'[k] # NoKey
      PROVE  WindowOf(k)'
  <2>1. WindowOf(k)
      BY <1>3, <1>u DEF WindowInv, WindowOf, LimitHeld, Spans
  <2>2. /\ Begun(cache, k) \in Nat /\ Spent(cache, k) \in Nat /\ uses[k] \in Seq(Nat)
        /\ \A i \in DOMAIN uses[k] : uses[k][i] \in 1 .. now
      BY <1>t, CounterTypes DEF WindowInv
  <2>3. Window(uses[k], Begun(cache, k), Spent(cache, k), now') /\ Spans(uses[k], now')
      BY <1>3, <1>n, <1>u, <2>1, <2>2, WindowLater DEF WindowOf
  <2> QED
      BY <1>r, <1>u, <2>1, <2>3 DEF WindowOf, Begun, Spent
<1> QED
    BY <1>1, <1>2, <1>3 DEF WindowInv, WindowOf, LimitHeld, Spans

\* Of a copied entry that changes with e, each counter is its own or that of e.
LEMMA ChangedCounters ==
    ASSUME KeysTypeOK, NEW k \in Keys, NEW e \in Entry, Change(k, e), NEW a \in Admins
    PROVE  /\ Begun(load'[a], k) = Begun(load[a], k) \/ Begun(load'[a], k) = e.start
           /\ Spent(load'[a], k) = Spent(load[a], k) \/ Spent(load'[a], k) = e.used
<1>1. PICK seen \in [Copied(k) -> SUBSET Counters] :
          load' = [b \in Admins |->
              IF b \in Copied(k) /\ SameSecret(load[b][k], e)
              THEN [load[b] EXCEPT ![k] = [c \in DOMAIN @ |->
                       IF c \in seen[b] THEN e[c] ELSE @[c]]]
              ELSE load[b]]
    BY DEF Change
<1>2. CASE a \in Copied(k) /\ SameSecret(load[a][k], e)
  <2> DEFINE mixed == [c \in DOMAIN load[a][k] |-> IF c \in seen[a] THEN e[c] ELSE load[a][k][c]]
  <2>1. load[a][k] \in Entry /\ load[a] \in [Keys -> Maybe(Entry)] /\ load[a][k] # NoKey
      BY <1>2 DEF KeysTypeOK, SameSecret, Maybe
  <2>2. load'[a] = [load[a] EXCEPT ![k] = mixed]
      BY <1>1, <1>2
  <2>3. load'[a][k] = mixed
      BY <2>1, <2>2
  <2>4. DOMAIN load[a][k] = {"ver", "enabled", "start", "used", "delta"}
      BY <2>1 DEF Entry
  <2>5. seen[a] \subseteq Counters
      BY <1>1, <1>2
  <2>6. mixed \in Entry
      BY <2>1, <2>4, <2>5 DEF Entry, Counters
  <2>7. /\ mixed.start = load[a][k].start \/ mixed.start = e.start
        /\ mixed.used = load[a][k].used \/ mixed.used = e.used
      BY <2>4
  <2> HIDE DEF mixed
  <2>8. mixed # NoKey
      BY <2>6, KeysAssumption
  <2> QED
      BY <2>1, <2>3, <2>7, <2>8 DEF Begun, Spent
<1>3. CASE ~(a \in Copied(k) /\ SameSecret(load[a][k], e))
  <2>1. load'[a] = load[a]
      BY <1>1, <1>3
  <2> QED
      BY <2>1 DEF Begun, Spent
<1> QED
    BY <1>2, <1>3

LEMMA TakeWindow == ASSUME KeysInv, WindowInv, NEW k \in Keys, Take(k) PROVE WindowInv'
<1> DEFINE e == [cache[k] EXCEPT !.delta = 0]
<1>t. KeysTypeOK
    BY DEF KeysInv
<1>u. /\ cache[k] # NoKey /\ Change(k, e)
      /\ UNCHANGED <<rows, phase, todo, now, uses, behind, outdated, unlimited>>
    BY DEF Take
<1>v. cache[k] \in Entry
    BY <1>t, <1>u DEF KeysTypeOK, Maybe
<1>e. /\ e \in Entry /\ e.ver = cache[k].ver /\ e.enabled = cache[k].enabled
      /\ e.start = cache[k].start /\ e.used = cache[k].used
    BY <1>v DEF Entry
<1> HIDE DEF e
<1>c. /\ cache'[k] = e
      /\ \A j \in Keys : j # k => cache'[j] = cache[j]
      /\ \A a \in Admins, j \in Keys :
            j # k \/ a \notin Copied(k) => load'[a][j] = load[a][j]
    BY <1>e, <1>u, ChangedEntry
<1>d. \A a \in Admins :
          /\ Begun(load'[a], k) = Begun(load[a], k) \/ Begun(load'[a], k) = e.start
          /\ Spent(load'[a], k) = Spent(load[a], k) \/ Spent(load'[a], k) = e.used
    BY <1>t, <1>e, <1>u, ChangedCounters
<1>r. Reading' = Reading /\ Reading \subseteq Admins
    BY <1>u DEF Reading
<1>k. e # NoKey
    BY <1>e, KeysAssumption
<1>b. \A j \in Keys : Begun(cache', j) = Begun(cache, j) /\ Spent(cache', j) = Spent(cache, j)
    BY <1>c, <1>e, <1>k, <1>u DEF Begun, Spent
<1>1. ASSUME NEW a \in Reading', NEW j \in Keys, j \in todo'[a]
      PROVE  Begun(load'[a], j) = 0 /\ Spent(load'[a], j) = 0
  <2>1. a \in Admins /\ a \in Reading /\ j \in todo[a]
      BY <1>1, <1>r, <1>u
  <2>2. j # k \/ a \notin Copied(k)
      BY <2>1 DEF Copied
  <2>3. load'[a][j] = load[a][j]
      BY <1>c, <2>1, <2>2
  <2> QED
      BY <2>1, <2>3 DEF WindowInv, Begun, Spent
<1>2. ASSUME RateLimit > 0, NEW j \in Keys \ unlimited', rows'[j] # NoKey
      PROVE  WindowOf(j)'
  <2>1. WindowOf(j)
      BY <1>2, <1>u DEF WindowInv, WindowOf, LimitHeld, Spans
  <2>2. ASSUME NEW a \in Reading, j \notin todo[a]
        PROVE  Begun(load'[a], j) = Begun(cache, j) /\ Spent(load'[a], j) = Spent(cache, j)
    <3>0. a \in Admins
        BY <1>r
    <3>1. Begun(load[a], j) = Begun(cache, j) /\ Spent(load[a], j) = Spent(cache, j)
        BY <2>1, <2>2 DEF WindowOf
    <3>2. CASE j # k
      <4>1. load'[a][j] = load[a][j]
          BY <1>c, <3>0, <3>2
      <4> QED
          BY <3>1, <4>1 DEF Begun, Spent
    <3>3. CASE j = k
      <4>1. Begun(cache, k) = e.start /\ Spent(cache, k) = e.used
          BY <1>e, <1>u DEF Begun, Spent
      <4> QED
          BY <1>d, <3>0, <3>1, <3>3, <4>1
    <3> QED
        BY <3>2, <3>3
  <2>3. \A a \in Reading : j \notin todo[a] =>
            Begun(load'[a], j) = Begun(cache', j) /\ Spent(load'[a], j) = Spent(cache', j)
      BY <1>b, <2>2
  <2>4. Window(uses[j], Begun(cache', j), Spent(cache', j), now) /\ Spans(uses[j], now)
      BY <1>b, <2>1 DEF WindowOf
  <2> QED
      BY <1>r, <1>u, <2>3, <2>4 DEF WindowOf
<1> QED
    BY <1>1, <1>2, <1>u, QuietWindow

\* An entry whose window begins at t.
LEMMA BegunAnew ==
    ASSUME NEW e \in Entry, NEW t \in Nat
    PROVE  /\ [e EXCEPT !.start = t, !.used = 0] \in Entry
           /\ [e EXCEPT !.start = t, !.used = 0].start = t
           /\ [e EXCEPT !.start = t, !.used = 0].used = 0
<1>1. [e EXCEPT !.start = t, !.used = 0] \in Entry
    BY DEF Entry
<1>2. [e EXCEPT !.start = t, !.used = 0].start = t
    BY DEF Entry
<1>3. [e EXCEPT !.start = t, !.used = 0].used = 0
    BY DEF Entry
<1> QED
    BY <1>1, <1>2, <1>3

\* The window of k after a use of it.
LEMMA UsedWindow ==
    ASSUME KeysTypeOK, RateLimit > 0, NEW k \in Keys, cache[k] # NoKey, ~Limited(k),
           \A i \in DOMAIN uses[k] : uses[k][i] \in 1 .. now,
           Window(uses[k], Begun(cache, k), Spent(cache, k), now), Spans(uses[k], now)
    PROVE  /\ Window(Append(uses[k], now), Use(k).start, Use(k).used, now)
           /\ Spans(Append(uses[k], now), now)
<1> DEFINE s == cache[k].start
           n == cache[k].used
           u == uses[k]
<1>1. cache[k] \in Entry
    BY DEF KeysTypeOK, Maybe
<1>2. s \in Nat /\ n \in Nat /\ Begun(cache, k) = s /\ Spent(cache, k) = n
    BY <1>1 DEF Entry, Begun, Spent
<1>3. u \in Seq(Nat) /\ now \in Nat \ {0}
    BY CounterTypes
<1>4. CASE s = 0 \/ now - s >= RateWindow
  <2>1. Current(cache[k]) = [cache[k] EXCEPT !.start = now, !.used = 0]
      BY <1>4 DEF Current
  <2>2. Current(cache[k]) \in Entry /\ Current(cache[k]).start = now /\ Current(cache[k]).used = 0
    <3> HIDE DEF Current
    <3>1. now \in Nat
        BY <1>3
    <3>2. PICK e \in Entry : e = cache[k]
        BY <1>1
    <3>3. /\ [e EXCEPT !.start = now, !.used = 0] \in Entry
          /\ [e EXCEPT !.start = now, !.used = 0].start = now
          /\ [e EXCEPT !.start = now, !.used = 0].used = 0
        BY <3>1, BegunAnew
    <3>4. Current(cache[k]) = [e EXCEPT !.start = now, !.used = 0]
        BY <2>1, <3>2
    <3> QED
        BY <3>3, <3>4
  <2>3. Use(k).start = now /\ Use(k).used = 1
    <3> HIDE DEF Current
    <3>1. InWindow(cache[k]) = [Current(cache[k]) EXCEPT !.used = @ + 1]
        BY DEF InWindow
    <3>2. InWindow(cache[k]) \in Entry
          /\ InWindow(cache[k]).start = now /\ InWindow(cache[k]).used = 1
        BY <2>2, <3>1 DEF Entry
    <3> HIDE DEF InWindow
    <3> QED
        BY <3>2 DEF Use, Entry
  <2> HIDE DEF s, n, u
  <2>4. Window(Append(u, now), now, 1, now) /\ Spans(Append(u, now), now)
      BY <1>2, <1>3, <1>4, UseBeginsWindow DEF u
  <2> QED
      BY <2>3, <2>4 DEF u
<1>5. CASE ~(s = 0 \/ now - s >= RateWindow)
  <2>1. Current(cache[k]) = cache[k]
      BY <1>5 DEF Current
  <2>2. n < RateLimit
      BY <1>1, <2>1, KeysAssumption DEF Limited, Entry
  <2>3. Use(k).start = s /\ Use(k).used = n + 1
    <3>1. InWindow(cache[k]) = [cache[k] EXCEPT !.used = @ + 1]
        BY <2>1 DEF InWindow
    <3>2. InWindow(cache[k]) \in Entry
          /\ InWindow(cache[k]).start = s /\ InWindow(cache[k]).used = n + 1
        BY <1>1, <3>1 DEF Entry
    <3> HIDE DEF InWindow
    <3> QED
        BY <3>2 DEF Use, Entry
  <2> HIDE DEF s, n, u
  <2>4. s \in Nat \ {0} /\ now - s < RateWindow
      BY <1>2, <1>3, <1>5, KeysAssumption
  <2>5. Window(Append(u, now), s, n + 1, now) /\ Spans(Append(u, now), now)
      BY <1>2, <1>3, <2>2, <2>4, UseInWindow DEF u
  <2> QED
      BY <2>3, <2>5 DEF u
<1> QED
    BY <1>4, <1>5

LEMMA AuthenticateWindow ==
    ASSUME KeysInv, WindowInv, NEW k \in Keys, NEW v \in 1 .. MaxVersion, Authenticate(k, v)
    PROVE  WindowInv'
<1>t. KeysTypeOK
    BY DEF KeysInv
<1>u. /\ cache[k] # NoKey /\ ~Limited(k) /\ Change(k, Use(k))
      /\ uses' = [uses EXCEPT ![k] = Append(@, now)]
      /\ unlimited' = unlimited \cup Caught(k)
      /\ UNCHANGED <<rows, phase, todo, now, behind, outdated>>
    BY DEF Authenticate, Valid
<1>e. Use(k) \in Entry /\ Use(k).ver = cache[k].ver /\ Use(k).enabled = cache[k].enabled
    BY <1>t, <1>u, UseEntry
<1> HIDE DEF Use
<1>c. /\ cache'[k] = Use(k)
      /\ \A j \in Keys : j # k => cache'[j] = cache[j]
      /\ \A a \in Admins, j \in Keys :
            j # k \/ a \notin Copied(k) => load'[a][j] = load[a][j]
    BY <1>e, <1>u, ChangedEntry
<1>r. Reading' = Reading /\ Reading \subseteq Admins
    BY <1>u DEF Reading
<1>k. Use(k) # NoKey
    BY <1>e, KeysAssumption
<1>b. Begun(cache', k) = Use(k).start /\ Spent(cache', k) = Use(k).used
    BY <1>c, <1>k DEF Begun, Spent
<1>s. /\ uses'[k] = Append(uses[k], now)
      /\ \A j \in Keys : j # k => uses'[j] = uses[j]
    BY <1>t, <1>u DEF KeysTypeOK
<1>n. \A j \in Keys : \A i \in DOMAIN uses[j] : uses[j][i] \in 1 .. now
    BY DEF WindowInv
<1>1. \A j \in Keys : \A i \in DOMAIN uses'[j] : uses'[j][i] \in 1 .. now'
  <2>1. \A i \in DOMAIN Append(uses[k], now) : Append(uses[k], now)[i] \in 1 .. now
    <3>1. uses[k] \in Seq(Nat) /\ now \in Nat \ {0}
        BY <1>t, CounterTypes
    <3> QED
        BY <1>n, <3>1
  <2> QED
      BY <1>n, <1>s, <1>u, <2>1
<1>2. ASSUME NEW a \in Reading', NEW j \in Keys, j \in todo'[a]
      PROVE  Begun(load'[a], j) = 0 /\ Spent(load'[a], j) = 0
  <2>1. a \in Admins /\ a \in Reading /\ j \in todo[a]
      BY <1>2, <1>r, <1>u
  <2>2. j # k \/ a \notin Copied(k)
      BY <2>1 DEF Copied
  <2>3. load'[a][j] = load[a][j]
      BY <1>c, <2>1, <2>2
  <2> QED
      BY <2>1, <2>3 DEF WindowInv, Begun, Spent
<1>3. ASSUME RateLimit > 0, NEW j \in Keys \ unlimited', rows'[j] # NoKey
      PROVE  WindowOf(j)'
  <2>1. WindowOf(j)
      BY <1>3, <1>u DEF WindowInv, WindowOf, LimitHeld, Spans
  <2>2. CASE j = k
    <3>1. Copied(k) = {}
        BY <1>3, <1>u, <2>2 DEF Caught
    <3>2. \A a \in Reading : k \in todo[a]
        BY <3>1 DEF Copied
    <3>3. Window(uses'[k], Begun(cache', k), Spent(cache', k), now) /\ Spans(uses'[k], now)
        BY <1>b, <1>n, <1>s, <1>t, <1>u, <1>3, <2>1, <2>2, UsedWindow DEF WindowOf
    <3> QED
        BY <1>r, <1>u, <2>2, <3>2, <3>3 DEF WindowOf
  <2>3. CASE j # k
    <3>1. /\ cache'[j] = cache[j] /\ uses'[j] = uses[j]
          /\ \A a \in Reading : load'[a][j] = load[a][j]
        BY <1>c, <1>r, <1>s, <2>3
    <3> QED
        BY <1>r, <1>u, <2>1, <3>1 DEF WindowOf, Begun, Spent
  <2> QED
      BY <2>2, <2>3
<1> QED
    BY <1>1, <1>2, <1>3 DEF WindowInv, WindowOf, LimitHeld, Spans

LEMMA WindowInitInv == KeysInit => WindowInv
<1> SUFFICES ASSUME KeysInit PROVE WindowInv
    OBVIOUS
<1>1. /\ now = 1 /\ Reading = {}
      /\ \A k \in Keys : uses[k] = <<>> /\ rows[k] = NoKey
    BY DEF KeysInit, Reading
<1> QED
    BY <1>1 DEF WindowInv, LimitHeld

\* The window a key is counted in: the cache, and the next cache of a reload
\* that has copied the key, have when it began and every use since.
THEOREM WindowInvariance == KeysSpec => []WindowInv
<1>1. KeysInv /\ WindowInv /\ [KeysNext]_keyVars => WindowInv'
  <2> SUFFICES ASSUME KeysInv, WindowInv, [KeysNext]_keyVars PROVE WindowInv'
      OBVIOUS
  <2>1. CASE \E a \in Admins : AdminStep(a)
    <3>1. PICK a \in Admins : AdminStep(a)
        BY <2>1
    <3>2. \/ \E k \in Keys : Create(a, k) \/ Rotate(a, k) \/ Update(a, k) \/ Delete(a, k)
          \/ \E k \in Keys : Copy(a, k)
          \/ Query(a) \/ Swap(a) \/ ReloadFails(a)
        BY <3>1 DEF AdminStep
    <3> QED
        BY <3>2, AdminWritesWindow, CopyWindow, QueryWindow, SwapWindow, ReloadFailsWindow
  <2>2. CASE \E k \in Keys, v \in 1 .. MaxVersion : Authenticate(k, v)
      BY <2>2, AuthenticateWindow
  <2>3. CASE FlushStep
      BY <2>3, TakeWindow, FlushRowWindow DEF FlushStep
  <2>4. CASE KeysExit
      BY <2>4, KeysExitWindow
  <2>5. CASE Tick \/ UNCHANGED keyVars
      BY <2>5, TickWindow
  <2> QED
      BY <2>1, <2>2, <2>3, <2>4, <2>5 DEF KeysNext
<1> QED
    BY <1>1, WindowInitInv, KeysInvariance, PTL DEF KeysSpec

\* In no span as long as a window is a key let through twice its limit, but
\* for the excuses named there.
THEOREM LimitKept == KeysSpec => []LimitHeld
<1>1. WindowInv => LimitHeld
    BY DEF WindowInv
<1> QED
    BY <1>1, WindowInvariance, PTL
===============================================================================
