--------------------------- MODULE AccessLogProofs ----------------------------
(***************************************************************************)
(* Proofs about AccessLog, for any number of entries and queries.          *)
(***************************************************************************)
EXTENDS AccessLog, TLAPS

USE LogAssumption DEF LogAssumption

LEMMA LogInitInv == LogInit => LogInv
<1> SUFFICES ASSUME LogInit PROVE LogInv
    OBVIOUS
<1> USE DEF LogInit
<1>1. LogTypeOK
    BY DEF LogTypeOK
<1>2. InHand = {} /\ Inserted = {}
    BY DEF InHand, Inserted, Flushers
<1>3. LoggedOnce
    BY <1>2 DEF LoggedOnce
<1>4. QueryInv /\ QuerySeesRecorded
    BY DEF QueryInv, QuerySeesRecorded
<1> QED
    BY <1>1, <1>3, <1>4 DEF LogInv

\* Steps that leave the queries alone: an entry that leaves the table is purged,
\* and one that leaves a hand is inserted or lost.
LEMMA QueriesKept ==
    ASSUME LogInv, UNCHANGED <<asking, answer, due>>,
           dropped \subseteq dropped', expired \subseteq expired',
           Inserted \subseteq Inserted' \cup expired',
           \A q \in Queries : hand[q] \subseteq hand'[q] \cup Inserted' \cup dropped'
    PROVE  QueryInv' /\ QuerySeesRecorded'
<1>t. QueryInv /\ QuerySeesRecorded
    BY DEF LogInv
<1>1. QueryInv'
  <2> SUFFICES ASSUME NEW q \in Queries, asking[q] = "flush"
               PROVE  due[q] \subseteq Inserted' \cup hand'[q] \cup dropped' \cup expired'
      BY DEF QueryInv
  <2>1. due[q] \subseteq Inserted \cup hand[q] \cup dropped \cup expired
      BY <1>t DEF QueryInv
  <2> QED
      BY <2>1
<1>2. QuerySeesRecorded'
    BY <1>t DEF QuerySeesRecorded
<1> QED
    BY <1>1, <1>2

LEMMA RecordInv == ASSUME LogInv, NEW e \in Entries, Record(e) PROVE LogInv'
<1>t. LogTypeOK /\ LoggedOnce
    BY DEF LogInv
<1>u. /\ e \notin recorded
      /\ UNCHANGED <<hand, logs, asking, answer, logFaults, dropped, expired, due>>
      /\ \/ buf' = buf \cup {e} /\ recorded' = recorded \cup {e}
         \/ UNCHANGED <<buf, recorded>>
    BY DEF Record
<1>1. LogTypeOK'
    BY <1>t, <1>u DEF LogTypeOK
<1>2. InHand' = InHand /\ Inserted' = Inserted
    BY <1>u DEF InHand, Inserted
<1>3. LoggedOnce'
  <2>1. e \notin InHand \cup Inserted \cup dropped \cup expired
      BY <1>t, <1>u DEF LoggedOnce
  <2> QED
      BY <1>t, <1>u, <1>2, <2>1 DEF LoggedOnce
<1>4. QueryInv' /\ QuerySeesRecorded'
    BY <1>u, <1>2, QueriesKept
<1> QED
    BY <1>1, <1>3, <1>4 DEF LogInv

\* What is in hand when a flush takes the buffer.
LEMMA GrabHand ==
    ASSUME LogInv, NEW f \in Flushers, Grab(f)
    PROVE  /\ hand' \in [Flushers -> SUBSET Entries]
           /\ hand[f] = {} /\ hand'[f] = buf /\ buf' = {}
           /\ \A g \in Flushers : g # f => hand'[g] = hand[g]
           /\ InHand' = InHand \cup buf
           /\ \A g, h \in Flushers : g # h => hand'[g] \cap hand'[h] = {}
<1>t. LogTypeOK /\ LoggedOnce
    BY DEF LogInv
<1>1. /\ hand' \in [Flushers -> SUBSET Entries]
      /\ hand[f] = {} /\ hand'[f] = buf /\ buf' = {}
      /\ \A g \in Flushers : g # f => hand'[g] = hand[g]
    BY <1>t DEF Grab, LogTypeOK
<1>2. InHand' = InHand \cup buf
  <2>1. ASSUME NEW x PROVE x \in InHand' <=> x \in InHand \cup buf
      BY <1>1 DEF InHand
  <2> QED
      BY <2>1
<1>3. \A g \in Flushers : hand[g] \subseteq InHand
    BY DEF InHand
<1>4. ASSUME NEW g \in Flushers, NEW h \in Flushers, g # h PROVE hand'[g] \cap hand'[h] = {}
  <2>1. buf \cap InHand = {}
      BY <1>t DEF LoggedOnce
  <2>2. g # f /\ h # f => hand[g] \cap hand[h] = {}
      BY <1>t, <1>4 DEF LoggedOnce
  <2> QED
      BY <1>1, <1>3, <1>4, <2>1, <2>2
<1> QED
    BY <1>1, <1>2, <1>4

LEMMA TickerFlushInv == ASSUME LogInv, TickerFlush PROVE LogInv'
<1>t. LogTypeOK /\ LoggedOnce
    BY DEF LogInv
<1>f. Ticker \in Flushers
    BY DEF Flushers
<1>u. /\ Grab(Ticker)
      /\ UNCHANGED <<logs, asking, answer, logFaults, recorded, dropped, expired, due>>
    BY DEF TickerFlush
<1>g. /\ hand' \in [Flushers -> SUBSET Entries]
      /\ buf' = {}
      /\ \A g \in Flushers : g # Ticker => hand'[g] = hand[g]
      /\ InHand' = InHand \cup buf
      /\ \A g, h \in Flushers : g # h => hand'[g] \cap hand'[h] = {}
    BY <1>f, <1>u, GrabHand
<1>1. LogTypeOK'
    BY <1>t, <1>u, <1>g DEF LogTypeOK
<1>2. Inserted' = Inserted
    BY <1>u DEF Inserted
<1>3. LoggedOnce'
    BY <1>t, <1>u, <1>g, <1>2 DEF LoggedOnce
<1>4. QueryInv' /\ QuerySeesRecorded'
  <2>1. \A q \in Queries : hand'[q] = hand[q]
      BY <1>g DEF Flushers
  <2> QED
      BY <1>u, <1>2, <2>1, QueriesKept
<1> QED
    BY <1>1, <1>3, <1>4 DEF LogInv

LEMMA InsertInv ==
    ASSUME LogInv, NEW f \in Flushers, NEW e \in Entries, Insert(f, e) PROVE LogInv'
<1>t. LogTypeOK /\ LoggedOnce
    BY DEF LogInv
<1>u. /\ e \in hand[f]
      /\ hand' = [hand EXCEPT ![f] = @ \ {e}]
      /\ UNCHANGED <<buf, asking, answer, recorded, expired, due>>
      /\ \/ logs' = [logs EXCEPT ![e] = @ + 1] /\ UNCHANGED <<logFaults, dropped>>
         \/ /\ logFaults < MaxLogFaults /\ logFaults' = logFaults + 1
            /\ dropped' = dropped \cup {e} /\ UNCHANGED logs
    BY DEF Insert
<1>h. /\ hand'[f] = hand[f] \ {e}
      /\ \A g \in Flushers : g # f => hand'[g] = hand[g]
    BY <1>t, <1>u DEF LogTypeOK
<1>i. e \in InHand
    BY <1>u DEF InHand
<1>j. e \notin buf \cup Inserted \cup dropped \cup expired
    BY <1>t, <1>i DEF LoggedOnce
<1>k. logs[e] = 0
    BY <1>t, <1>j DEF Inserted, LogTypeOK
<1>1. LogTypeOK'
  <2>1. logs' \in [Entries -> Nat]
      BY <1>t, <1>u DEF LogTypeOK
  <2>2. logFaults' \in 0 .. MaxLogFaults
      BY <1>t, <1>u DEF LogTypeOK
  <2>3. hand' \in [Flushers -> SUBSET Entries] /\ dropped' \subseteq Entries
      BY <1>t, <1>u DEF LogTypeOK
  <2> QED
      BY <1>t, <1>u, <2>1, <2>2, <2>3 DEF LogTypeOK
<1>2. InHand' = InHand \ {e}
  <2>1. ASSUME NEW x PROVE x \in InHand' <=> x \in InHand \ {e}
    <3>1. \A g \in Flushers : g # f => e \notin hand[g]
        BY <1>t, <1>u DEF LoggedOnce
    <3> QED
        BY <1>h, <3>1 DEF InHand
  <2> QED
      BY <2>1
<1>3. \/ Inserted' = Inserted \cup {e} /\ dropped' = dropped
      \/ Inserted' = Inserted /\ dropped' = dropped \cup {e}
  <2>1. CASE logs' = [logs EXCEPT ![e] = @ + 1] /\ UNCHANGED <<logFaults, dropped>>
    <3>1. logs'[e] = 1 /\ \A x \in Entries : x # e => logs'[x] = logs[x]
        BY <1>t, <1>k, <2>1 DEF LogTypeOK
    <3>2. Inserted' = Inserted \cup {e}
        BY <3>1 DEF Inserted
    <3> QED
        BY <2>1, <3>2
  <2>2. CASE dropped' = dropped \cup {e} /\ UNCHANGED logs
      BY <2>2 DEF Inserted
  <2> QED
      BY <1>u, <2>1, <2>2
<1>4. LoggedOnce'
  <2>1. \A x \in Entries : logs'[x] <= 1
      BY <1>t, <1>u, <1>k DEF LoggedOnce, LogTypeOK
  <2>2. \A g, h \in Flushers : g # h => hand'[g] \cap hand'[h] = {}
      BY <1>t, <1>h DEF LoggedOnce
  <2>3. /\ recorded = buf \cup InHand \cup Inserted \cup dropped \cup expired
        /\ buf \cap (InHand \cup Inserted \cup dropped \cup expired) = {}
        /\ InHand \cap (Inserted \cup dropped \cup expired) = {}
        /\ Inserted \cap (dropped \cup expired) = {}
        /\ dropped \cap expired = {}
      BY <1>t DEF LoggedOnce
  <2>4. /\ recorded' = buf' \cup InHand' \cup Inserted' \cup dropped' \cup expired'
        /\ buf' \cap (InHand' \cup Inserted' \cup dropped' \cup expired') = {}
        /\ InHand' \cap (Inserted' \cup dropped' \cup expired') = {}
        /\ Inserted' \cap (dropped' \cup expired') = {}
        /\ dropped' \cap expired' = {}
    <3>1. CASE Inserted' = Inserted \cup {e} /\ dropped' = dropped
        BY <1>u, <1>i, <1>j, <1>2, <2>3, <3>1
    <3>2. CASE Inserted' = Inserted /\ dropped' = dropped \cup {e}
        BY <1>u, <1>i, <1>j, <1>2, <2>3, <3>2
    <3> QED
        BY <1>3, <3>1, <3>2
  <2> QED
      BY <2>1, <2>2, <2>4 DEF LoggedOnce
<1>5. QueryInv' /\ QuerySeesRecorded'
  <2>1. \A q \in Queries : hand[q] \subseteq hand'[q] \cup Inserted' \cup dropped'
    <3>1. Queries \subseteq Flushers
        BY DEF Flushers
    <3> QED
        BY <1>h, <1>3, <3>1
  <2> QED
      BY <1>u, <1>3, <2>1, QueriesKept
<1> QED
    BY <1>1, <1>4, <1>5 DEF LogInv

LEMMA PurgeInv == ASSUME LogInv, Purge PROVE LogInv'
<1>t. LogTypeOK /\ LoggedOnce
    BY DEF LogInv
<1>u. UNCHANGED <<buf, hand, asking, answer, logFaults, recorded, dropped, due>>
    BY DEF Purge
<1>v. PICK old \in SUBSET Inserted :
          /\ logs' = [e \in Entries |-> IF e \in old THEN 0 ELSE logs[e]]
          /\ expired' = expired \cup old
    BY DEF Purge, Inserted
<1>1. LogTypeOK'
    BY <1>t, <1>u, <1>v DEF LogTypeOK, Inserted
<1>2. Inserted' = Inserted \ old /\ InHand' = InHand
    BY <1>u, <1>v DEF Inserted, InHand
<1>3. LoggedOnce'
  <2>1. \A x \in Entries : logs'[x] <= 1
      BY <1>t, <1>v DEF LoggedOnce
  <2> QED
      BY <1>t, <1>u, <1>v, <1>2, <2>1 DEF LoggedOnce
<1>4. QueryInv' /\ QuerySeesRecorded'
    BY <1>u, <1>v, <1>2, QueriesKept
<1> QED
    BY <1>1, <1>3, <1>4 DEF LogInv

LEMMA QueryFlushInv == ASSUME LogInv, NEW q \in Queries, QueryFlush(q) PROVE LogInv'
<1>t. LogTypeOK /\ LoggedOnce /\ QueryInv /\ QuerySeesRecorded
    BY DEF LogInv
<1>f. q \in Flushers
    BY DEF Flushers
<1>u. /\ Grab(q)
      /\ asking' = [asking EXCEPT ![q] = "flush"]
      /\ due' = [due EXCEPT ![q] = recorded \ UNION {hand[f] : f \in Flushers}]
      /\ UNCHANGED <<logs, answer, logFaults, recorded, dropped, expired>>
    BY DEF QueryFlush
<1>g. /\ hand' \in [Flushers -> SUBSET Entries]
      /\ hand'[q] = buf /\ buf' = {}
      /\ \A g \in Flushers : g # q => hand'[g] = hand[g]
      /\ InHand' = InHand \cup buf
      /\ \A g, h \in Flushers : g # h => hand'[g] \cap hand'[h] = {}
    BY <1>f, <1>u, GrabHand
<1>d. /\ due'[q] = recorded \ InHand /\ asking'[q] = "flush"
      /\ \A p \in Queries : p # q => due'[p] = due[p] /\ asking'[p] = asking[p]
    BY <1>t, <1>u DEF LogTypeOK, InHand
<1>1. LogTypeOK'
  <2>1. recorded \ UNION {hand[f] : f \in Flushers} \subseteq Entries
      BY <1>t DEF LogTypeOK
  <2> QED
      BY <1>t, <1>u, <1>g, <2>1 DEF LogTypeOK
<1>2. Inserted' = Inserted
    BY <1>u DEF Inserted
<1>3. LoggedOnce'
    BY <1>t, <1>u, <1>g, <1>2 DEF LoggedOnce
<1>4. QueryInv'
  <2> SUFFICES ASSUME NEW p \in Queries, asking'[p] = "flush"
               PROVE  due'[p] \subseteq Inserted' \cup hand'[p] \cup dropped' \cup expired'
      BY DEF QueryInv
  <2>1. CASE p = q
    <3>1. recorded \ InHand \subseteq buf \cup Inserted \cup dropped \cup expired
        BY <1>t DEF LoggedOnce
    <3> QED
        BY <1>d, <1>g, <1>u, <1>2, <2>1, <3>1
  <2>2. CASE p # q
    <3>1. hand'[p] = hand[p]
        BY <1>g, <2>2 DEF Flushers
    <3> QED
        BY <1>t, <1>d, <1>u, <1>2, <2>2, <3>1 DEF QueryInv
  <2> QED
      BY <2>1, <2>2
<1>5. QuerySeesRecorded'
  <2> SUFFICES ASSUME NEW p \in Queries, asking'[p] = "answered"
               PROVE  due'[p] \subseteq answer'[p] \cup dropped' \cup expired'
      BY DEF QuerySeesRecorded
  <2>1. p # q
      BY <1>d
  <2> QED
      BY <1>t, <1>d, <1>u, <2>1 DEF QuerySeesRecorded
<1> QED
    BY <1>1, <1>3, <1>4, <1>5 DEF LogInv

LEMMA QueryReadInv == ASSUME LogInv, NEW q \in Queries, QueryRead(q) PROVE LogInv'
<1>t. LogTypeOK /\ LoggedOnce /\ QueryInv /\ QuerySeesRecorded
    BY DEF LogInv
<1>u. /\ asking[q] = "flush" /\ hand[q] = {}
      /\ asking' = [asking EXCEPT ![q] = "answered"]
      /\ answer' = [answer EXCEPT ![q] = Inserted]
      /\ UNCHANGED <<buf, hand, logs, logFaults, recorded, dropped, expired, due>>
    BY DEF QueryRead, Inserted
<1>d. /\ answer'[q] = Inserted /\ asking'[q] = "answered"
      /\ \A p \in Queries : p # q => answer'[p] = answer[p] /\ asking'[p] = asking[p]
    BY <1>t, <1>u DEF LogTypeOK
<1>1. LogTypeOK'
  <2>1. Inserted \subseteq Entries
      BY DEF Inserted
  <2> QED
      BY <1>t, <1>u, <2>1 DEF LogTypeOK
<1>2. Inserted' = Inserted /\ InHand' = InHand
    BY <1>u DEF Inserted, InHand
<1>3. LoggedOnce'
    BY <1>t, <1>u, <1>2 DEF LoggedOnce
<1>4. QueryInv'
  <2> SUFFICES ASSUME NEW p \in Queries, asking'[p] = "flush"
               PROVE  due[p] \subseteq Inserted \cup hand[p] \cup dropped \cup expired
      BY <1>u, <1>2 DEF QueryInv
  <2>1. p # q
      BY <1>d
  <2> QED
      BY <1>t, <1>d, <2>1 DEF QueryInv
<1>5. QuerySeesRecorded'
  <2> SUFFICES ASSUME NEW p \in Queries, asking'[p] = "answered"
               PROVE  due[p] \subseteq answer'[p] \cup dropped \cup expired
      BY <1>u DEF QuerySeesRecorded
  <2>1. CASE p = q
      BY <1>t, <1>u, <1>d, <2>1 DEF QueryInv
  <2>2. CASE p # q
      BY <1>t, <1>d, <2>2 DEF QuerySeesRecorded
  <2> QED
      BY <2>1, <2>2
<1> QED
    BY <1>1, <1>3, <1>4, <1>5 DEF LogInv

LEMMA LogExitInv == ASSUME LogInv, LogExit PROVE LogInv'
<1>t. LogTypeOK /\ LoggedOnce /\ QueryInv /\ QuerySeesRecorded
    BY DEF LogInv
<1>u. /\ logFaults < MaxLogFaults /\ logFaults' = logFaults + 1
      /\ dropped' = dropped \cup buf \cup InHand
      /\ buf' = {}
      /\ hand' = [f \in Flushers |-> {}]
      /\ asking' = [q \in Queries |-> IF asking[q] = "flush" THEN "idle" ELSE asking[q]]
      /\ UNCHANGED <<logs, answer, recorded, expired, due>>
    BY DEF LogExit, InHand
<1>1. LogTypeOK'
  <2>1. InHand \subseteq Entries
      BY <1>t DEF InHand, LogTypeOK
  <2>2. logFaults' \in 0 .. MaxLogFaults
      BY <1>t, <1>u DEF LogTypeOK
  <2>3. asking' \in [Queries -> {"idle", "flush", "answered"}]
      BY <1>t, <1>u DEF LogTypeOK
  <2>4. hand' \in [Flushers -> SUBSET Entries]
      BY <1>u
  <2> QED
      BY <1>t, <1>u, <2>1, <2>2, <2>3, <2>4 DEF LogTypeOK
<1>2. Inserted' = Inserted
    BY <1>u DEF Inserted
<1>3. InHand' = {}
    BY <1>u DEF InHand
<1>4. LoggedOnce'
    BY <1>t, <1>u, <1>2, <1>3 DEF LoggedOnce
<1>5. QueryInv'
  <2>1. \A q \in Queries : asking'[q] # "flush"
      BY <1>u
  <2> QED
      BY <2>1 DEF QueryInv
<1>6. QuerySeesRecorded'
  <2>1. \A q \in Queries : asking'[q] = "answered" => asking[q] = "answered"
      BY <1>u
  <2> QED
      BY <1>t, <1>u, <2>1 DEF QuerySeesRecorded
<1> QED
    BY <1>1, <1>4, <1>5, <1>6 DEF LogInv

-------------------------------------------------------------------------------
\* The invariant is inductive.
THEOREM LogInvariance == LogSpec => []LogInv
<1>1. LogInv /\ [LogNext]_logVars => LogInv'
  <2> SUFFICES ASSUME LogInv, [LogNext]_logVars PROVE LogInv'
      OBVIOUS
  <2>1. CASE \E e \in Entries : Record(e)
      BY <2>1, RecordInv
  <2>2. CASE LogStep
    <3>1. CASE TickerFlush
        BY <3>1, TickerFlushInv
    <3>2. CASE Purge
        BY <3>2, PurgeInv
    <3>3. CASE \E f \in Flushers, e \in Entries : Insert(f, e)
        BY <3>3, InsertInv
    <3>4. CASE \E q \in Queries : QueryFlush(q) \/ QueryRead(q)
        BY <3>4, QueryFlushInv, QueryReadInv
    <3> QED
        BY <2>2, <3>1, <3>2, <3>3, <3>4 DEF LogStep
  <2>3. CASE LogExit
      BY <2>3, LogExitInv
  <2>4. CASE UNCHANGED logVars
      BY <2>4 DEF LogInv, LogTypeOK, LoggedOnce, QueryInv, QuerySeesRecorded, InHand, Inserted, logVars
  <2> QED
      BY <2>1, <2>2, <2>3, <2>4 DEF LogNext
<1> QED
    BY <1>1, LogInitInv, PTL DEF LogSpec

\* An entry is in one place, whoever flushes.
THEOREM EntryInOnePlace == LogSpec => []LoggedOnce
<1>1. LogInv => LoggedOnce
    BY DEF LogInv
<1> QED
    BY <1>1, LogInvariance, PTL

\* A query sees what was recorded before it and is in no other flush's hand.
THEOREM QueryComplete == LogSpec => []QuerySeesRecorded
<1>1. LogInv => QuerySeesRecorded
    BY DEF LogInv
<1> QED
    BY <1>1, LogInvariance, PTL
===============================================================================
