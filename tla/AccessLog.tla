------------------------------ MODULE AccessLog -------------------------------
(***************************************************************************)
(* The access log of internal/gateway/accesslog.go: requests append to a   *)
(* buffer; a ticker, and every query before it reads, takes the buffer and *)
(* inserts its entries one by one; old entries are purged.                 *)
(*                                                                         *)
(* Entries are told apart by the request they are of.  Their order does    *)
(* not matter, since a query sorts them: the buffer and what a flush has   *)
(* taken of it are sets.                                                   *)
(***************************************************************************)
EXTENDS Integers

CONSTANTS
    Entries,         \* one for each request that may be recorded
    Queries,         \* the queries of the log
    Ticker,          \* the goroutine that flushes and purges
    RetentionDays,   \* ACCESS_LOG_RETENTION_DAYS: 0 disables the log, below keeps all
    MaxLogFaults     \* bound: inserts that fail, and exits

ASSUME LogAssumption ==
    /\ Ticker \notin Queries
    /\ RetentionDays \in Int
    /\ MaxLogFaults \in Nat

Flushers == Queries \cup {Ticker}

VARIABLES
    buf,         \* s.buf
    hand,        \* what a flush has taken and not inserted yet
    logs,        \* gw_access_logs: how many rows an entry has
    asking,      \* a query: "idle", "flush", "answered"
    answer,      \* what it read
    logFaults,   \* failed inserts and exits so far
    \* history
    recorded,    \* entries given to Record
    dropped,     \* entries lost to a failed insert or an exit
    expired,     \* entries purged
    due          \* what a query has to see

logVars == <<buf, hand, logs, asking, answer, logFaults, recorded, dropped, expired, due>>

LogInit ==
    /\ buf = {}
    /\ hand = [f \in Flushers |-> {}]
    /\ logs = [e \in Entries |-> 0]
    /\ asking = [q \in Queries |-> "idle"]
    /\ answer = [q \in Queries |-> {}]
    /\ logFaults = 0
    /\ recorded = {}
    /\ dropped = {}
    /\ expired = {}
    /\ due = [q \in Queries |-> {}]

Enabled == RetentionDays # 0

Record(e) ==
    /\ e \notin recorded
    /\ IF Enabled
       THEN buf' = buf \cup {e} /\ recorded' = recorded \cup {e}
       ELSE UNCHANGED <<buf, recorded>>
    /\ UNCHANGED <<hand, logs, asking, answer, logFaults, dropped, expired, due>>

\* Mutant: the buffer is emptied only after the inserts of the next flush.
Grab_Keeps(f) ==
    /\ hand[f] = {}
    /\ hand' = [hand EXCEPT ![f] = buf]
    /\ UNCHANGED buf

\* The locked part of flush.
Grab(f) ==
    /\ hand[f] = {}
    /\ hand' = [hand EXCEPT ![f] = buf]
    /\ buf' = {}

TickerFlush ==
    /\ Enabled /\ buf # {}
    /\ Grab(Ticker)
    /\ UNCHANGED <<logs, asking, answer, logFaults, recorded, dropped, expired, due>>

\* The next entry is inserted, or is not and is not kept either.
Insert(f, e) ==
    /\ e \in hand[f]
    /\ hand' = [hand EXCEPT ![f] = @ \ {e}]
    /\ \/ /\ logs' = [logs EXCEPT ![e] = @ + 1]
          /\ UNCHANGED <<logFaults, dropped>>
       \/ /\ logFaults < MaxLogFaults
          /\ logFaults' = logFaults + 1
          /\ dropped' = dropped \cup {e}
          /\ UNCHANGED logs
    /\ UNCHANGED <<buf, asking, answer, recorded, expired, due>>

\* The rows of entries older than the retention, in the goroutine of the ticker
\* or before it is started.
Purge ==
    /\ RetentionDays > 0
    /\ hand[Ticker] = {}
    /\ \E old \in SUBSET {e \in Entries : logs[e] > 0} :
          /\ old # {}
          /\ logs' = [e \in Entries |-> IF e \in old THEN 0 ELSE logs[e]]
          /\ expired' = expired \cup old
    /\ UNCHANGED <<buf, hand, asking, answer, logFaults, recorded, dropped, due>>

\* What every other flush has in hand is not this query's to insert.
QueryFlush(q) ==
    /\ Enabled
    /\ asking[q] = "idle"
    /\ asking' = [asking EXCEPT ![q] = "flush"]
    /\ due' = [due EXCEPT ![q] = recorded \ UNION {hand[f] : f \in Flushers}]
    /\ Grab(q)
    /\ UNCHANGED <<logs, answer, logFaults, recorded, dropped, expired>>

\* Mutant: the rows are read while the flush is under way.
QueryRead_Early(q) ==
    /\ asking[q] = "flush"
    /\ asking' = [asking EXCEPT ![q] = "answered"]
    /\ answer' = [answer EXCEPT ![q] = {e \in Entries : logs[e] > 0}]
    /\ UNCHANGED <<buf, hand, logs, logFaults, recorded, dropped, expired, due>>

\* Filters, limit and offset are left out: the answer is all the rows.
QueryRead(q) ==
    /\ asking[q] = "flush"
    /\ hand[q] = {}
    /\ asking' = [asking EXCEPT ![q] = "answered"]
    /\ answer' = [answer EXCEPT ![q] = {e \in Entries : logs[e] > 0}]
    /\ UNCHANGED <<buf, hand, logs, logFaults, recorded, dropped, expired, due>>

\* The process ends, with or without the last flush that stop asks for.
LogExit ==
    /\ logFaults < MaxLogFaults
    /\ logFaults' = logFaults + 1
    /\ dropped' = dropped \cup buf \cup UNION {hand[f] : f \in Flushers}
    /\ buf' = {}
    /\ hand' = [f \in Flushers |-> {}]
    /\ asking' = [q \in Queries |-> IF asking[q] = "flush" THEN "idle" ELSE asking[q]]
    /\ UNCHANGED <<logs, answer, recorded, expired, due>>

LogStep ==
    \/ TickerFlush \/ Purge
    \/ \E f \in Flushers, e \in Entries : Insert(f, e)
    \/ \E q \in Queries : QueryFlush(q) \/ QueryRead(q)

LogNext == (\E e \in Entries : Record(e)) \/ LogStep \/ LogExit

LogSpec == LogInit /\ [][LogNext]_logVars

-------------------------------------------------------------------------------
LogTypeOK ==
    /\ buf \in SUBSET Entries
    /\ hand \in [Flushers -> SUBSET Entries]
    /\ logs \in [Entries -> Nat]
    /\ asking \in [Queries -> {"idle", "flush", "answered"}]
    /\ answer \in [Queries -> SUBSET Entries]
    /\ logFaults \in 0 .. MaxLogFaults
    /\ recorded \in SUBSET Entries
    /\ dropped \in SUBSET Entries
    /\ expired \in SUBSET Entries
    /\ due \in [Queries -> SUBSET Entries]

InHand == UNION {hand[f] : f \in Flushers}
Inserted == {e \in Entries : logs[e] > 0}

(***************************************************************************)
(* Whoever flushes, and however flushes overlap, an entry is in one place: *)
(* in the buffer, with one flush, in one row, purged, or, with a failed    *)
(* insert or an exit, lost.                                                *)
(***************************************************************************)
LoggedOnce ==
    /\ recorded = buf \cup InHand \cup Inserted \cup dropped \cup expired
    /\ \A e \in Entries : logs[e] <= 1
    /\ \A f, g \in Flushers : f # g => hand[f] \cap hand[g] = {}
    /\ buf \cap (InHand \cup Inserted \cup dropped \cup expired) = {}
    /\ InHand \cap (Inserted \cup dropped \cup expired) = {}
    /\ Inserted \cap (dropped \cup expired) = {}
    /\ dropped \cap expired = {}

(***************************************************************************)
(* A query answers with every entry recorded before it began, but for      *)
(* those another flush has in hand at that time, and those purged or lost. *)
(***************************************************************************)
QuerySeesRecorded ==
    \A q \in Queries : asking[q] = "answered" =>
        due[q] \subseteq answer[q] \cup dropped \cup expired

\* While a query flushes, what it has to see is in the table or in its hand.
QueryInv ==
    \A q \in Queries : asking[q] = "flush" =>
        due[q] \subseteq Inserted \cup hand[q] \cup dropped \cup expired

LogInv == LogTypeOK /\ LoggedOnce /\ QueryInv /\ QuerySeesRecorded
===============================================================================
