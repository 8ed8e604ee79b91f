------------------------------- MODULE ApiKeys --------------------------------
(***************************************************************************)
(* The managed API keys of internal/gateway/apikey.go: a table, a cache of *)
(* it that requests authenticate against and are counted in, the reload    *)
(* that replaces the cache after every change, and the flusher that adds   *)
(* the counts to the table.                                                *)
(*                                                                         *)
(* Reloads are not serialised: the query, the copy of what the cache knows *)
(* of each key, and the swap are separate steps, and requests, the flusher *)
(* and other reloads come between them.                                    *)
(*                                                                         *)
(* The secret of key k after v - 1 rotations is <<k, v>>.  The table and   *)
(* the cache have one entry per key: a row has one hash.  Of the fields a  *)
(* request reads, `enabled' stands for enabled and not expired; the limit  *)
(* and the window of a key are constants, whose changes are left out.      *)
(***************************************************************************)
EXTENDS Integers, Sequences, FiniteSets

CONSTANTS
    Keys,          \* ids of keys; an id is drawn at random and never used again
    NoKey,         \* the absence of an entry
    Admins,        \* admin requests that change a key
    MaxVersion,    \* bound: secrets a key may have had
    RateLimit,     \* requests per window, none if it is 0
    RateWindow,    \* length of the window
    MaxTime,       \* bound: the clock
    MaxFaults      \* bound: flushes that fail, and exits

\* A row of gw_api_keys, and a keyState of the cache.
Row == [ver : 1 .. MaxVersion, enabled : BOOLEAN, count : Nat]
Entry == [ver : 1 .. MaxVersion, enabled : BOOLEAN,
          start : Nat, used : Nat, delta : Nat]

ASSUME KeysAssumption ==
    /\ NoKey \notin Row \cup Entry
    /\ MaxVersion \in Nat \ {0}
    /\ RateLimit \in Nat
    /\ RateWindow \in Nat \ {0}
    /\ MaxTime \in Nat \ {0}
    /\ MaxFaults \in Nat

VARIABLES
    rows,        \* gw_api_keys
    cache,       \* s.cache
    phase,       \* an admin request: "idle", "query" (row written), "copy" (rows read), "done"
    load,        \* the next cache a reload is building
    todo,        \* the keys it has not copied the counters of yet
    taken,       \* the delta of a key flush has taken and not written yet
    now,         \* the clock
    keyFaults,   \* flush failures and exits so far
    \* history
    born,        \* ids that were created
    uses,        \* when the requests of a key were let through
    behind,      \* reloads that read the rows before they last changed
    outdated,    \* the cache is of such a reload, or a reload failed
    miscounted,  \* keys whose delta may be counted twice or not at all
    unlimited    \* keys whose window may have been forgotten

adminVars == <<phase, load, todo>>
excuses == <<behind, outdated, miscounted, unlimited>>
keyVars == <<rows, cache, adminVars, taken, now, keyFaults, born, uses, excuses>>

\* The cache entry of a row, with the counters at zero.
Fresh(row) == [ver |-> row.ver, enabled |-> row.enabled, start |-> 0, used |-> 0, delta |-> 0]
Loaded(table) == [k \in Keys |-> IF table[k] = NoKey THEN NoKey ELSE Fresh(table[k])]

KeysInit ==
    /\ rows = [k \in Keys |-> NoKey]
    /\ cache = [k \in Keys |-> NoKey]
    /\ phase = [a \in Admins |-> "idle"]
    /\ load = [a \in Admins |-> [k \in Keys |-> NoKey]]
    /\ todo = [a \in Admins |-> {}]
    /\ taken = [k \in Keys |-> 0]
    /\ now = 1
    /\ keyFaults = 0
    /\ born = {}
    /\ uses = [k \in Keys |-> <<>>]
    /\ behind = {}
    /\ outdated = FALSE
    /\ miscounted = {}
    /\ unlimited = {}

-------------------------------------------------------------------------------
(***************************************************************************)
(* Admin requests: a write, then the reload.  A write that fails changes   *)
(* nothing and returns; one that is carried out and reported as failed is  *)
(* a write whose reload fails.                                             *)
(***************************************************************************)

Reading == {a \in Admins : phase[a] = "copy"}

Write(a, table) ==
    /\ phase[a] = "idle"
    /\ rows' = table
    /\ phase' = [phase EXCEPT ![a] = "query"]
    /\ behind' = Reading
    /\ UNCHANGED <<cache, load, todo, taken, now, keyFaults, uses, outdated, miscounted, unlimited>>

Create(a, k) ==
    /\ k \notin born
    /\ born' = born \cup {k}
    /\ Write(a, [rows EXCEPT ![k] = [ver |-> 1, enabled |-> TRUE, count |-> 0]])

Rotate(a, k) ==
    /\ rows[k] # NoKey
    /\ rows[k].ver < MaxVersion
    /\ Write(a, [rows EXCEPT ![k].ver = @ + 1])
    /\ UNCHANGED born

\* Update of a field a request reads.
Update(a, k) ==
    /\ rows[k] # NoKey
    /\ \E on \in BOOLEAN : Write(a, [rows EXCEPT ![k].enabled = on])
    /\ UNCHANGED born

Delete(a, k) ==
    /\ rows[k] # NoKey
    /\ Write(a, [rows EXCEPT ![k] = NoKey])
    /\ UNCHANGED born

Query(a) ==
    /\ phase[a] = "query"
    /\ phase' = [phase EXCEPT ![a] = "copy"]
    /\ load' = [load EXCEPT ![a] = Loaded(rows)]
    /\ todo' = [todo EXCEPT ![a] = {k \in Keys : rows[k] # NoKey}]
    /\ behind' = behind \ {a}
    /\ UNCHANGED <<rows, cache, taken, now, keyFaults, born, uses, outdated, miscounted, unlimited>>

\* The keys of K that have a counter in the cache above zero.
With(K, c) == {k \in K : cache[k] # NoKey /\ cache[k][c] > 0}

\* Two entries of the same hash.
SameSecret(e, f) == e # NoKey /\ f # NoKey /\ e.ver = f.ver

\* Mutant: the counters of the old entry are not taken over.
Copy_Forgets(a, k) ==
    /\ phase[a] = "copy" /\ k \in todo[a]
    /\ todo' = [todo EXCEPT ![a] = @ \ {k}]
    /\ UNCHANGED <<rows, cache, phase, load, taken, now, keyFaults, born, uses, excuses>>

\* The counters an entry of the same hash has; another secret starts at zero.
Copy(a, k) ==
    LET prev == cache[k] next == load[a][k] IN
    /\ phase[a] = "copy" /\ k \in todo[a]
    /\ todo' = [todo EXCEPT ![a] = @ \ {k}]
    /\ IF SameSecret(prev, next)
       THEN /\ load' = [load EXCEPT ![a][k] =
                 [@ EXCEPT !.start = prev.start, !.used = prev.used, !.delta = prev.delta]]
            /\ UNCHANGED <<miscounted, unlimited>>
       ELSE /\ miscounted' = miscounted \cup With({k}, "delta")
            /\ unlimited' = unlimited \cup With({k}, "used")
            /\ UNCHANGED load
    /\ UNCHANGED <<rows, cache, phase, taken, now, keyFaults, born, uses, behind, outdated>>

Done(a) ==
    /\ phase' = [phase EXCEPT ![a] = "done"]
    /\ load' = [load EXCEPT ![a] = [k \in Keys |-> NoKey]]
    /\ todo' = [todo EXCEPT ![a] = {}]

\* Mutant: a reload only adds to the cache.
Swap_Merges(a) ==
    /\ phase[a] = "copy" /\ todo[a] = {}
    /\ cache' = [k \in Keys |-> IF load[a][k] = NoKey THEN cache[k] ELSE load[a][k]]
    /\ outdated' = (a \in behind)
    /\ behind' = behind \ {a}
    /\ Done(a)
    /\ UNCHANGED <<rows, taken, now, keyFaults, born, uses, miscounted, unlimited>>

Swap(a) ==
    /\ phase[a] = "copy" /\ todo[a] = {}
    /\ cache' = load[a]
    /\ outdated' = (a \in behind)
    /\ behind' = behind \ {a}
    /\ Done(a)
    /\ UNCHANGED <<rows, taken, now, keyFaults, born, uses, miscounted, unlimited>>

\* The query or the scan fails, or the caller has gone: the cache stays.
ReloadFails(a) ==
    /\ phase[a] \in {"query", "copy"}
    /\ outdated' = TRUE
    /\ behind' = behind \ {a}
    /\ Done(a)
    /\ UNCHANGED <<rows, cache, taken, now, keyFaults, born, uses, miscounted, unlimited>>

-------------------------------------------------------------------------------
(***************************************************************************)
(* Requests and the flusher.  Both hold the lock while they change an      *)
(* entry, but reload reads the counters of an entry after it has let the   *)
(* lock go: of a change made by then it may see every counter, or some.    *)
(***************************************************************************)

Counters == {"start", "used", "delta"}

\* The reloads that have begun to read the counters of k, or never will.
Copied(k) == {a \in Reading : k \notin todo[a]}

\* k, if its entry changes while a reload has it copied.
Caught(k) == IF Copied(k) = {} THEN {} ELSE {k}

\* cache[k] becomes e while reloads are reading it.
Change(k, e) ==
    /\ cache' = [cache EXCEPT ![k] = e]
    /\ \E seen \in [Copied(k) -> SUBSET Counters] :
          load' = [a \in Admins |->
              IF a \in Copied(k) /\ SameSecret(load[a][k], e)
              THEN [load[a] EXCEPT ![k] = [c \in DOMAIN @ |->
                       IF c \in seen[a] THEN e[c] ELSE @[c]]]
              ELSE load[a]]

Valid(k, v) == cache[k] # NoKey /\ cache[k].ver = v /\ cache[k].enabled

\* The entry with its window begun anew if the old one is over.
Current(e) ==
    IF e.start = 0 \/ now - e.start >= RateWindow THEN [e EXCEPT !.start = now, !.used = 0] ELSE e

\* Mutant: one request too many in a window.
Limited_OffByOne(k) == RateLimit > 0 /\ Current(cache[k]).used > RateLimit

\* Authenticate of a valid key returns without a key, and nothing changes.
Limited(k) == RateLimit > 0 /\ Current(cache[k]).used >= RateLimit

\* The entry of k after one more use.
InWindow(e) == IF RateLimit > 0 THEN [Current(e) EXCEPT !.used = @ + 1] ELSE e
Use(k) == [InWindow(cache[k]) EXCEPT !.delta = @ + 1]

\* Authenticate lets a request through.
Authenticate(k, v) ==
    /\ Valid(k, v) /\ ~Limited(k)
    /\ Change(k, Use(k))
    /\ uses' = [uses EXCEPT ![k] = Append(@, now)]
    /\ miscounted' = miscounted \cup Caught(k)
    /\ unlimited' = unlimited \cup Caught(k)
    /\ UNCHANGED <<rows, phase, todo, taken, now, keyFaults, born, behind, outdated>>

\* flush takes the deltas of all keys under one lock and writes them one by
\* one; keys share nothing in it, so that each key has its own step here.
Take(k) ==
    /\ taken[k] = 0
    /\ cache[k] # NoKey /\ cache[k].delta > 0
    /\ taken' = [taken EXCEPT ![k] = cache[k].delta]
    /\ Change(k, [cache[k] EXCEPT !.delta = 0])
    /\ miscounted' = miscounted \cup Caught(k)
    /\ UNCHANGED <<rows, phase, todo, now, keyFaults, born, uses, behind, outdated, unlimited>>

\* UPDATE ... SET request_count = request_count + n, of a row that may be gone.
Counted(row, n) == IF row = NoKey THEN NoKey ELSE [row EXCEPT !.count = @ + n]

\* Mutant: the delta is subtracted.
FlushRow_Subtracts(k) ==
    /\ taken[k] > 0
    /\ taken' = [taken EXCEPT ![k] = 0]
    /\ rows' = [rows EXCEPT ![k] = Counted(@, -taken[k])]
    /\ UNCHANGED <<cache, adminVars, now, keyFaults, born, uses, excuses>>

\* The UPDATE adds the delta to the row, if the key still has one; a delta
\* whose UPDATE fails is not kept.
FlushRow(k) ==
    /\ taken[k] > 0
    /\ taken' = [taken EXCEPT ![k] = 0]
    /\ \/ /\ rows' = [rows EXCEPT ![k] = Counted(@, taken[k])]
          /\ UNCHANGED <<keyFaults, miscounted>>
       \/ /\ keyFaults < MaxFaults
          /\ keyFaults' = keyFaults + 1
          /\ miscounted' = miscounted \cup {k}
          /\ UNCHANGED rows
    /\ UNCHANGED <<cache, adminVars, now, born, uses, behind, outdated, unlimited>>

\* The process ends, in the middle of the last flush if it is stopped, and
\* starts again with a reload.
KeysExit ==
    /\ keyFaults < MaxFaults
    /\ keyFaults' = keyFaults + 1
    /\ cache' = Loaded(rows)
    /\ phase' = [a \in Admins |-> IF phase[a] = "idle" THEN "idle" ELSE "done"]
    /\ load' = [a \in Admins |-> [k \in Keys |-> NoKey]]
    /\ todo' = [a \in Admins |-> {}]
    /\ taken' = [k \in Keys |-> 0]
    /\ behind' = {}
    /\ outdated' = FALSE
    /\ miscounted' = miscounted \cup {k \in Keys : taken[k] > 0} \cup With(Keys, "delta")
    /\ unlimited' = unlimited \cup With(Keys, "used")
    /\ UNCHANGED <<rows, now, born, uses>>

Tick ==
    /\ now < MaxTime
    /\ now' = now + 1
    /\ UNCHANGED <<rows, cache, adminVars, taken, keyFaults, born, uses, excuses>>

AdminStep(a) ==
    \/ \E k \in Keys : \/ Create(a, k) \/ Rotate(a, k) \/ Update(a, k) \/ Delete(a, k)
                       \/ Copy(a, k)
    \/ Query(a) \/ Swap(a) \/ ReloadFails(a)

FlushStep == \E k \in Keys : Take(k) \/ FlushRow(k)

KeysNext ==
    \/ \E a \in Admins : AdminStep(a)
    \/ \E k \in Keys, v \in 1 .. MaxVersion : Authenticate(k, v)
    \/ FlushStep
    \/ KeysExit \/ Tick

KeysSpec == KeysInit /\ [][KeysNext]_keyVars

-------------------------------------------------------------------------------
Maybe(S) == S \cup {NoKey}

KeysTypeOK ==
    /\ rows \in [Keys -> Maybe(Row)]
    /\ cache \in [Keys -> Maybe(Entry)]
    /\ phase \in [Admins -> {"idle", "query", "copy", "done"}]
    /\ load \in [Admins -> [Keys -> Maybe(Entry)]]
    /\ todo \in [Admins -> SUBSET Keys]
    /\ taken \in [Keys -> Nat]
    /\ now \in 1 .. MaxTime
    /\ keyFaults \in 0 .. MaxFaults
    /\ born \in SUBSET Keys
    /\ uses \in [Keys -> Seq(Nat)]
    /\ behind \in SUBSET Admins
    /\ outdated \in BOOLEAN
    /\ miscounted \in SUBSET Keys
    /\ unlimited \in SUBSET Keys

Delta(table, k) == IF table[k] = NoKey THEN 0 ELSE table[k].delta

(***************************************************************************)
(* The request count of a key is exact: what its row has, what flush is    *)
(* about to add and what the cache holds are the requests let through.     *)
(* Excused are keys used or flushed while a reload had copied them, a      *)
(* secret rotated with uses unflushed, a flush that failed, and an exit    *)
(* with uses unflushed.                                                    *)
(***************************************************************************)
Accounted ==
    \A k \in Keys \ miscounted :
        rows[k] # NoKey => rows[k].count + taken[k] + Delta(cache, k) = Len(uses[k])

\* How many of the uses u came from s to t.
UsedIn(u, s, t) == Cardinality({i \in DOMAIN u : u[i] \in s .. t})

(***************************************************************************)
(* In any span as long as a window, a key is let through less than twice   *)
(* its limit: a fixed window cannot promise less.  Excused are a window    *)
(* forgotten with the secret that is rotated or by an exit, and a key used *)
(* while a reload had copied it.                                           *)
(***************************************************************************)
LimitHeld ==
    RateLimit > 0 =>
        \A k \in Keys \ unlimited : rows[k] # NoKey => \A t \in 1 .. now :
            UsedIn(uses[k], t, t + RateWindow - 1) < 2 * RateLimit

Agrees(row, e) ==
    IF row = NoKey THEN e = NoKey
    ELSE e # NoKey /\ e.ver = row.ver /\ e.enabled = row.enabled

(***************************************************************************)
(* After admin requests have returned, requests are checked against the    *)
(* table as it is: a deleted key, a rotated secret and a disabled key are  *)
(* refused.  Excused are a reload that failed and one that swapped in rows *)
(* it had read before another request changed them; the next reload makes  *)
(* up for both.                                                            *)
(***************************************************************************)
CacheCurrent ==
    (\A a \in Admins : phase[a] \in {"idle", "done"}) /\ ~outdated =>
        \A k \in Keys : Agrees(rows[k], cache[k])

-------------------------------------------------------------------------------
(***************************************************************************)
(* The inductive invariant.                                                *)
(***************************************************************************)

\* Nothing is known of a key before it is created.
UnbornInv ==
    \A k \in Keys \ born :
        /\ rows[k] = NoKey /\ cache[k] = NoKey
        /\ \A a \in Admins : load[a][k] = NoKey
        /\ taken[k] = 0 /\ uses[k] = <<>>

\* A reload has, of a key it has still to copy, an entry without counters, and
\* of one it has copied the delta the cache has.
CopyInv ==
    \A a \in Reading, k \in Keys :
        /\ k \in todo[a] => load[a][k] # NoKey /\ load[a][k].delta = 0
        /\ k \notin todo[a] /\ k \notin miscounted /\ rows[k] # NoKey =>
               Delta(load[a], k) = Delta(cache, k)

\* A reload that read the rows after their last change will agree with them.
LoadInv == \A a \in Reading \ behind : \A k \in Keys : Agrees(rows[k], load[a][k])

\* The cache is current, or will be after a reload that is under way.
Underway == \E a \in Admins : phase[a] = "query" \/ (phase[a] = "copy" /\ a \notin behind)
CacheInv == outdated \/ Underway \/ \A k \in Keys : Agrees(rows[k], cache[k])

\* When the window of k began, and what of it is used.
Begun(table, k) == IF table[k] = NoKey THEN 0 ELSE table[k].start
Spent(table, k) == IF table[k] = NoKey THEN 0 ELSE table[k].used

\* At t, the window that began at s and of which n is used counts each of the
\* uses u since; it began with a use, and less than the limit is near of the
\* window before.  A key without a window was not used.
Window(u, s, n, t) ==
    IF s = 0 THEN n = 0 /\ u = <<>>
    ELSE /\ s \in 1 .. t /\ \A i \in DOMAIN u : u[i] < s + RateWindow
         /\ UsedIn(u, s, t) = n /\ n <= RateLimit
         /\ UsedIn(u, s, s) > 0
         /\ \A x \in 1 .. s : x > s - RateWindow => UsedIn(u, x, s - 1) < RateLimit

WindowInv ==
    /\ \A k \in Keys : \A i \in DOMAIN uses[k] : uses[k][i] \in 1 .. now
    /\ \A a \in Reading, k \in Keys : k \in todo[a] => Begun(load[a], k) = 0 /\ Spent(load[a], k) = 0
    /\ RateLimit > 0 => \A k \in Keys \ unlimited : rows[k] # NoKey =>
          /\ Window(uses[k], Begun(cache, k), Spent(cache, k), now)
          /\ \A a \in Reading : k \notin todo[a] =>
                Begun(load[a], k) = Begun(cache, k) /\ Spent(load[a], k) = Spent(cache, k)
    /\ LimitHeld

KeysInv == KeysTypeOK /\ UnbornInv /\ CopyInv /\ LoadInv /\ CacheInv /\ Accounted
===============================================================================
