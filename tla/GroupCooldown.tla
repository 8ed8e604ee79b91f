---------------------------- MODULE GroupCooldown ----------------------------
(***************************************************************************)
(* When a session may create a group: checkGroupCooldown of                *)
(* internal/gateway/group.go, the times it compares and how they get into  *)
(* the row of the session and back (manager.go, session.go).  One session  *)
(* name; a Session object is replaced when the process restarts and when   *)
(* WhatsApp removes the device.  Groups are created by the requests of     *)
(* GroupOps.                                                               *)
(*                                                                         *)
(* Time is counted in units of the configured hours.  A database call ends *)
(* within the unit it began in.  0 stands for a time that is not set.      *)
(***************************************************************************)
EXTENDS Integers

CONSTANTS
    Objects,    \* Session objects
    NoObject,
    Quiet,      \* GROUP_QUIET_HOURS
    Cooldown,   \* GROUP_CREATE_COOLDOWN_HOURS
    MaxTime,    \* bound: time
    MaxExits,   \* bound: process exits
    MaxFaults   \* bound: failed database calls

ASSUME CooldownAssumption ==
    /\ NoObject \notin Objects
    /\ Quiet \in Nat /\ Cooldown \in Nat
    /\ MaxTime \in Nat /\ MaxExits \in Nat /\ MaxFaults \in Nat

VARIABLES
    now,
    cur,              \* the object in m.sessions, NoObject when the process is down
    pairedAt,         \* of an object
    lastGroupCreate,  \* of an object
    loggedIn,         \* objects whose client is logged in
    replacing,        \* the current object is about to be replaced by restartPairing
    handler,          \* the PairSuccess handler of an object: "none", "bind", "note"
    row,              \* paired_at and last_group_at
    writes,           \* recordGroupCreated in progress: the object and the time
    linked,           \* the phone lists the device
    exits, faults,
    \* history
    groups,           \* groups asked of WhatsApp so far
    madeAt,           \* when the last one was
    joinedAt,         \* when the session was last paired
    known,            \* which of "pair" and "group" the current object was told of
    saved             \* which of them the row was

objectVars == <<cur, pairedAt, lastGroupCreate, loggedIn, replacing, handler>>
history == <<groups, madeAt, joinedAt, known, saved>>
cooldownVars == <<now, objectVars, row, writes, linked, exits, faults, history>>

Zero == [o \in Objects |-> 0]

CooldownInit ==
    /\ now = 1
    /\ cur = NoObject
    /\ pairedAt = Zero /\ lastGroupCreate = Zero
    /\ loggedIn = {}
    /\ replacing = FALSE
    /\ handler = [o \in Objects |-> "none"]
    /\ row = [paired_at |-> 0, last_group_at |-> 0]
    /\ writes = {}
    /\ linked = FALSE
    /\ exits = 0 /\ faults = 0
    /\ groups = 0 /\ madeAt = 0 /\ joinedAt = 0
    /\ known = {} /\ saved = {}

-------------------------------------------------------------------------------
\* A failed call to the database is logged and forgotten.
DbCall(ok) ==
    /\ faults' = IF ok THEN faults ELSE faults + 1
    /\ faults' <= MaxFaults

\* Mutant: the quiet period replaces the cooldown when both are configured.
mayCreate_Quiet(o) ==
    IF Quiet > 0
    THEN pairedAt[o] = 0 \/ now - pairedAt[o] >= Quiet
    ELSE lastGroupCreate[o] = 0 \/ now - lastGroupCreate[o] >= Cooldown

mayCreate(o) ==
    /\ Quiet = 0 \/ pairedAt[o] = 0 \/ now - pairedAt[o] >= Quiet
    /\ Cooldown = 0 \/ lastGroupCreate[o] = 0 \/ now - lastGroupCreate[o] >= Cooldown

\* checkGroupCooldown, under the lock of the object.  The group is asked of
\* WhatsApp next, if the client is still logged in.
checkGroupCooldown(o) ==
    /\ mayCreate(o)
    /\ lastGroupCreate' = [lastGroupCreate EXCEPT ![o] = now]
    /\ writes' = writes \cup {<<o, now>>}
    /\ IF o \in loggedIn
       THEN /\ groups' = groups + 1
            /\ madeAt' = now
            /\ known' = known \cup {"group"}
            /\ saved' = saved \ {"group"}
       ELSE UNCHANGED <<groups, madeAt, known, saved>>
    /\ UNCHANGED <<now, cur, pairedAt, loggedIn, replacing, handler, row, linked,
                   exits, faults, joinedAt>>

recordGroupCreated(w) ==
    /\ w \in writes
    /\ writes' = writes \ {w}
    /\ \E ok \in BOOLEAN :
        /\ DbCall(ok)
        /\ row' = IF ok THEN [row EXCEPT !.last_group_at = w[2]] ELSE row
        /\ saved' = IF ok /\ w[2] = madeAt THEN saved \cup {"group"} ELSE saved
    /\ UNCHANGED <<now, objectVars, linked, exits, groups, madeAt, joinedAt, known>>

-------------------------------------------------------------------------------
\* The code is scanned: whatsmeow has the device and connects with it, while
\* its PairSuccess handler runs.  The object may be about to be replaced.
Pair ==
    /\ cur # NoObject
    /\ cur \notin loggedIn
    /\ ~linked
    /\ handler[cur] = "none"
    /\ linked' = TRUE
    /\ loggedIn' = loggedIn \cup {cur}
    /\ handler' = [handler EXCEPT ![cur] = "bind"]
    /\ joinedAt' = now
    /\ known' = known \ {"pair"}
    /\ saved' = saved \ {"pair"}
    /\ UNCHANGED <<now, cur, pairedAt, lastGroupCreate, replacing, row, writes,
                   exits, faults, groups, madeAt>>

\* The handler writes the row before it takes the lock.
bindJID(o) ==
    /\ handler[o] = "bind"
    /\ handler' = [handler EXCEPT ![o] = "note"]
    /\ \E ok \in BOOLEAN :
        /\ DbCall(ok)
        /\ row' = IF ok THEN [row EXCEPT !.paired_at = now] ELSE row
        /\ saved' = IF ok THEN saved \cup {"pair"} ELSE saved
    /\ UNCHANGED <<now, cur, pairedAt, lastGroupCreate, loggedIn, replacing, writes,
                   linked, exits, groups, madeAt, joinedAt, known>>

PairNoted(o) ==
    /\ handler[o] = "note"
    /\ handler' = [handler EXCEPT ![o] = "none"]
    /\ pairedAt' = [pairedAt EXCEPT ![o] = now]
    /\ known' = IF o = cur THEN known \cup {"pair"} ELSE known
    /\ UNCHANGED <<now, cur, lastGroupCreate, loggedIn, replacing, row, writes, linked,
                   exits, faults, groups, madeAt, joinedAt, saved>>

\* POST /logout: the object stays.
Logout ==
    /\ cur \in loggedIn
    /\ loggedIn' = loggedIn \ {cur}
    /\ linked' = FALSE
    /\ UNCHANGED <<now, cur, pairedAt, lastGroupCreate, replacing, handler, row, writes,
                   exits, faults, history>>

\* WhatsApp removed the device; the event starts restartPairing.
LoggedOut ==
    /\ cur \in loggedIn
    /\ loggedIn' = loggedIn \ {cur}
    /\ linked' = FALSE
    /\ replacing' = TRUE
    /\ UNCHANGED <<now, cur, pairedAt, lastGroupCreate, handler, row, writes,
                   exits, faults, history>>

\* The new object is told nothing of the old one's times; the row keeps them.
\* It is not one that a request or a handler still holds.  The old client is
\* stopped, and its device lost if it was paired again meanwhile.
restartPairing(o) ==
    /\ replacing
    /\ o # cur /\ handler[o] = "none"
    /\ cur' = o
    /\ replacing' = FALSE
    /\ pairedAt' = [pairedAt EXCEPT ![o] = 0]
    /\ lastGroupCreate' = [lastGroupCreate EXCEPT ![o] = 0]
    /\ loggedIn' = loggedIn \ {cur}
    /\ linked' = FALSE
    /\ known' = {}
    /\ UNCHANGED <<now, handler, row, writes, exits, faults,
                   groups, madeAt, joinedAt, saved>>

-------------------------------------------------------------------------------
\* Mutant: the cooldown is left out of what a start restores.
Start_NoCooldown(o) ==
    /\ cur = NoObject
    /\ cur' = o
    /\ pairedAt' = [Zero EXCEPT ![o] = row.paired_at]
    /\ lastGroupCreate' = Zero
    /\ known' = saved
    /\ \E found \in BOOLEAN :
        /\ linked' = (linked /\ found)
        /\ loggedIn' = IF linked /\ found THEN {o} ELSE {}
    /\ UNCHANGED <<now, replacing, handler, row, writes, exits, faults,
                   groups, madeAt, joinedAt, saved>>

\* The times are restored from the row.  A session whose device is not found by
\* the jid of the row is paired again.
Start(o) ==
    /\ cur = NoObject
    /\ cur' = o
    /\ pairedAt' = [Zero EXCEPT ![o] = row.paired_at]
    /\ lastGroupCreate' = [Zero EXCEPT ![o] = row.last_group_at]
    /\ known' = saved
    /\ \E found \in BOOLEAN :
        /\ linked' = (linked /\ found)
        /\ loggedIn' = IF linked /\ found THEN {o} ELSE {}
    /\ UNCHANGED <<now, replacing, handler, row, writes, exits, faults,
                   groups, madeAt, joinedAt, saved>>

\* A crash or a stop: writes and handlers in progress are lost.
Exit ==
    /\ cur # NoObject
    /\ exits < MaxExits
    /\ exits' = exits + 1
    /\ cur' = NoObject
    /\ pairedAt' = Zero /\ lastGroupCreate' = Zero
    /\ loggedIn' = {}
    /\ replacing' = FALSE
    /\ handler' = [o \in Objects |-> "none"]
    /\ writes' = {}
    /\ known' = {}
    /\ UNCHANGED <<now, row, linked, faults, groups, madeAt, joinedAt, saved>>

Tick ==
    /\ now < MaxTime
    /\ writes = {}
    /\ \A o \in Objects : handler[o] = "none"
    /\ now' = now + 1
    /\ UNCHANGED <<objectVars, row, writes, linked, exits, faults, history>>

-------------------------------------------------------------------------------
CooldownTypeOK ==
    /\ now \in Nat \ {0}
    /\ cur \in Objects \cup {NoObject}
    /\ pairedAt \in [Objects -> Nat] /\ lastGroupCreate \in [Objects -> Nat]
    /\ loggedIn \subseteq Objects
    /\ replacing \in BOOLEAN
    /\ handler \in [Objects -> {"none", "bind", "note"}]
    /\ row \in [paired_at : Nat, last_group_at : Nat]
    /\ writes \subseteq Objects \X Nat
    /\ linked \in BOOLEAN
    /\ exits \in 0 .. MaxExits /\ faults \in 0 .. MaxFaults
    /\ groups \in Nat /\ madeAt \in Nat /\ joinedAt \in Nat
    /\ known \subseteq {"pair", "group"} /\ saved \subseteq {"pair", "group"}

CooldownNext ==
    \/ \E o \in Objects : checkGroupCooldown(o)
    \/ \E w \in writes : recordGroupCreated(w)
    \/ Pair \/ Logout \/ LoggedOut \/ Exit \/ Tick
    \/ \E o \in Objects : bindJID(o) \/ PairNoted(o) \/ restartPairing(o) \/ Start(o)

CooldownSpec == CooldownInit /\ [][CooldownNext]_cooldownVars

(***************************************************************************)
(* A session asks for a group no sooner than the cooldown after the last   *)
(* one and the quiet period after its pairing, across restarts and         *)
(* pairings, whatever the order of the writes.  Excused are times the      *)
(* object in use was never told: those of the object restartPairing        *)
(* replaced, those lost in a failed write or an exit before it, and a      *)
(* pairing whose handler still runs.                                       *)
(***************************************************************************)
Paced ==
    [][groups' # groups =>
        /\ groups = 0 \/ now - madeAt >= Cooldown \/ "group" \notin known
        /\ joinedAt = 0 \/ now - joinedAt >= Quiet \/ "pair" \notin known]_cooldownVars

-------------------------------------------------------------------------------
(***************************************************************************)
(* The inductive invariant behind Paced.                                   *)
(***************************************************************************)

\* Only the client of the object in the map can be logged in.
CurrentOnly == loggedIn \subseteq {cur}

\* Handlers and writes end within the unit of time they began in.
Punctual ==
    /\ madeAt <= now /\ joinedAt <= now
    /\ \A w \in writes : w[2] = now
    /\ \A o \in Objects : handler[o] # "none" => joinedAt = now

\* What was told is remembered, and nothing earlier in its place.
Remembered ==
    /\ "pair" \in known => cur # NoObject /\ pairedAt[cur] = joinedAt
    /\ "pair" \in saved => row.paired_at = joinedAt
    /\ "group" \in known => cur # NoObject /\ lastGroupCreate[cur] >= madeAt
    /\ "group" \in saved => row.last_group_at >= madeAt
    /\ groups > 0 => madeAt > 0

CooldownInv == CooldownTypeOK /\ CurrentOnly /\ Punctual /\ Remembered
===============================================================================
