---------------------------- MODULE SessionManager ----------------------------
(***************************************************************************)
(* The session manager of internal/gateway/manager.go and the pairing life *)
(* cycle of internal/gateway/session.go: a session exists as an entry of   *)
(* the map, a client that is or is not connected, a row of gw_sessions and *)
(* a device in the credential store.  HTTP requests, the event handlers of *)
(* the clients and the goroutines restarting a pairing change them in      *)
(* steps that interleave.                                                  *)
(*                                                                         *)
(* A session object and its client are one, here called a client.  A       *)
(* device is known by the JID WhatsApp gave it when it was paired; every   *)
(* pairing gets a new one.                                                 *)
(***************************************************************************)
EXTENDS Integers, FiniteSets

CONSTANTS
    Names,       \* session names
    Default,     \* the session made when there is none
    Requests,    \* HTTP requests in progress at a time
    Clients,     \* session objects
    Jids,        \* device identities
    NoClient, NoName, NoJid, NoRow,
    MaxExits,    \* bound: process exits (crashes and stops)
    MaxFaults    \* bound: failed database calls

ASSUME ManagerAssumption ==
    /\ Default \in Names
    /\ NoClient \notin Clients
    /\ NoName \notin Names
    /\ NoJid \notin Jids
    /\ NoRow \notin Jids \cup {NoJid}
    /\ MaxExits \in Nat
    /\ MaxFaults \in Nat

VARIABLES
    proc,      \* "up" or "down"
    sessions,  \* m.sessions
    name,      \* the name a client was made for, NoName when not made yet
    id,        \* wa.Store.ID of a client
    online,    \* clients told to be connected
    rows,      \* gw_sessions: the jid column, NoRow when there is no row
    devices,   \* devices in the credential store
    rpc,       \* where a request is
    rname,     \* the name it is for
    rclient,   \* the client it holds
    bind,      \* the JID a client's PairSuccess handler is about to write
    lpc,       \* where the restartPairing of a logged-out client is
    lnew,      \* the client that replaces it
    \* bookkeeping of the environment
    exits, faults,
    \* history
    overtaken, \* clients connected after another request took them off the map
    loose,     \* devices whose row was lost to a fault, an exit or an overlap
    left       \* devices WhatsApp still lists, of sessions removed with success

clientVars  == <<name, id, online>>
storeVars   == <<rows, devices>>
requestVars == <<rpc, rname, rclient>>
restartVars == <<lpc, lnew>>
history     == <<overtaken, loose, left>>
vars == <<proc, sessions, clientVars, storeVars, requestVars, bind, restartVars,
          exits, faults, history>>

Init ==
    /\ proc = "down"
    /\ sessions = [n \in Names |-> NoClient]
    /\ name = [c \in Clients |-> NoName]
    /\ id = [c \in Clients |-> NoJid]
    /\ online = {}
    /\ rows = [n \in Names |-> NoRow]
    /\ devices = {}
    /\ rpc = [r \in Requests |-> "idle"]
    /\ rname = [r \in Requests |-> NoName]
    /\ rclient = [r \in Requests |-> NoClient]
    /\ bind = [c \in Clients |-> NoJid]
    /\ lpc = [c \in Clients |-> "none"]
    /\ lnew = [c \in Clients |-> NoClient]
    /\ exits = 0 /\ faults = 0
    /\ overtaken = {} /\ loose = {} /\ left = {}

\* Nothing refers to the client any more; its memory is used again.
Fresh(c) ==
    /\ c \notin online
    /\ bind[c] = NoJid /\ lpc[c] = "none"
    /\ \A n \in Names : sessions[n] # c
    /\ \A r \in Requests : rclient[r] # c
    /\ \A d \in Clients : lnew[d] # c

\* newSession, with a new device.
New(c, n) ==
    /\ Fresh(c)
    /\ name' = [name EXCEPT ![c] = n]
    /\ id' = [id EXCEPT ![c] = NoJid]
    /\ overtaken' = overtaken \ {c}
    /\ sessions' = [sessions EXCEPT ![n] = c]

\* A request is answered.
Answer(r) ==
    /\ rpc' = [rpc EXCEPT ![r] = "idle"]
    /\ rname' = [rname EXCEPT ![r] = NoName]
    /\ rclient' = [rclient EXCEPT ![r] = NoClient]

\* A database call that reports an error.
DbCall(ok) ==
    /\ faults' = IF ok THEN faults ELSE faults + 1
    /\ faults' <= MaxFaults

\* start: the client connects or fails to.  The session it was made for may
\* have been removed meanwhile.
Connect(c) ==
    \/ /\ online' = online \cup {c}
       /\ overtaken' = IF sessions[name[c]] = c THEN overtaken ELSE overtaken \cup {c}
    \/ UNCHANGED <<online, overtaken>>

\* The device of a client is deleted from the store, WhatsApp having unlinked it.
Unlink(c) ==
    /\ devices' = devices \ {id[c]}
    /\ id' = [id EXCEPT ![c] = NoJid]
    /\ online' = online \ {c}

-------------------------------------------------------------------------------
(***************************************************************************)
(* Create.                                                                 *)
(***************************************************************************)

\* A name found in the map is refused at once.
CreateCheck(r, n) ==
    /\ proc = "up"
    /\ rpc[r] = "idle"
    /\ sessions[n] = NoClient
    /\ rpc' = [rpc EXCEPT ![r] = "insert"]
    /\ rname' = [rname EXCEPT ![r] = n]
    /\ UNCHANGED <<proc, sessions, clientVars, storeVars, rclient, bind, restartVars,
                   exits, faults, history>>

\* Mutant: a row that exists already is taken over.
CreateInsert_Upsert(r) ==
    /\ rpc[r] = "insert"
    /\ rows' = [rows EXCEPT ![rname[r]] = NoJid]
    /\ rpc' = [rpc EXCEPT ![r] = "register"]
    /\ UNCHANGED <<proc, sessions, clientVars, devices, rname, rclient, bind,
                   restartVars, exits, faults, history>>

\* The primary key refuses a second row.  A call that times out may have been
\* carried out all the same.
CreateInsert(r) ==
    /\ rpc[r] = "insert"
    /\ \E ok, applied \in BOOLEAN :
        /\ IF rows[rname[r]] = NoRow
           THEN DbCall(ok) /\ (ok => applied)
           ELSE ~ok /\ ~applied /\ UNCHANGED faults
        /\ rows' = IF applied THEN [rows EXCEPT ![rname[r]] = NoJid] ELSE rows
        /\ IF ok
           THEN rpc' = [rpc EXCEPT ![r] = "register"] /\ UNCHANGED <<rname, rclient>>
           ELSE Answer(r)
    /\ UNCHANGED <<proc, sessions, clientVars, devices, bind, restartVars,
                   exits, history>>

CreateRegister(r) ==
    /\ rpc[r] = "register"
    /\ \E c \in Clients :
        /\ New(c, rname[r])
        /\ rclient' = [rclient EXCEPT ![r] = c]
    /\ rpc' = [rpc EXCEPT ![r] = "connect"]
    /\ UNCHANGED <<proc, online, storeVars, rname, bind, restartVars,
                   exits, faults, loose, left>>

CreateConnect(r) ==
    /\ rpc[r] = "connect"
    /\ Connect(rclient[r])
    /\ Answer(r)
    /\ UNCHANGED <<proc, sessions, name, id, storeVars, bind, restartVars,
                   exits, faults, loose, left>>

-------------------------------------------------------------------------------
(***************************************************************************)
(* Remove.  The messages it deletes last are not part of this module.      *)
(***************************************************************************)

RemoveBegin(r, n) ==
    /\ proc = "up"
    /\ rpc[r] = "idle"
    /\ sessions[n] # NoClient
    /\ rpc' = [rpc EXCEPT ![r] = "disconnect"]
    /\ rname' = [rname EXCEPT ![r] = n]
    /\ rclient' = [rclient EXCEPT ![r] = sessions[n]]
    /\ sessions' = [sessions EXCEPT ![n] = NoClient]
    /\ UNCHANGED <<proc, clientVars, storeVars, bind, restartVars, exits, faults, history>>

\* Mutant: a client without a device is not disconnected.
RemoveDisconnect_IfPaired(r) ==
    /\ rpc[r] = "disconnect"
    /\ online' = IF id[rclient[r]] = NoJid THEN online ELSE online \ {rclient[r]}
    /\ rpc' = [rpc EXCEPT ![r] = "logout"]
    /\ UNCHANGED <<proc, sessions, name, id, storeVars, rname, rclient, bind, restartVars,
                   exits, faults, history>>

RemoveDisconnect(r) ==
    /\ rpc[r] = "disconnect"
    /\ online' = online \ {rclient[r]}
    /\ rpc' = [rpc EXCEPT ![r] = "logout"]
    /\ UNCHANGED <<proc, sessions, name, id, storeVars, rname, rclient, bind, restartVars,
                   exits, faults, history>>

\* Mutant: a failed logout is logged and nothing more.
RemoveLogout_Ignored(r) ==
    LET c == rclient[r] IN
    /\ rpc[r] = "logout"
    /\ \/ id[c] # NoJid /\ c \in online /\ Unlink(c)
       \/ UNCHANGED <<id, online, devices>>
    /\ rpc' = [rpc EXCEPT ![r] = "delete"]
    /\ UNCHANGED <<proc, sessions, name, rows, rname, rclient, bind, restartVars,
                   exits, faults, history>>

\* Logout is a request to WhatsApp: it needs a connection, and may fail with
\* one.  DeleteDevice then forgets the device on this side; its error is ignored.
RemoveLogout(r) ==
    LET c == rclient[r] IN
    /\ rpc[r] = "logout"
    /\ \/ /\ id[c] = NoJid
          /\ UNCHANGED <<id, online, devices, loose, faults>>
       \/ /\ id[c] # NoJid /\ c \in online
          /\ Unlink(c)
          /\ UNCHANGED <<loose, faults>>
       \/ /\ id[c] # NoJid
          /\ \E ok \in BOOLEAN :
              /\ DbCall(ok)
              /\ devices' = IF ok THEN devices \ {id[c]} ELSE devices
              /\ loose' = IF ok THEN loose ELSE loose \cup {id[c]}
          /\ UNCHANGED <<id, online>>
    /\ rpc' = [rpc EXCEPT ![r] = "delete"]
    /\ UNCHANGED <<proc, sessions, name, rows, rname, rclient, bind, restartVars,
                   exits, overtaken, left>>

\* A failed DELETE is answered with an error, the map entry is gone already.
RemoveRow(r) ==
    /\ rpc[r] = "delete"
    /\ \E ok, applied \in BOOLEAN :
        /\ DbCall(ok)
        /\ ok => applied
        /\ rows' = IF applied THEN [rows EXCEPT ![rname[r]] = NoRow] ELSE rows
        /\ left' = IF ok THEN (left \cup {id[rclient[r]]}) \ {NoJid} ELSE left
    /\ Answer(r)
    /\ UNCHANGED <<proc, sessions, clientVars, devices, bind,
                   restartVars, exits, overtaken, loose>>

-------------------------------------------------------------------------------
(***************************************************************************)
(* The other requests that change a client: POST /pair and POST /logout.   *)
(***************************************************************************)

\* The session is taken from the map and used afterwards.
PairGet(r, n) ==
    /\ proc = "up"
    /\ rpc[r] = "idle"
    /\ sessions[n] # NoClient
    /\ rpc' = [rpc EXCEPT ![r] = "pair"]
    /\ rname' = [rname EXCEPT ![r] = n]
    /\ rclient' = [rclient EXCEPT ![r] = sessions[n]]
    /\ UNCHANGED <<proc, sessions, clientVars, storeVars, bind, restartVars,
                   exits, faults, history>>

\* A client that is not connected is, whatever became of its session.  The code
\* is then entered on the phone, which is Pair.
PairPhone(r) ==
    /\ rpc[r] = "pair"
    /\ IF rclient[r] \notin online
       THEN Connect(rclient[r])
       ELSE UNCHANGED <<online, overtaken>>
    /\ Answer(r)
    /\ UNCHANGED <<proc, sessions, name, id, storeVars, bind, restartVars,
                   exits, faults, loose, left>>

\* The request may have taken the session from the map at any time before.  No
\* event follows, the row keeps its jid.
Logout(c) ==
    /\ c \in online
    /\ id[c] # NoJid
    /\ Unlink(c)
    /\ UNCHANGED <<proc, sessions, name, rows, requestVars, bind, restartVars,
                   exits, faults, history>>

-------------------------------------------------------------------------------
(***************************************************************************)
(* Events of a client.                                                     *)
(***************************************************************************)

\* The phone scans the QR code or accepts the pairing code: whatsmeow saves
\* the device and calls the handler.
Pair(c) ==
    /\ c \in online
    /\ id[c] = NoJid
    /\ bind[c] = NoJid
    /\ \E j \in Jids \ (devices \cup loose) :
        /\ \A n \in Names : rows[n] # j
        /\ \A d \in Clients : bind[d] # j /\ id[d] # j
        /\ id' = [id EXCEPT ![c] = j]
        /\ devices' = devices \cup {j}
        /\ bind' = [bind EXCEPT ![c] = j]
        /\ loose' = IF sessions[name[c]] = c THEN loose ELSE loose \cup {j}
    /\ UNCHANGED <<proc, sessions, name, online, rows, requestVars, restartVars,
                   exits, faults, overtaken, left>>

\* Devices a write of jid to the row of n takes out of it although they exist.
Overwritten(n, jid) == ({rows[n]} \cap devices) \ {jid}

\* Mutant: the binding of an earlier pairing is kept.
bindJID_Once(c) ==
    LET n == name[c] IN
    /\ bind[c] # NoJid
    /\ rows' = IF rows[n] = NoJid THEN [rows EXCEPT ![n] = bind[c]] ELSE rows
    /\ bind' = [bind EXCEPT ![c] = NoJid]
    /\ UNCHANGED <<proc, sessions, clientVars, devices, requestVars, restartVars,
                   exits, faults, history>>

\* The row is found by name: it may be that of a later session.
bindJID(c) ==
    LET n == name[c] IN
    /\ bind[c] # NoJid
    /\ \E ok \in BOOLEAN :
        /\ DbCall(ok)
        /\ rows' = IF ok /\ rows[n] # NoRow THEN [rows EXCEPT ![n] = bind[c]] ELSE rows
        /\ loose' = loose \cup (IF ~ok THEN {bind[c]}
                                ELSE IF rows[n] = NoRow THEN {} ELSE Overwritten(n, bind[c]))
    /\ bind' = [bind EXCEPT ![c] = NoJid]
    /\ UNCHANGED <<proc, sessions, clientVars, devices, requestVars, restartVars,
                   exits, overtaken, left>>

\* WhatsApp removed the device: whatsmeow deletes it, closes the connection and
\* calls the handler, which starts restartPairing.
LoggedOut(c) ==
    /\ c \in online
    /\ id[c] # NoJid
    /\ lpc[c] = "none"
    /\ Unlink(c)
    /\ lpc' = [lpc EXCEPT ![c] = "check"]
    /\ UNCHANGED <<proc, sessions, name, rows, requestVars, bind, lnew, exits, faults, history>>

-------------------------------------------------------------------------------
(***************************************************************************)
(* restartPairing.                                                         *)
(***************************************************************************)

\* Mutant: the map is not asked whether it still holds the old session.
RestartSwap_Unasked(c) ==
    /\ lpc[c] = "check"
    /\ \E d \in Clients :
          /\ New(d, name[c])
          /\ lpc' = [lpc EXCEPT ![c] = "stop"]
          /\ lnew' = [lnew EXCEPT ![c] = d]
    /\ UNCHANGED <<proc, online, storeVars, requestVars, bind, exits, faults, loose, left>>

\* A client logged out and paired again, by a code, before the restart comes to
\* it is replaced all the same.
RestartSwap(c) ==
    /\ lpc[c] = "check"
    /\ IF sessions[name[c]] = c
       THEN \E d \in Clients :
              /\ New(d, name[c])
              /\ lpc' = [lpc EXCEPT ![c] = "stop"]
              /\ lnew' = [lnew EXCEPT ![c] = d]
              /\ loose' = (loose \cup {id[c]}) \ {NoJid}
       ELSE /\ lpc' = [lpc EXCEPT ![c] = "none"]
            /\ UNCHANGED <<name, id, overtaken, sessions, lnew, loose>>
    /\ UNCHANGED <<proc, online, storeVars, requestVars, bind, exits, faults, left>>

RestartStop(c) ==
    /\ lpc[c] = "stop"
    /\ online' = online \ {c}
    /\ lpc' = [lpc EXCEPT ![c] = "reset"]
    /\ UNCHANGED <<proc, sessions, name, id, storeVars, requestVars, bind, lnew,
                   exits, faults, history>>

\* The row is again found by name.
RestartReset(c) ==
    LET n == name[c] IN
    /\ lpc[c] = "reset"
    /\ \E ok \in BOOLEAN :
        /\ DbCall(ok)
        /\ rows' = IF ok /\ rows[n] # NoRow THEN [rows EXCEPT ![n] = NoJid] ELSE rows
        /\ loose' = IF ok THEN loose \cup Overwritten(n, NoJid) ELSE loose
    /\ lpc' = [lpc EXCEPT ![c] = "connect"]
    /\ UNCHANGED <<proc, sessions, clientVars, devices, requestVars, bind, lnew,
                   exits, overtaken, left>>

RestartConnect(c) ==
    /\ lpc[c] = "connect"
    /\ Connect(lnew[c])
    /\ lpc' = [lpc EXCEPT ![c] = "none"]
    /\ lnew' = [lnew EXCEPT ![c] = NoClient]
    /\ UNCHANGED <<proc, sessions, name, id, storeVars, requestVars, bind,
                   exits, faults, loose, left>>

-------------------------------------------------------------------------------
(***************************************************************************)
(* The process.  Requests come after Start is through, and sessions with   *)
(* different names do not meet in it: it is one step.                      *)
(***************************************************************************)

Known == {n \in Names : rows[n] # NoRow}

findDevice(jid) == IF jid \in devices THEN jid ELSE NoJid

\* One client per row, which connects or fails to; for the default session, made
\* when there is no row, a failure ends the process.
Start ==
    LET made == IF Known = {} THEN {Default} ELSE Known IN
    /\ proc = "down"
    /\ proc' = "up"
    /\ rows' = IF Known = {} THEN [rows EXCEPT ![Default] = NoJid] ELSE rows
    /\ \E of \in [made -> Clients], up \in SUBSET made :
        /\ \A m, n \in made : of[m] = of[n] => m = n
        /\ Known = {} => up = made
        /\ sessions' = [n \in Names |-> IF n \in made THEN of[n] ELSE NoClient]
        /\ name' = [c \in Clients |-> IF \E n \in made : of[n] = c
                                      THEN CHOOSE n \in made : of[n] = c ELSE NoName]
        /\ id' = [c \in Clients |-> IF \E n \in made : of[n] = c
                                    THEN findDevice(rows[CHOOSE n \in made : of[n] = c])
                                    ELSE NoJid]
        /\ online' = {of[n] : n \in up}
    /\ UNCHANGED <<devices, requestVars, bind, restartVars, exits, faults, history>>

\* The row of the default session outlives the failure.
StartFails ==
    /\ proc = "down"
    /\ Known = {}
    /\ rows' = [rows EXCEPT ![Default] = NoJid]
    /\ UNCHANGED <<proc, sessions, clientVars, devices, requestVars, bind, restartVars,
                   exits, faults, history>>

\* A crash, or Manager.Stop and the end of the process: Stop disconnects the
\* clients and writes nothing.
Exit ==
    /\ proc = "up"
    /\ exits < MaxExits
    /\ exits' = exits + 1
    /\ proc' = "down"
    /\ sessions' = [n \in Names |-> NoClient]
    /\ name' = [c \in Clients |-> NoName]
    /\ id' = [c \in Clients |-> NoJid]
    /\ online' = {}
    /\ rpc' = [r \in Requests |-> "idle"]
    /\ rname' = [r \in Requests |-> NoName]
    /\ rclient' = [r \in Requests |-> NoClient]
    /\ bind' = [c \in Clients |-> NoJid]
    /\ lpc' = [c \in Clients |-> "none"]
    /\ lnew' = [c \in Clients |-> NoClient]
    /\ overtaken' = {}
    /\ loose' = loose \cup ({bind[c] : c \in Clients} \ {NoJid})
    /\ UNCHANGED <<storeVars, faults, left>>

Next ==
    \/ \E r \in Requests, n \in Names :
        CreateCheck(r, n) \/ RemoveBegin(r, n) \/ PairGet(r, n)
    \/ \E r \in Requests :
        \/ CreateInsert(r) \/ CreateRegister(r) \/ CreateConnect(r)
        \/ RemoveDisconnect(r) \/ RemoveLogout(r) \/ RemoveRow(r)
        \/ PairPhone(r)
    \/ \E c \in Clients :
        \/ Logout(c) \/ Pair(c) \/ bindJID(c) \/ LoggedOut(c)
        \/ RestartSwap(c) \/ RestartStop(c) \/ RestartReset(c) \/ RestartConnect(c)
    \/ Start \/ StartFails \/ Exit

Spec == Init /\ [][Next]_vars

-------------------------------------------------------------------------------
TypeOK ==
    /\ proc \in {"up", "down"}
    /\ sessions \in [Names -> Clients \cup {NoClient}]
    /\ name \in [Clients -> Names \cup {NoName}]
    /\ id \in [Clients -> Jids \cup {NoJid}]
    /\ online \in SUBSET Clients
    /\ rows \in [Names -> Jids \cup {NoJid, NoRow}]
    /\ devices \in SUBSET Jids
    /\ rpc \in [Requests -> {"idle", "insert", "register", "connect", "disconnect",
                             "logout", "delete", "pair"}]
    /\ rname \in [Requests -> Names \cup {NoName}]
    /\ rclient \in [Requests -> Clients \cup {NoClient}]
    /\ bind \in [Clients -> Jids \cup {NoJid}]
    /\ lpc \in [Clients -> {"none", "check", "stop", "reset", "connect"}]
    /\ lnew \in [Clients -> Clients \cup {NoClient}]
    /\ exits \in Nat
    /\ faults \in Nat
    /\ overtaken \in SUBSET Clients
    /\ loose \in SUBSET Jids
    /\ left \in SUBSET Jids

\* A request between claiming a name and giving it up: Create has the row and
\* not yet the entry, Remove no longer the entry and still the row.
Holds(r, n) == rname[r] = n /\ rpc[r] \in {"register", "disconnect", "logout", "delete"}

(***************************************************************************)
(* A name is in one hand: the map's, or one request's that is creating or  *)
(* removing it, and then it has a row.  Create and Remove drop the lock in *)
(* between; the order of their steps and the primary key must do it.       *)
(***************************************************************************)
NameExclusive ==
    \A n \in Names :
        /\ sessions[n] # NoClient => rows[n] # NoRow /\ \A r \in Requests : ~Holds(r, n)
        /\ \A r \in Requests : Holds(r, n) =>
              rows[n] # NoRow /\ \A q \in Requests \ {r} : ~Holds(q, n)

(***************************************************************************)
(* A session in the map is replaced only because it was logged out: Create *)
(* writes its entry without looking again, and must not bury another.      *)
(***************************************************************************)
NeverBuried ==
    [][\A n \in Names :
        sessions[n] # NoClient /\ sessions'[n] # sessions[n] =>
            sessions'[n] = NoClient \/ lpc[sessions[n]] = "check"]_vars

(***************************************************************************)
(* No client stays connected that no request can reach, unless it was      *)
(* connected after its session had been taken off the map.                 *)
(***************************************************************************)
NoStray ==
    \A c \in online :
        \/ sessions[name[c]] = c
        \/ c \in overtaken
        \/ lpc[c] = "stop"
        \/ \E r \in Requests : rpc[r] = "disconnect" /\ rclient[r] = c

(***************************************************************************)
(* A paired session survives a restart: its row names its device, but for  *)
(* a failed or late write.                                                 *)
(***************************************************************************)
PairingKept ==
    \A n \in Names : LET c == sessions[n] IN
        c # NoClient /\ id[c] # NoJid => id[c] \in {rows[n], bind[c]} \cup loose

(***************************************************************************)
(* No credentials are left behind: a stored device is the device of a row  *)
(* or of a session not yet bound, but for a failed or late write.          *)
(***************************************************************************)
NoOrphan ==
    \A j \in devices :
        \/ j \in loose
        \/ \E n \in Names : rows[n] = j
        \/ \E c \in Clients : bind[c] = j

(***************************************************************************)
(* README.md: deleting a session logs it out and deletes its credentials.  *)
(***************************************************************************)
DocRemoveLogsOut == left = {}

-------------------------------------------------------------------------------
(***************************************************************************)
(* The inductive invariant behind the properties above.                    *)
(***************************************************************************)

\* A client in use keeps the name it was made for.
NamedInv ==
    /\ \A n \in Names : sessions[n] # NoClient => name[sessions[n]] = n
    /\ \A c \in Clients :
          /\ c \in online \/ bind[c] # NoJid \/ lpc[c] # "none" => name[c] \in Names
          /\ lnew[c] # NoClient => name[lnew[c]] \in Names
    /\ \A r \in Requests : rclient[r] # NoClient => name[rclient[r]] = rname[r]

\* Requests and restarts hold what their later steps use, and Remove a client
\* that is off the map for good.
HeldInv ==
    /\ \A r \in Requests :
          /\ rpc[r] # "idle" => rname[r] \in Names
          /\ rpc[r] = "idle" => rclient[r] = NoClient
          /\ rpc[r] \in {"connect", "disconnect", "logout", "delete", "pair"} =>
                rclient[r] # NoClient
          /\ rpc[r] \in {"disconnect", "logout", "delete"} =>
                \A n \in Names : sessions[n] # rclient[r]
    /\ \A c \in Clients : lpc[c] \in {"stop", "reset", "connect"} => lnew[c] # NoClient

\* Nothing is left of a process that is down.
DownInv ==
    proc = "down" =>
        /\ \A n \in Names : sessions[n] = NoClient
        /\ \A r \in Requests : rpc[r] = "idle" /\ rclient[r] = NoClient
        /\ \A c \in Clients : bind[c] = NoJid /\ lpc[c] = "none" /\ lnew[c] = NoClient
        /\ online = {}

\* A device belongs to one client, one row or one pending write.
OneOwnerInv ==
    /\ \A c, d \in Clients : id[c] = id[d] /\ id[c] # NoJid => c = d
    /\ \A c, d \in Clients : bind[c] = bind[d] /\ bind[c] # NoJid => c = d
    /\ \A m, n \in Names : rows[m] = rows[n] /\ rows[m] \in Jids => m = n
    /\ \A n \in Names, c \in Clients : bind[c] # NoJid => rows[n] # bind[c]

\* The session in the map has its device, and the device to be written is its own.
DeviceInv ==
    /\ \A n \in Names :
          sessions[n] # NoClient /\ id[sessions[n]] # NoJid => id[sessions[n]] \in devices
    /\ \A c \in Clients :
          /\ bind[c] \in devices => id[c] = bind[c]
          /\ bind[c] # NoJid /\ id[c] # NoJid => id[c] = bind[c]

\* A request is about to log this client out.
Removing(c) == \E r \in Requests : rpc[r] \in {"disconnect", "logout"} /\ rclient[r] = c

\* A device to be written is that of the session in the map, or is about to go.
BindInv ==
    \A c \in Clients : bind[c] \in devices \ loose =>
        sessions[name[c]] = c \/ Removing(c)

\* So is a device a row names while the process is up.
RowInv ==
    \A n \in Names : proc = "up" /\ rows[n] \in devices \ loose =>
        \E c \in Clients : /\ name[c] = n /\ id[c] = rows[n]
                           /\ sessions[n] = c \/ Removing(c)

IInv ==
    /\ TypeOK
    /\ NamedInv /\ HeldInv /\ DownInv /\ OneOwnerInv /\ DeviceInv /\ BindInv /\ RowInv
    /\ NameExclusive /\ NoStray /\ PairingKept /\ NoOrphan
===============================================================================
