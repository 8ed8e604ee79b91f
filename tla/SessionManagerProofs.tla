------------------------- MODULE SessionManagerProofs -------------------------
(***************************************************************************)
(* Proofs about SessionManager, for every number of names, requests,       *)
(* clients and devices, any number of exits and failed database calls:     *)
(* IInv is inductive, and the properties of the runs follow from it.       *)
(***************************************************************************)
EXTENDS SessionManager, TLAPS

(***************************************************************************)
(* A name that a request holds has a row, and no entry in the map.         *)
(***************************************************************************)
LEMMA HeldName ==
    ASSUME NameExclusive, NEW n \in Names, NEW r \in Requests, Holds(r, n)
    PROVE  /\ sessions[n] = NoClient /\ rows[n] # NoRow
           /\ \A q \in Requests : q # r => ~Holds(q, n)
BY DEF NameExclusive

(***************************************************************************)
(* The process is up as long as a client or a request does anything.       *)
(***************************************************************************)
LEMMA Alive ==
    ASSUME TypeOK, DownInv,
           \/ \E r \in Requests : rpc[r] # "idle"
           \/ \E c \in Clients : c \in online \/ bind[c] # NoJid \/ lpc[c] # "none"
    PROVE  proc = "up"
BY DEF TypeOK, DownInv

LEMMA InitInv == Init => IInv
<1> SUFFICES ASSUME Init PROVE IInv
  OBVIOUS
<1>1. TypeOK
  BY ManagerAssumption DEF Init, TypeOK
<1>2. NamedInv /\ HeldInv /\ DownInv /\ OneOwnerInv /\ DeviceInv /\ BindInv /\ RowInv
  BY ManagerAssumption DEF Init, NamedInv, HeldInv, DownInv, OneOwnerInv, DeviceInv, BindInv, RowInv
<1>3. NameExclusive /\ NoStray /\ PairingKept /\ NoOrphan
  BY ManagerAssumption DEF Init, NameExclusive, Holds, NoStray, PairingKept, NoOrphan
<1>. QED
  BY <1>1, <1>2, <1>3 DEF IInv

-------------------------------------------------------------------------------
(***************************************************************************)
(* The steps of Create.                                                    *)
(***************************************************************************)
LEMMA CreateCheckInv ==
    ASSUME IInv, NEW r0 \in Requests, NEW n0 \in Names, CreateCheck(r0, n0)
    PROVE  IInv'
<1>t. /\ TypeOK /\ NamedInv /\ HeldInv /\ DownInv /\ OneOwnerInv /\ DeviceInv /\ BindInv
      /\ RowInv /\ NameExclusive /\ NoStray /\ PairingKept /\ NoOrphan
  BY DEF IInv
<1>u. UNCHANGED <<proc, sessions, name, id, online, rows, devices, rclient, bind, lpc, lnew,
                  overtaken, loose>>
  BY DEF CreateCheck, clientVars, storeVars, restartVars, history
<1>1. /\ proc = "up" /\ rpc[r0] = "idle"
      /\ rpc'[r0] = "insert" /\ rname'[r0] = n0
      /\ \A r \in Requests : r # r0 => rpc'[r] = rpc[r] /\ rname'[r] = rname[r]
  BY <1>t DEF CreateCheck, TypeOK
<1>2. TypeOK'
  <2>1. /\ rpc' \in [Requests -> {"idle", "insert", "register", "connect", "disconnect",
                                  "logout", "delete", "pair"}]
        /\ rname' \in [Requests -> Names \cup {NoName}]
    BY <1>t DEF CreateCheck, TypeOK
  <2>. QED
    BY <1>t, <1>u, <2>1 DEF CreateCheck, TypeOK, history
<1>3. NamedInv'
  BY <1>t, <1>u, <1>1 DEF NamedInv, HeldInv
<1>4. HeldInv'
  BY <1>t, <1>u, <1>1 DEF HeldInv
<1>5. DownInv' /\ OneOwnerInv' /\ DeviceInv' /\ PairingKept' /\ NoOrphan'
  BY <1>t, <1>u, <1>1 DEF DownInv, OneOwnerInv, DeviceInv, PairingKept, NoOrphan
<1>6. BindInv' /\ RowInv'
  BY <1>t, <1>u, <1>1 DEF BindInv, RowInv, Removing
<1>7. NameExclusive'
  BY <1>t, <1>u, <1>1 DEF NameExclusive, Holds
<1>8. NoStray'
  BY <1>t, <1>u, <1>1 DEF NoStray
<1>. QED
  BY <1>2, <1>3, <1>4, <1>5, <1>6, <1>7, <1>8 DEF IInv

LEMMA CreateInsertInv ==
    ASSUME IInv, NEW r0 \in Requests, CreateInsert(r0)
    PROVE  IInv'
<1>t. /\ TypeOK /\ NamedInv /\ HeldInv /\ DownInv /\ OneOwnerInv /\ DeviceInv /\ BindInv
      /\ RowInv /\ NameExclusive /\ NoStray /\ PairingKept /\ NoOrphan
  BY DEF IInv
<1>u. UNCHANGED <<proc, sessions, name, id, online, devices, bind, lpc, lnew, overtaken, loose>>
  BY DEF CreateInsert, clientVars, restartVars, history
<1> DEFINE n0 == rname[r0]
<1>1. n0 \in Names /\ rpc[r0] = "insert"
  BY <1>t DEF CreateInsert, HeldInv
<1>2. /\ \A n \in Names : \/ rows'[n] = rows[n]
                          \/ n = n0 /\ rows[n] = NoRow /\ rows'[n] = NoJid
  BY <1>t, <1>1 DEF CreateInsert, TypeOK
<1>3. /\ \/ rpc'[r0] = "idle" /\ rclient'[r0] = NoClient
         \/ /\ rpc'[r0] = "register" /\ rname'[r0] = n0 /\ rclient'[r0] = rclient[r0]
            /\ rows[n0] = NoRow /\ rows'[n0] = NoJid
      /\ \A r \in Requests : r # r0 =>
            rpc'[r] = rpc[r] /\ rname'[r] = rname[r] /\ rclient'[r] = rclient[r]
  BY <1>t, <1>1 DEF CreateInsert, Answer, TypeOK
<1>4. TypeOK'
  <2>1. /\ rpc' \in [Requests -> {"idle", "insert", "register", "connect", "disconnect",
                                  "logout", "delete", "pair"}]
        /\ rname' \in [Requests -> Names \cup {NoName}]
        /\ rclient' \in [Requests -> Clients \cup {NoClient}]
    BY <1>t DEF CreateInsert, Answer, TypeOK
  <2>2. rows' \in [Names -> Jids \cup {NoJid, NoRow}]
    BY <1>t DEF CreateInsert, TypeOK
  <2>3. faults' \in Nat
    BY <1>t DEF CreateInsert, DbCall, TypeOK
  <2>. QED
    BY <1>t, <1>u, <2>1, <2>2, <2>3 DEF CreateInsert, TypeOK, history
<1>5. NamedInv'
  BY <1>t, <1>u, <1>1, <1>3 DEF NamedInv
<1>6. HeldInv'
  BY <1>t, <1>u, <1>1, <1>3 DEF HeldInv
<1>7. DownInv'
  BY <1>t, <1>u, <1>1, <1>3 DEF DownInv
<1>8. OneOwnerInv' /\ DeviceInv' /\ NoOrphan'
  BY <1>t, <1>u, <1>2, ManagerAssumption DEF TypeOK, OneOwnerInv, DeviceInv, NoOrphan
<1>9. BindInv'
  BY <1>t, <1>u, <1>1, <1>3 DEF BindInv, Removing
<1>10. RowInv'
  BY <1>t, <1>u, <1>1, <1>2, <1>3, ManagerAssumption DEF TypeOK, RowInv, Removing
<1>11. NameExclusive'
  BY <1>t, <1>u, <1>1, <1>2, <1>3, ManagerAssumption DEF NameExclusive, Holds
<1>12. NoStray'
  BY <1>t, <1>u, <1>1, <1>3 DEF NoStray
<1>13. PairingKept'
  BY <1>t, <1>u, <1>1, <1>2 DEF PairingKept, NameExclusive
<1>. QED
  BY <1>4, <1>5, <1>6, <1>7, <1>8, <1>9, <1>10, <1>11, <1>12, <1>13 DEF IInv

(***************************************************************************)
(* A client nothing refers to, made into the session of a name.            *)
(***************************************************************************)
LEMMA NewClient ==
    ASSUME TypeOK, NEW d \in Clients, NEW n \in Names, New(d, n)
    PROVE  /\ d \notin online /\ bind[d] = NoJid /\ lpc[d] = "none"
           /\ \A m \in Names : sessions[m] # d
           /\ \A r \in Requests : rclient[r] # d
           /\ \A c \in Clients : lnew[c] # d
           /\ name'[d] = n /\ id'[d] = NoJid /\ sessions'[n] = d
           /\ \A c \in Clients : c # d =>
                 name'[c] = name[c] /\ id'[c] = id[c] /\ (c \in overtaken' <=> c \in overtaken)
           /\ \A m \in Names : m # n => sessions'[m] = sessions[m]
           /\ name' \in [Clients -> Names \cup {NoName}]
           /\ id' \in [Clients -> Jids \cup {NoJid}]
           /\ sessions' \in [Names -> Clients \cup {NoClient}]
           /\ overtaken' \in SUBSET Clients
BY DEF New, Fresh, TypeOK

LEMMA CreateRegisterInv ==
    ASSUME IInv, NEW r0 \in Requests, CreateRegister(r0)
    PROVE  IInv'
<1>t. /\ TypeOK /\ NamedInv /\ HeldInv /\ DownInv /\ OneOwnerInv /\ DeviceInv /\ BindInv
      /\ RowInv /\ NameExclusive /\ NoStray /\ PairingKept /\ NoOrphan
  BY DEF IInv
<1>u. UNCHANGED <<proc, online, rows, devices, rname, bind, lpc, lnew, exits, faults, loose, left>>
  BY DEF CreateRegister, storeVars, restartVars
<1> DEFINE n0 == rname[r0]
<1>1. n0 \in Names /\ rpc[r0] = "register"
  BY <1>t DEF CreateRegister, HeldInv
<1>2. PICK d \in Clients : New(d, n0) /\ rclient' = [rclient EXCEPT ![r0] = d]
  BY DEF CreateRegister
<1>n. /\ d \notin online /\ bind[d] = NoJid /\ lpc[d] = "none"
      /\ \A m \in Names : sessions[m] # d
      /\ \A r \in Requests : rclient[r] # d
      /\ \A c \in Clients : lnew[c] # d
      /\ name'[d] = n0 /\ id'[d] = NoJid /\ sessions'[n0] = d
      /\ \A c \in Clients : c # d =>
            name'[c] = name[c] /\ id'[c] = id[c] /\ (c \in overtaken' <=> c \in overtaken)
      /\ \A m \in Names : m # n0 => sessions'[m] = sessions[m]
      /\ name' \in [Clients -> Names \cup {NoName}]
      /\ id' \in [Clients -> Jids \cup {NoJid}]
      /\ sessions' \in [Names -> Clients \cup {NoClient}]
      /\ overtaken' \in SUBSET Clients
  BY <1>t, <1>1, <1>2, NewClient
<1>3. /\ rpc'[r0] = "connect" /\ rclient'[r0] = d
      /\ \A r \in Requests : r # r0 => rpc'[r] = rpc[r] /\ rclient'[r] = rclient[r]
  BY <1>t, <1>2 DEF CreateRegister, TypeOK
<1>4. Holds(r0, n0) /\ proc = "up"
  BY <1>t, <1>1, Alive DEF Holds
<1>5. /\ sessions[n0] = NoClient /\ rows[n0] # NoRow
      /\ \A q \in Requests : q # r0 => ~Holds(q, n0)
  BY <1>t, <1>1, <1>4, HeldName
<1>6. TypeOK'
  <2>1. /\ rpc' \in [Requests -> {"idle", "insert", "register", "connect", "disconnect",
                                  "logout", "delete", "pair"}]
        /\ rclient' \in [Requests -> Clients \cup {NoClient}]
    BY <1>t, <1>2 DEF CreateRegister, TypeOK
  <2>. QED
    BY <1>t, <1>u, <1>n, <2>1 DEF TypeOK
<1>7. NamedInv'
  BY <1>t, <1>u, <1>1, <1>3, <1>n DEF NamedInv, TypeOK
<1>8. HeldInv'
  BY <1>t, <1>u, <1>1, <1>3, <1>n, ManagerAssumption DEF HeldInv
<1>9. DownInv'
  BY <1>u, <1>4 DEF DownInv
<1>10. OneOwnerInv'
  BY <1>t, <1>u, <1>n DEF OneOwnerInv
<1>11. DeviceInv'
  BY <1>t, <1>u, <1>n, ManagerAssumption DEF DeviceInv, TypeOK
<1>12. BindInv'
  <2> SUFFICES ASSUME NEW c \in Clients, bind[c] \in devices \ loose
               PROVE  sessions'[name'[c]] = c \/ Removing(c)'
    BY <1>u DEF BindInv
  <2>1. c # d /\ name'[c] = name[c] /\ name[c] \in Names
    BY <1>t, <1>n, ManagerAssumption DEF TypeOK, NamedInv
  <2>2. Removing(c) => Removing(c)'
    BY <1>1, <1>3 DEF Removing
  <2>3. sessions[name[c]] = c => sessions'[name[c]] = c
    BY <1>t, <1>5, <1>n, <2>1, ManagerAssumption
  <2>. QED
    BY <1>t, <2>1, <2>2, <2>3 DEF BindInv
<1>13. RowInv'
  BY <1>t, <1>u, <1>1, <1>3, <1>5, <1>n, ManagerAssumption DEF RowInv, Removing, TypeOK
<1>14. NameExclusive'
  BY <1>t, <1>u, <1>1, <1>3, <1>5, <1>n DEF NameExclusive, Holds
<1>15. NoStray'
  <2> SUFFICES ASSUME NEW c \in online
               PROVE  NoStray!(c)'
    BY <1>u DEF NoStray
  <2>1. c \in Clients /\ c # d /\ name'[c] = name[c] /\ name[c] \in Names
    BY <1>t, <1>n DEF TypeOK, NamedInv
  <2>2. sessions[name[c]] = c => sessions'[name[c]] = c
    BY <1>t, <1>5, <1>n, <2>1, ManagerAssumption
  <2>. QED
    BY <1>t, <1>u, <1>1, <1>3, <1>n, <2>1, <2>2 DEF NoStray
<1>16. PairingKept' /\ NoOrphan'
  BY <1>t, <1>u, <1>n DEF PairingKept, NoOrphan, TypeOK
<1>. QED
  BY <1>6, <1>7, <1>8, <1>9, <1>10, <1>11, <1>12, <1>13, <1>14, <1>15, <1>16 DEF IInv

(***************************************************************************)
(* The attempt to connect a client that has a name.                        *)
(***************************************************************************)
LEMMA ConnectStray ==
    ASSUME TypeOK, NEW c0 \in Clients, Connect(c0)
    PROVE  /\ online' \in SUBSET Clients /\ overtaken' \in SUBSET Clients
           /\ \A c \in Clients : c # c0 => (c \in online' <=> c \in online)
           /\ \A c \in Clients : c \in overtaken => c \in overtaken'
           /\ \/ c0 \in online' /\ (sessions[name[c0]] = c0 \/ c0 \in overtaken')
              \/ c0 \in online' <=> c0 \in online
BY DEF Connect, TypeOK

LEMMA CreateConnectInv ==
    ASSUME IInv, NEW r0 \in Requests, CreateConnect(r0)
    PROVE  IInv'
<1>t. /\ TypeOK /\ NamedInv /\ HeldInv /\ DownInv /\ OneOwnerInv /\ DeviceInv /\ BindInv
      /\ RowInv /\ NameExclusive /\ NoStray /\ PairingKept /\ NoOrphan
  BY DEF IInv
<1>u. UNCHANGED <<proc, sessions, name, id, rows, devices, bind, lpc, lnew, exits, faults,
                  loose, left>>
  BY DEF CreateConnect, storeVars, restartVars
<1> DEFINE c0 == rclient[r0]
<1>1. rpc[r0] = "connect" /\ c0 \in Clients /\ rname[r0] \in Names /\ name[c0] = rname[r0]
  BY <1>t DEF CreateConnect, HeldInv, NamedInv, TypeOK
<1>2. /\ online' \in SUBSET Clients /\ overtaken' \in SUBSET Clients
      /\ \A c \in Clients : c # c0 => (c \in online' <=> c \in online)
      /\ \A c \in Clients : c \in overtaken => c \in overtaken'
      /\ \/ c0 \in online' /\ (sessions[name[c0]] = c0 \/ c0 \in overtaken')
         \/ c0 \in online' <=> c0 \in online
  BY <1>t, <1>1, ConnectStray DEF CreateConnect
<1>3. /\ rpc'[r0] = "idle" /\ rclient'[r0] = NoClient
      /\ \A r \in Requests : r # r0 =>
            rpc'[r] = rpc[r] /\ rname'[r] = rname[r] /\ rclient'[r] = rclient[r]
  BY <1>t DEF CreateConnect, Answer, TypeOK
<1>4. proc = "up"
  BY <1>t, <1>1, Alive
<1>5. TypeOK'
  <2>1. /\ rpc' \in [Requests -> {"idle", "insert", "register", "connect", "disconnect",
                                  "logout", "delete", "pair"}]
        /\ rname' \in [Requests -> Names \cup {NoName}]
        /\ rclient' \in [Requests -> Clients \cup {NoClient}]
    BY <1>t DEF CreateConnect, Answer, TypeOK
  <2>. QED
    BY <1>t, <1>u, <1>2, <2>1 DEF TypeOK
<1>6. NamedInv'
  BY <1>t, <1>u, <1>1, <1>2, <1>3 DEF NamedInv
<1>7. HeldInv'
  BY <1>t, <1>u, <1>3 DEF HeldInv
<1>8. DownInv' /\ OneOwnerInv' /\ DeviceInv' /\ PairingKept' /\ NoOrphan'
  BY <1>t, <1>u, <1>4 DEF DownInv, OneOwnerInv, DeviceInv, PairingKept, NoOrphan
<1>9. BindInv' /\ RowInv'
  BY <1>t, <1>u, <1>1, <1>3 DEF BindInv, RowInv, Removing
<1>10. NameExclusive'
  BY <1>t, <1>u, <1>3 DEF NameExclusive, Holds
<1>11. NoStray'
  BY <1>t, <1>u, <1>1, <1>2, <1>3 DEF NoStray, TypeOK
<1>. QED
  BY <1>5, <1>6, <1>7, <1>8, <1>9, <1>10, <1>11 DEF IInv

-------------------------------------------------------------------------------
(***************************************************************************)
(* The steps of Remove.                                                    *)
(***************************************************************************)
LEMMA RemoveBeginInv ==
    ASSUME IInv, NEW r0 \in Requests, NEW n0 \in Names, RemoveBegin(r0, n0)
    PROVE  IInv'
<1>t. /\ TypeOK /\ NamedInv /\ HeldInv /\ DownInv /\ OneOwnerInv /\ DeviceInv /\ BindInv
      /\ RowInv /\ NameExclusive /\ NoStray /\ PairingKept /\ NoOrphan
  BY DEF IInv
<1>u. UNCHANGED <<proc, name, id, online, rows, devices, bind, lpc, lnew, exits, faults,
                  overtaken, loose, left>>
  BY DEF RemoveBegin, clientVars, storeVars, restartVars, history
<1>c. PICK c0 \in Clients : sessions[n0] = c0
  BY <1>t DEF RemoveBegin, TypeOK
<1>1. /\ proc = "up" /\ rpc[r0] = "idle" /\ name[c0] = n0
      /\ \A n \in Names : n # n0 => sessions[n] # c0
  BY <1>t, <1>c, ManagerAssumption DEF RemoveBegin, TypeOK, NamedInv
<1>2. /\ rpc'[r0] = "disconnect" /\ rname'[r0] = n0 /\ rclient'[r0] = c0
      /\ \A r \in Requests : r # r0 =>
            rpc'[r] = rpc[r] /\ rname'[r] = rname[r] /\ rclient'[r] = rclient[r]
  BY <1>t, <1>c DEF RemoveBegin, TypeOK
<1>3. sessions'[n0] = NoClient /\ \A n \in Names : n # n0 => sessions'[n] = sessions[n]
  BY <1>t DEF RemoveBegin, TypeOK
<1>4. rows[n0] # NoRow /\ \A r \in Requests : ~Holds(r, n0)
  BY <1>t DEF RemoveBegin, NameExclusive
<1>5. TypeOK'
  <2>1. /\ rpc' \in [Requests -> {"idle", "insert", "register", "connect", "disconnect",
                                  "logout", "delete", "pair"}]
        /\ rname' \in [Requests -> Names \cup {NoName}]
        /\ rclient' \in [Requests -> Clients \cup {NoClient}]
    BY <1>t, <1>c DEF RemoveBegin, TypeOK
  <2>2. sessions' \in [Names -> Clients \cup {NoClient}]
    BY <1>t DEF RemoveBegin, TypeOK
  <2>. QED
    BY <1>t, <1>u, <2>1, <2>2 DEF TypeOK
<1>6. NamedInv'
  BY <1>t, <1>u, <1>1, <1>2, <1>3 DEF NamedInv
<1>7. HeldInv'
  BY <1>t, <1>u, <1>c, <1>1, <1>2, <1>3, ManagerAssumption DEF HeldInv
<1>8. DownInv' /\ OneOwnerInv' /\ DeviceInv' /\ PairingKept' /\ NoOrphan'
  BY <1>t, <1>u, <1>1, <1>3 DEF DownInv, OneOwnerInv, DeviceInv, PairingKept, NoOrphan
<1>9. \A c \in Clients : Removing(c) => Removing(c)'
  BY <1>1, <1>2 DEF Removing
<1>10. Removing(c0)'
  BY <1>2 DEF Removing
<1>11. BindInv'
  <2> SUFFICES ASSUME NEW c \in Clients, bind[c] \in devices \ loose
               PROVE  sessions'[name[c]] = c \/ Removing(c)'
    BY <1>u DEF BindInv
  <2>1. name[c] \in Names
    BY <1>t, ManagerAssumption DEF TypeOK, NamedInv
  <2>. QED
    BY <1>t, <1>c, <1>3, <1>9, <1>10, <2>1 DEF BindInv
<1>12. RowInv'
  BY <1>t, <1>u, <1>c, <1>3, <1>9, <1>10 DEF RowInv
<1>13. NameExclusive'
  BY <1>t, <1>u, <1>1, <1>2, <1>3, <1>4 DEF NameExclusive, Holds
<1>14. NoStray'
  <2> SUFFICES ASSUME NEW c \in online
               PROVE  NoStray!(c)'
    BY <1>u DEF NoStray
  <2>1. c \in Clients /\ name[c] \in Names
    BY <1>t DEF TypeOK, NamedInv
  <2>. QED
    BY <1>t, <1>u, <1>c, <1>1, <1>2, <1>3, <2>1 DEF NoStray
<1>. QED
  BY <1>5, <1>6, <1>7, <1>8, <1>11, <1>12, <1>13, <1>14 DEF IInv

LEMMA RemoveDisconnectInv ==
    ASSUME IInv, NEW r0 \in Requests, RemoveDisconnect(r0)
    PROVE  IInv'
<1>t. /\ TypeOK /\ NamedInv /\ HeldInv /\ DownInv /\ OneOwnerInv /\ DeviceInv /\ BindInv
      /\ RowInv /\ NameExclusive /\ NoStray /\ PairingKept /\ NoOrphan
  BY DEF IInv
<1>u. UNCHANGED <<proc, sessions, name, id, rows, devices, rname, rclient, bind, lpc, lnew,
                  exits, faults, overtaken, loose, left>>
  BY DEF RemoveDisconnect, storeVars, restartVars, history
<1> DEFINE c0 == rclient[r0]
<1>1. rpc[r0] = "disconnect" /\ c0 \in Clients
  BY <1>t DEF RemoveDisconnect, HeldInv, TypeOK
<1>2. rpc'[r0] = "logout" /\ \A r \in Requests : r # r0 => rpc'[r] = rpc[r]
  BY <1>t DEF RemoveDisconnect, TypeOK
<1>3. online' = online \ {c0}
  BY DEF RemoveDisconnect
<1>4. proc = "up"
  BY <1>t, <1>1, Alive
<1>5. TypeOK'
  <2>1. rpc' \in [Requests -> {"idle", "insert", "register", "connect", "disconnect",
                                  "logout", "delete", "pair"}]
    BY <1>t DEF RemoveDisconnect, TypeOK
  <2>. QED
    BY <1>t, <1>u, <1>3, <2>1 DEF TypeOK
<1>6. NamedInv' /\ HeldInv'
  BY <1>t, <1>u, <1>1, <1>2, <1>3 DEF NamedInv, HeldInv
<1>7. DownInv' /\ OneOwnerInv' /\ DeviceInv' /\ PairingKept' /\ NoOrphan'
  BY <1>t, <1>u, <1>4 DEF DownInv, OneOwnerInv, DeviceInv, PairingKept, NoOrphan
<1>8. BindInv' /\ RowInv'
  BY <1>t, <1>u, <1>1, <1>2 DEF BindInv, RowInv, Removing
<1>9. NameExclusive'
  BY <1>t, <1>u, <1>1, <1>2 DEF NameExclusive, Holds
<1>10. NoStray'
  BY <1>t, <1>u, <1>1, <1>2, <1>3 DEF NoStray
<1>. QED
  BY <1>5, <1>6, <1>7, <1>8, <1>9, <1>10 DEF IInv

(***************************************************************************)
(* Unlinking a client takes its device out of the store, and no other      *)
(* client's.                                                               *)
(***************************************************************************)
LEMMA UnlinkDevice ==
    ASSUME TypeOK, OneOwnerInv, DeviceInv, NEW c0 \in Clients, id[c0] # NoJid, Unlink(c0)
    PROVE  /\ devices' = devices \ {id[c0]} /\ online' = online \ {c0}
           /\ id'[c0] = NoJid /\ bind[c0] \notin devices'
           /\ \A c \in Clients : c # c0 => id'[c] = id[c] /\ id[c] # id[c0]
           /\ id' \in [Clients -> Jids \cup {NoJid}]
BY DEF Unlink, TypeOK, OneOwnerInv, DeviceInv

LEMMA RemoveLogoutInv ==
    ASSUME IInv, NEW r0 \in Requests, RemoveLogout(r0)
    PROVE  IInv'
<1>t. /\ TypeOK /\ NamedInv /\ HeldInv /\ DownInv /\ OneOwnerInv /\ DeviceInv /\ BindInv
      /\ RowInv /\ NameExclusive /\ NoStray /\ PairingKept /\ NoOrphan
  BY DEF IInv
<1>u. UNCHANGED <<proc, sessions, name, rows, rname, rclient, bind, lpc, lnew, exits,
                  overtaken, left>>
  BY DEF RemoveLogout, restartVars
<1> DEFINE c0 == rclient[r0]
<1>1. rpc[r0] = "logout" /\ c0 \in Clients /\ \A n \in Names : sessions[n] # c0
  BY <1>t DEF RemoveLogout, HeldInv, TypeOK
<1>2. rpc'[r0] = "delete" /\ \A r \in Requests : r # r0 => rpc'[r] = rpc[r]
  BY <1>t DEF RemoveLogout, TypeOK
<1>3. \/ id[c0] = NoJid /\ UNCHANGED <<id, online, devices, loose>>
      \/ id[c0] # NoJid /\ Unlink(c0) /\ loose' = loose
      \/ id[c0] # NoJid /\ devices' = devices \ {id[c0]} /\ UNCHANGED <<id, online, loose>>
      \/ id[c0] # NoJid /\ loose' = loose \cup {id[c0]} /\ UNCHANGED <<id, online, devices>>
  BY DEF RemoveLogout
<1>4. /\ id' \in [Clients -> Jids \cup {NoJid}]
      /\ \A c \in Clients : c # c0 => id'[c] = id[c]
      /\ id'[c0] = id[c0] \/ id'[c0] = NoJid
      /\ devices' = devices \/ (id[c0] # NoJid /\ devices' = devices \ {id[c0]})
      /\ \A c \in online' : c \in online
      /\ online' \in SUBSET Clients
      /\ loose \subseteq loose'
      /\ id[c0] \notin devices' \ loose'
  <2>1. CASE id[c0] # NoJid /\ Unlink(c0) /\ loose' = loose
    BY <1>t, <1>1, <2>1, UnlinkDevice DEF TypeOK
  <2>2. CASE id[c0] = NoJid /\ UNCHANGED <<id, online, devices, loose>>
    BY <1>t, <2>2, ManagerAssumption DEF TypeOK
  <2>3. CASE id[c0] # NoJid /\ devices' = devices \ {id[c0]} /\ UNCHANGED <<id, online, loose>>
    BY <1>t, <2>3 DEF TypeOK
  <2>4. CASE id[c0] # NoJid /\ loose' = loose \cup {id[c0]} /\ UNCHANGED <<id, online, devices>>
    BY <1>t, <2>4 DEF TypeOK
  <2>. QED
    BY <1>3, <2>1, <2>2, <2>3, <2>4
<1>5. proc = "up"
  BY <1>t, <1>1, Alive
<1>6. TypeOK'
  <2>1. rpc' \in [Requests -> {"idle", "insert", "register", "connect", "disconnect",
                                  "logout", "delete", "pair"}]
    BY <1>t DEF RemoveLogout, TypeOK
  <2>2. faults' \in Nat /\ loose' \in SUBSET Jids
    BY <1>t, <1>1 DEF RemoveLogout, DbCall, TypeOK
  <2>. QED
    BY <1>t, <1>u, <1>4, <2>1, <2>2 DEF TypeOK
<1>7. NamedInv' /\ HeldInv'
  BY <1>t, <1>u, <1>1, <1>2, <1>4 DEF NamedInv, HeldInv
<1>8. DownInv' /\ OneOwnerInv' /\ NoOrphan'
  BY <1>t, <1>u, <1>4, <1>5 DEF DownInv, OneOwnerInv, NoOrphan
<1>9. DeviceInv'
  <2>1. CASE id[c0] # NoJid /\ Unlink(c0)
    BY <1>t, <1>u, <1>1, <2>1, UnlinkDevice DEF DeviceInv, TypeOK
  <2>2. CASE id' = id
    BY <1>t, <1>u, <1>1, <1>4, <2>2 DEF DeviceInv, TypeOK, OneOwnerInv
  <2>. QED
    BY <1>3, <2>1, <2>2
<1>10. \A c \in Clients : Removing(c) /\ c # c0 => Removing(c)'
  BY <1>u, <1>1, <1>2 DEF Removing
<1>11. BindInv'
  <2>1. bind[c0] \notin devices' \ loose'
    BY <1>t, <1>1, <1>4 DEF DeviceInv
  <2>. QED
    BY <1>t, <1>u, <1>4, <1>10, <2>1 DEF BindInv
<1>12. RowInv'
  BY <1>t, <1>u, <1>4, <1>10 DEF RowInv
<1>13. NameExclusive'
  BY <1>t, <1>u, <1>1, <1>2 DEF NameExclusive, Holds
<1>14. NoStray'
  BY <1>t, <1>u, <1>1, <1>2, <1>4 DEF NoStray
<1>15. PairingKept'
  BY <1>t, <1>u, <1>1, <1>4 DEF PairingKept, TypeOK
<1>. QED
  BY <1>6, <1>7, <1>8, <1>9, <1>11, <1>12, <1>13, <1>14, <1>15 DEF IInv

LEMMA RemoveRowInv ==
    ASSUME IInv, NEW r0 \in Requests, RemoveRow(r0)
    PROVE  IInv'
<1>t. /\ TypeOK /\ NamedInv /\ HeldInv /\ DownInv /\ OneOwnerInv /\ DeviceInv /\ BindInv
      /\ RowInv /\ NameExclusive /\ NoStray /\ PairingKept /\ NoOrphan
  BY DEF IInv
<1>u. UNCHANGED <<proc, sessions, name, id, online, devices, bind, lpc, lnew, exits,
                  overtaken, loose>>
  BY DEF RemoveRow, clientVars, restartVars
<1> DEFINE n0 == rname[r0]
<1>1. rpc[r0] = "delete" /\ n0 \in Names /\ Holds(r0, n0)
  BY <1>t DEF RemoveRow, HeldInv, Holds
<1>2. /\ sessions[n0] = NoClient
      /\ \A q \in Requests : q # r0 => ~Holds(q, n0)
  BY <1>t, <1>1, HeldName
<1>3. \/ rows' = rows
      \/ rows'[n0] = NoRow /\ \A n \in Names : n # n0 => rows'[n] = rows[n]
  BY <1>t, <1>1 DEF RemoveRow, TypeOK
<1>4. /\ rpc'[r0] = "idle" /\ rclient'[r0] = NoClient
      /\ \A r \in Requests : r # r0 =>
            rpc'[r] = rpc[r] /\ rname'[r] = rname[r] /\ rclient'[r] = rclient[r]
  BY <1>t DEF RemoveRow, Answer, TypeOK
<1>5. proc = "up"
  BY <1>t, <1>1, Alive
<1>6. ~(rows[n0] \in devices \ loose)
  <2> SUFFICES ASSUME rows[n0] \in devices \ loose PROVE FALSE
    OBVIOUS
  <2>1. PICK c \in Clients : name[c] = n0 /\ (sessions[n0] = c \/ Removing(c))
    BY <1>t, <1>1, <1>5 DEF RowInv
  <2>2. PICK q \in Requests : rpc[q] \in {"disconnect", "logout"} /\ rclient[q] = c
    BY <1>2, <2>1, ManagerAssumption DEF Removing
  <2>3. rname[q] = n0
    BY <1>t, <2>1, <2>2, ManagerAssumption DEF NamedInv
  <2>. QED
    BY <1>1, <1>2, <2>2, <2>3 DEF Holds
<1>7. TypeOK'
  <2>1. /\ rpc' \in [Requests -> {"idle", "insert", "register", "connect", "disconnect",
                                  "logout", "delete", "pair"}]
        /\ rname' \in [Requests -> Names \cup {NoName}]
        /\ rclient' \in [Requests -> Clients \cup {NoClient}]
    BY <1>t DEF RemoveRow, Answer, TypeOK
  <2>2. rows' \in [Names -> Jids \cup {NoJid, NoRow}]
    BY <1>t DEF RemoveRow, TypeOK
  <2>3. faults' \in Nat
    BY <1>t DEF RemoveRow, DbCall, TypeOK
  <2>4. left' \in SUBSET Jids
    <3>1. rclient[r0] \in Clients
      BY <1>t, <1>1 DEF HeldInv, TypeOK
    <3>. QED
      BY <1>t, <3>1 DEF RemoveRow, TypeOK
  <2>. QED
    BY <1>t, <1>u, <2>1, <2>2, <2>3, <2>4 DEF TypeOK
<1>8. NamedInv'
  BY <1>t, <1>u, <1>4 DEF NamedInv
<1>9. HeldInv'
  BY <1>t, <1>u, <1>4 DEF HeldInv
<1>10. DownInv' /\ DeviceInv'
  BY <1>t, <1>u, <1>5 DEF DownInv, DeviceInv
<1>11. OneOwnerInv'
  BY <1>t, <1>u, <1>1, <1>3, ManagerAssumption DEF OneOwnerInv, TypeOK
<1>12. BindInv'
  BY <1>t, <1>u, <1>1, <1>4 DEF BindInv, Removing
<1>13. RowInv'
  BY <1>t, <1>u, <1>1, <1>3, <1>4, ManagerAssumption DEF RowInv, Removing, TypeOK
<1>14. NameExclusive'
  BY <1>t, <1>u, <1>1, <1>2, <1>3, <1>4 DEF NameExclusive, Holds
<1>15. NoStray'
  BY <1>t, <1>u, <1>1, <1>4 DEF NoStray
<1>16. PairingKept'
  BY <1>t, <1>u, <1>2, <1>3 DEF PairingKept
<1>17. NoOrphan'
  BY <1>t, <1>u, <1>3, <1>6 DEF NoOrphan
<1>. QED
  BY <1>7, <1>8, <1>9, <1>10, <1>11, <1>12, <1>13, <1>14, <1>15, <1>16, <1>17 DEF IInv

-------------------------------------------------------------------------------
(***************************************************************************)
(* The steps of the other requests and of the events.                      *)
(***************************************************************************)
LEMMA PairGetInv ==
    ASSUME IInv, NEW r0 \in Requests, NEW n0 \in Names, PairGet(r0, n0)
    PROVE  IInv'
<1>t. /\ TypeOK /\ NamedInv /\ HeldInv /\ DownInv /\ OneOwnerInv /\ DeviceInv /\ BindInv
      /\ RowInv /\ NameExclusive /\ NoStray /\ PairingKept /\ NoOrphan
  BY DEF IInv
<1>u. UNCHANGED <<proc, sessions, name, id, online, rows, devices, bind, lpc, lnew, exits, faults,
                  overtaken, loose, left>>
  BY DEF PairGet, clientVars, storeVars, restartVars, history
<1>1. /\ proc = "up" /\ rpc[r0] = "idle" /\ sessions[n0] \in Clients
      /\ name[sessions[n0]] = n0
  BY <1>t DEF PairGet, TypeOK, NamedInv
<1>2. /\ rpc'[r0] = "pair" /\ rname'[r0] = n0 /\ rclient'[r0] = sessions[n0]
      /\ \A r \in Requests : r # r0 =>
            rpc'[r] = rpc[r] /\ rname'[r] = rname[r] /\ rclient'[r] = rclient[r]
  BY <1>t DEF PairGet, TypeOK
<1>3. TypeOK'
  <2>1. /\ rpc' \in [Requests -> {"idle", "insert", "register", "connect", "disconnect",
                                  "logout", "delete", "pair"}]
        /\ rname' \in [Requests -> Names \cup {NoName}]
        /\ rclient' \in [Requests -> Clients \cup {NoClient}]
    BY <1>t DEF PairGet, TypeOK
  <2>. QED
    BY <1>t, <1>u, <2>1 DEF TypeOK
<1>4. NamedInv'
  BY <1>t, <1>u, <1>1, <1>2 DEF NamedInv
<1>5. HeldInv'
  BY <1>t, <1>u, <1>1, <1>2, ManagerAssumption DEF HeldInv
<1>6. DownInv' /\ OneOwnerInv' /\ DeviceInv' /\ PairingKept' /\ NoOrphan'
  BY <1>t, <1>u, <1>1 DEF DownInv, OneOwnerInv, DeviceInv, PairingKept, NoOrphan
<1>7. BindInv' /\ RowInv'
  BY <1>t, <1>u, <1>1, <1>2 DEF BindInv, RowInv, Removing
<1>8. NameExclusive'
  BY <1>t, <1>u, <1>1, <1>2 DEF NameExclusive, Holds
<1>9. NoStray'
  BY <1>t, <1>u, <1>1, <1>2 DEF NoStray
<1>. QED
  BY <1>3, <1>4, <1>5, <1>6, <1>7, <1>8, <1>9 DEF IInv

LEMMA PairPhoneInv ==
    ASSUME IInv, NEW r0 \in Requests, PairPhone(r0)
    PROVE  IInv'
<1>t. /\ TypeOK /\ NamedInv /\ HeldInv /\ DownInv /\ OneOwnerInv /\ DeviceInv /\ BindInv
      /\ RowInv /\ NameExclusive /\ NoStray /\ PairingKept /\ NoOrphan
  BY DEF IInv
<1>u. UNCHANGED <<proc, sessions, name, id, rows, devices, bind, lpc, lnew, exits, faults,
                  loose, left>>
  BY DEF PairPhone, storeVars, restartVars
<1> DEFINE c0 == rclient[r0]
<1>1. rpc[r0] = "pair" /\ c0 \in Clients /\ rname[r0] \in Names /\ name[c0] = rname[r0]
  BY <1>t DEF PairPhone, HeldInv, NamedInv, TypeOK
<1>2. /\ online' \in SUBSET Clients /\ overtaken' \in SUBSET Clients
      /\ \A c \in Clients : c # c0 => (c \in online' <=> c \in online)
      /\ \A c \in Clients : c \in overtaken => c \in overtaken'
      /\ \/ c0 \in online' /\ (sessions[name[c0]] = c0 \/ c0 \in overtaken')
         \/ c0 \in online' <=> c0 \in online
  <2>1. CASE Connect(c0)
    BY <1>t, <1>1, <2>1, ConnectStray
  <2>2. CASE UNCHANGED <<online, overtaken>>
    BY <1>t, <2>2 DEF TypeOK
  <2>. QED
    BY <2>1, <2>2 DEF PairPhone
<1>3. /\ rpc'[r0] = "idle" /\ rclient'[r0] = NoClient
      /\ \A r \in Requests : r # r0 =>
            rpc'[r] = rpc[r] /\ rname'[r] = rname[r] /\ rclient'[r] = rclient[r]
  BY <1>t DEF PairPhone, Answer, TypeOK
<1>4. proc = "up"
  BY <1>t, <1>1, Alive
<1>5. TypeOK'
  <2>1. /\ rpc' \in [Requests -> {"idle", "insert", "register", "connect", "disconnect",
                                  "logout", "delete", "pair"}]
        /\ rname' \in [Requests -> Names \cup {NoName}]
        /\ rclient' \in [Requests -> Clients \cup {NoClient}]
    BY <1>t DEF PairPhone, Answer, TypeOK
  <2>. QED
    BY <1>t, <1>u, <1>2, <2>1 DEF TypeOK
<1>6. NamedInv'
  BY <1>t, <1>u, <1>1, <1>2, <1>3 DEF NamedInv
<1>7. HeldInv'
  BY <1>t, <1>u, <1>3 DEF HeldInv
<1>8. DownInv' /\ OneOwnerInv' /\ DeviceInv' /\ PairingKept' /\ NoOrphan'
  BY <1>t, <1>u, <1>4 DEF DownInv, OneOwnerInv, DeviceInv, PairingKept, NoOrphan
<1>9. BindInv' /\ RowInv'
  BY <1>t, <1>u, <1>1, <1>3 DEF BindInv, RowInv, Removing
<1>10. NameExclusive'
  BY <1>t, <1>u, <1>1, <1>3 DEF NameExclusive, Holds
<1>11. NoStray'
  BY <1>t, <1>u, <1>1, <1>2, <1>3 DEF NoStray, TypeOK
<1>. QED
  BY <1>5, <1>6, <1>7, <1>8, <1>9, <1>10, <1>11 DEF IInv

(***************************************************************************)
(* Unlinking a connected client, whatever else the step records of it.     *)
(***************************************************************************)
LEMMA UnlinkInv ==
    ASSUME IInv, NEW c0 \in online, id[c0] # NoJid, Unlink(c0),
           UNCHANGED <<proc, sessions, name, rows, requestVars, bind, lnew, exits, faults, history>>,
           lpc' = lpc \/ (lpc[c0] = "none" /\ lpc' = [lpc EXCEPT ![c0] = "check"])
    PROVE  IInv'
<1>t. /\ TypeOK /\ NamedInv /\ HeldInv /\ DownInv /\ OneOwnerInv /\ DeviceInv /\ BindInv
      /\ RowInv /\ NameExclusive /\ NoStray /\ PairingKept /\ NoOrphan
  BY DEF IInv
<1>u. UNCHANGED <<rpc, rname, rclient, overtaken, loose, left>>
  BY DEF requestVars, history
<1>1. c0 \in Clients /\ name[c0] \in Names
  BY <1>t DEF TypeOK, NamedInv
<1>2. /\ devices' = devices \ {id[c0]} /\ online' = online \ {c0}
      /\ id'[c0] = NoJid /\ bind[c0] \notin devices'
      /\ \A c \in Clients : c # c0 => id'[c] = id[c] /\ id[c] # id[c0]
      /\ id' \in [Clients -> Jids \cup {NoJid}]
  BY <1>t, <1>1, UnlinkDevice
<1>3. /\ lpc'[c0] = lpc[c0] \/ lpc'[c0] = "check"
      /\ \A c \in Clients : c # c0 => lpc'[c] = lpc[c]
      /\ lpc' \in [Clients -> {"none", "check", "stop", "reset", "connect"}]
  BY <1>t, <1>1 DEF TypeOK
<1>4. proc = "up"
  BY <1>t, <1>1, Alive
<1>5. TypeOK'
  BY <1>t, <1>u, <1>2, <1>3 DEF TypeOK
<1>6. NamedInv'
  BY <1>t, <1>u, <1>1, <1>2, <1>3 DEF NamedInv
<1>7. HeldInv'
  BY <1>t, <1>u, <1>1, <1>3 DEF HeldInv
<1>8. DownInv' /\ OneOwnerInv' /\ NoOrphan'
  BY <1>t, <1>u, <1>2, <1>4, ManagerAssumption DEF DownInv, OneOwnerInv, NoOrphan
<1>9. DeviceInv'
  BY <1>t, <1>u, <1>2 DEF DeviceInv, TypeOK
<1>10. BindInv'
  BY <1>t, <1>u, <1>2 DEF BindInv, Removing
<1>11. RowInv'
  BY <1>t, <1>u, <1>2 DEF RowInv, Removing
<1>12. NameExclusive'
  BY <1>t, <1>u DEF NameExclusive, Holds
<1>13. NoStray'
  BY <1>t, <1>u, <1>2, <1>3 DEF NoStray, TypeOK
<1>14. PairingKept'
  BY <1>t, <1>u, <1>2 DEF PairingKept, TypeOK
<1>. QED
  BY <1>5, <1>6, <1>7, <1>8, <1>9, <1>10, <1>11, <1>12, <1>13, <1>14 DEF IInv

LEMMA LogoutInv ==
    ASSUME IInv, NEW c0 \in Clients, Logout(c0)
    PROVE  IInv'
<1>1. /\ c0 \in online /\ id[c0] # NoJid /\ Unlink(c0)
      /\ lpc' = lpc \/ (lpc[c0] = "none" /\ lpc' = [lpc EXCEPT ![c0] = "check"])
  BY DEF Logout, restartVars
<1>2. UNCHANGED <<proc, sessions, name, rows, requestVars, bind, lnew, exits, faults, history>>
  BY DEF Logout, restartVars
<1>. QED
  BY <1>1, <1>2, UnlinkInv

LEMMA LoggedOutInv ==
    ASSUME IInv, NEW c0 \in Clients, LoggedOut(c0)
    PROVE  IInv'
BY UnlinkInv DEF LoggedOut

LEMMA PairInv ==
    ASSUME IInv, NEW c0 \in Clients, Pair(c0)
    PROVE  IInv'
<1>t. /\ TypeOK /\ NamedInv /\ HeldInv /\ DownInv /\ OneOwnerInv /\ DeviceInv /\ BindInv
      /\ RowInv /\ NameExclusive /\ NoStray /\ PairingKept /\ NoOrphan
  BY DEF IInv
<1>u. UNCHANGED <<proc, sessions, name, online, rows, rpc, rname, rclient, lpc, lnew, exits,
                  faults, overtaken, left>>
  BY DEF Pair, requestVars, restartVars
<1>1. PICK j \in Jids \ (devices \cup loose) :
        /\ \A n \in Names : rows[n] # j
        /\ \A d \in Clients : bind[d] # j /\ id[d] # j
        /\ id' = [id EXCEPT ![c0] = j]
        /\ devices' = devices \cup {j}
        /\ bind' = [bind EXCEPT ![c0] = j]
        /\ loose' = IF sessions[name[c0]] = c0 THEN loose ELSE loose \cup {j}
  BY DEF Pair
<1>2. /\ c0 \in online /\ id[c0] = NoJid /\ bind[c0] = NoJid /\ name[c0] \in Names
      /\ id'[c0] = j /\ bind'[c0] = j
      /\ \A c \in Clients : c # c0 => id'[c] = id[c] /\ bind'[c] = bind[c]
  BY <1>t, <1>1 DEF Pair, TypeOK, NamedInv
<1>3. loose \subseteq loose' /\ (j \in loose' \/ sessions[name[c0]] = c0)
  BY <1>1
<1>4. proc = "up"
  BY <1>t, <1>2, Alive
<1>5. TypeOK'
  <2>1. /\ id' \in [Clients -> Jids \cup {NoJid}] /\ bind' \in [Clients -> Jids \cup {NoJid}]
        /\ devices' \in SUBSET Jids /\ loose' \in SUBSET Jids
    BY <1>t, <1>1 DEF TypeOK
  <2>. QED
    BY <1>t, <1>u, <2>1 DEF TypeOK
<1>6. NamedInv' /\ HeldInv'
  BY <1>t, <1>u, <1>2 DEF NamedInv, HeldInv
<1>7. DownInv'
  BY <1>u, <1>4 DEF DownInv
<1>8. OneOwnerInv'
  BY <1>t, <1>u, <1>1, <1>2, ManagerAssumption DEF OneOwnerInv
<1>9. DeviceInv'
  BY <1>t, <1>u, <1>1, <1>2 DEF DeviceInv, TypeOK
<1>10. BindInv'
  BY <1>t, <1>u, <1>1, <1>2, <1>3 DEF BindInv, Removing
<1>11. RowInv'
  BY <1>t, <1>u, <1>1, <1>2, <1>3, ManagerAssumption DEF RowInv, Removing, TypeOK
<1>12. NameExclusive' /\ NoStray'
  BY <1>t, <1>u DEF NameExclusive, Holds, NoStray
<1>13. PairingKept'
  BY <1>t, <1>u, <1>2, <1>3 DEF PairingKept, TypeOK
<1>14. NoOrphan'
  BY <1>t, <1>u, <1>1, <1>2, <1>3, ManagerAssumption DEF NoOrphan, TypeOK
<1>. QED
  BY <1>5, <1>6, <1>7, <1>8, <1>9, <1>10, <1>11, <1>12, <1>13, <1>14 DEF IInv

(***************************************************************************)
(* The write of a binding that finds no row loses nothing: the session was *)
(* removed, and its device with it.                                        *)
(***************************************************************************)
LEMMA BoundNowhere ==
    ASSUME IInv, NEW c0 \in Clients, bind[c0] # NoJid, rows[name[c0]] = NoRow
    PROVE  bind[c0] \notin devices \ loose
<1>t. TypeOK /\ NamedInv /\ NameExclusive /\ BindInv
  BY DEF IInv
<1>1. name[c0] \in Names
  BY <1>t DEF NamedInv
<1> SUFFICES ASSUME bind[c0] \in devices \ loose PROVE FALSE
  OBVIOUS
<1>2. sessions[name[c0]] # c0
  BY <1>t, <1>1, ManagerAssumption DEF NameExclusive
<1>3. PICK r \in Requests : rpc[r] \in {"disconnect", "logout"} /\ rclient[r] = c0
  BY <1>t, <1>2 DEF BindInv, Removing
<1>4. Holds(r, name[c0])
  BY <1>t, <1>3, ManagerAssumption DEF NamedInv, Holds
<1>. QED
  BY <1>t, <1>1, <1>4, HeldName

LEMMA bindJIDInv ==
    ASSUME IInv, NEW c0 \in Clients, bindJID(c0)
    PROVE  IInv'
<1>t. /\ TypeOK /\ NamedInv /\ HeldInv /\ DownInv /\ OneOwnerInv /\ DeviceInv /\ BindInv
      /\ RowInv /\ NameExclusive /\ NoStray /\ PairingKept /\ NoOrphan
  BY DEF IInv
<1>u. UNCHANGED <<proc, sessions, name, id, online, devices, rpc, rname, rclient, lpc, lnew,
                  exits, overtaken, left>>
  BY DEF bindJID, clientVars, requestVars, restartVars
<1> DEFINE n0 == name[c0]
           j0 == bind[c0]
<1>1. n0 \in Names /\ j0 \in Jids
  BY <1>t DEF bindJID, NamedInv, TypeOK
<1>2. bind'[c0] = NoJid /\ \A c \in Clients : c # c0 => bind'[c] = bind[c]
  BY <1>t DEF bindJID, TypeOK
<1>3. \/ /\ rows' = rows
         /\ loose' = loose \cup {j0} \/ (loose' = loose /\ rows[n0] = NoRow)
      \/ /\ rows[n0] # NoRow
         /\ rows'[n0] = j0 /\ \A n \in Names : n # n0 => rows'[n] = rows[n]
         /\ loose' = loose \cup Overwritten(n0, j0)
  BY <1>t, <1>1 DEF bindJID, TypeOK
<1>4. /\ loose \subseteq loose'
      /\ \/ rows' = rows /\ (j0 \in devices => j0 \in loose')
         \/ /\ rows[n0] # NoRow
            /\ rows'[n0] = j0 /\ \A n \in Names : n # n0 => rows'[n] = rows[n]
            /\ rows[n0] \in devices /\ rows[n0] # j0 => rows[n0] \in loose'
  BY <1>t, <1>1, <1>3, BoundNowhere DEF Overwritten, bindJID
<1>5. proc = "up"
  BY <1>t, <1>1, Alive, ManagerAssumption
<1>6. TypeOK'
  <2>1. rows' \in [Names -> Jids \cup {NoJid, NoRow}] /\ bind' \in [Clients -> Jids \cup {NoJid}]
    BY <1>t, <1>1 DEF bindJID, TypeOK
  <2>2. faults' \in Nat
    BY <1>t DEF bindJID, DbCall, TypeOK
  <2>3. loose' \in SUBSET Jids
    BY <1>t, <1>1, <1>3 DEF Overwritten, TypeOK
  <2>. QED
    BY <1>t, <1>u, <2>1, <2>2, <2>3 DEF TypeOK
<1>7. NamedInv' /\ HeldInv'
  BY <1>t, <1>u, <1>2 DEF NamedInv, HeldInv
<1>8. DownInv'
  BY <1>u, <1>5 DEF DownInv
<1>9. OneOwnerInv'
  BY <1>t, <1>u, <1>1, <1>2, <1>4, ManagerAssumption DEF OneOwnerInv
<1>10. DeviceInv'
  BY <1>t, <1>u, <1>2, ManagerAssumption DEF DeviceInv, TypeOK
<1>11. BindInv'
  BY <1>t, <1>u, <1>2, <1>4, ManagerAssumption DEF BindInv, Removing, TypeOK
<1>12. RowInv'
  <2> SUFFICES ASSUME NEW n \in Names, rows'[n] \in devices \ loose'
               PROVE  \E c \in Clients : /\ name[c] = n /\ id[c] = rows'[n]
                                         /\ sessions[n] = c \/ Removing(c)
    BY <1>u DEF RowInv, Removing
  <2>1. CASE rows'[n] = rows[n]
    BY <1>t, <1>4, <1>5, <2>1 DEF RowInv
  <2>2. CASE n = n0 /\ rows'[n] = j0
    <3>1. id[c0] = j0
      BY <1>t, <2>2 DEF DeviceInv
    <3>2. sessions[n] = c0 \/ Removing(c0)
      BY <1>t, <1>4, <2>2 DEF BindInv
    <3>. QED
      BY <2>2, <3>1, <3>2
  <2>. QED
    BY <1>4, <2>1, <2>2
<1>13. NameExclusive'
  BY <1>t, <1>u, <1>1, <1>4, ManagerAssumption DEF NameExclusive, Holds
<1>14. NoStray'
  BY <1>t, <1>u DEF NoStray
<1>15. PairingKept'
  <2> SUFFICES ASSUME NEW n \in Names, sessions[n] # NoClient, id[sessions[n]] # NoJid
               PROVE  id[sessions[n]] \in {rows'[n], bind'[sessions[n]]} \cup loose'
    BY <1>u DEF PairingKept
  <2> DEFINE c == sessions[n]
  <2>1. /\ c \in Clients /\ name[c] = n /\ id[c] \in {rows[n], bind[c]} \cup loose
        /\ id[c] \in devices /\ (bind[c] # NoJid => id[c] = bind[c])
    BY <1>t DEF PairingKept, NamedInv, DeviceInv, TypeOK
  <2>2. CASE c = c0
    BY <1>1, <1>4, <2>1, <2>2, ManagerAssumption
  <2>3. CASE c # c0
    BY <1>t, <1>2, <1>4, <2>1, <2>3 DEF OneOwnerInv
  <2>. QED
    BY <2>2, <2>3
<1>16. NoOrphan'
  BY <1>t, <1>u, <1>1, <1>2, <1>4 DEF NoOrphan
<1>. QED
  BY <1>6, <1>7, <1>8, <1>9, <1>10, <1>11, <1>12, <1>13, <1>14, <1>15, <1>16 DEF IInv

-------------------------------------------------------------------------------
(***************************************************************************)
(* The steps of restartPairing.                                            *)
(***************************************************************************)
LEMMA RestartSwapInv ==
    ASSUME IInv, NEW c0 \in Clients, RestartSwap(c0)
    PROVE  IInv'
<1>t. /\ TypeOK /\ NamedInv /\ HeldInv /\ DownInv /\ OneOwnerInv /\ DeviceInv /\ BindInv
      /\ RowInv /\ NameExclusive /\ NoStray /\ PairingKept /\ NoOrphan
  BY DEF IInv
<1>u. UNCHANGED <<proc, online, rows, devices, rpc, rname, rclient, bind, exits, faults, left>>
  BY DEF RestartSwap, storeVars, requestVars
<1> DEFINE n0 == name[c0]
<1>1. n0 \in Names /\ lpc[c0] = "check"
  BY <1>t DEF RestartSwap, NamedInv
<1>2. proc = "up"
  BY <1>t, <1>1, Alive
<1>3. CASE sessions[n0] # c0
  <2>u. UNCHANGED <<name, id, overtaken, sessions, lnew, loose>>
    BY <1>3 DEF RestartSwap
  <2>1. lpc'[c0] = "none" /\ \A c \in Clients : c # c0 => lpc'[c] = lpc[c]
    BY <1>t, <1>3 DEF RestartSwap, TypeOK
  <2>2. TypeOK'
    <3>1. lpc' \in [Clients -> {"none", "check", "stop", "reset", "connect"}]
      BY <1>t, <1>3 DEF RestartSwap, TypeOK
    <3>. QED
      BY <1>t, <1>u, <2>u, <3>1 DEF TypeOK
  <2>3. NamedInv' /\ HeldInv'
    BY <1>t, <1>u, <2>u, <2>1 DEF NamedInv, HeldInv
  <2>4. DownInv' /\ OneOwnerInv' /\ DeviceInv' /\ PairingKept' /\ NoOrphan'
    BY <1>t, <1>u, <1>2, <2>u DEF DownInv, OneOwnerInv, DeviceInv, PairingKept, NoOrphan
  <2>5. BindInv' /\ RowInv' /\ NameExclusive'
    BY <1>t, <1>u, <2>u DEF BindInv, RowInv, Removing, NameExclusive, Holds
  <2>6. NoStray'
    BY <1>t, <1>u, <1>1, <2>u, <2>1 DEF NoStray, TypeOK
  <2>. QED
    BY <2>2, <2>3, <2>4, <2>5, <2>6 DEF IInv
<1>4. CASE sessions[n0] = c0
  <2>0. PICK d \in Clients :
          /\ New(d, n0)
          /\ lpc' = [lpc EXCEPT ![c0] = "stop"]
          /\ lnew' = [lnew EXCEPT ![c0] = d]
          /\ loose' = (loose \cup {id[c0]}) \ {NoJid}
    BY <1>4 DEF RestartSwap
  <2>n. /\ d \notin online /\ bind[d] = NoJid /\ lpc[d] = "none"
        /\ \A m \in Names : sessions[m] # d
        /\ \A r \in Requests : rclient[r] # d
        /\ \A c \in Clients : lnew[c] # d
        /\ name'[d] = n0 /\ id'[d] = NoJid /\ sessions'[n0] = d
        /\ \A c \in Clients : c # d =>
              name'[c] = name[c] /\ id'[c] = id[c] /\ (c \in overtaken' <=> c \in overtaken)
        /\ \A m \in Names : m # n0 => sessions'[m] = sessions[m]
        /\ name' \in [Clients -> Names \cup {NoName}]
        /\ id' \in [Clients -> Jids \cup {NoJid}]
        /\ sessions' \in [Names -> Clients \cup {NoClient}]
        /\ overtaken' \in SUBSET Clients
    BY <1>t, <1>1, <2>0, NewClient
  <2>1. /\ lpc'[c0] = "stop" /\ lnew'[c0] = d
        /\ \A c \in Clients : c # c0 => lpc'[c] = lpc[c] /\ lnew'[c] = lnew[c]
    BY <1>t, <2>0 DEF TypeOK
  <2>2. loose \subseteq loose' /\ (id[c0] # NoJid => id[c0] \in loose')
    BY <1>t, <2>0, ManagerAssumption DEF TypeOK
  <2>3. c0 # d /\ \A n \in Names : n # n0 => sessions[n] # c0
    BY <1>t, <1>1, <1>4, <2>n, ManagerAssumption DEF NamedInv, TypeOK
  <2>4. TypeOK'
    <3>1. /\ lpc' \in [Clients -> {"none", "check", "stop", "reset", "connect"}]
          /\ lnew' \in [Clients -> Clients \cup {NoClient}]
          /\ loose' \in SUBSET Jids
      BY <1>t, <2>0 DEF TypeOK
    <3>. QED
      BY <1>t, <1>u, <2>n, <3>1 DEF TypeOK
  <2>5. NamedInv'
    BY <1>t, <1>u, <1>1, <2>n, <2>1 DEF NamedInv, TypeOK
  <2>6. HeldInv'
    BY <1>t, <1>u, <1>1, <2>n, <2>1, ManagerAssumption DEF HeldInv
  <2>7. DownInv'
    BY <1>u, <1>2 DEF DownInv
  <2>8. OneOwnerInv'
    BY <1>t, <1>u, <2>n DEF OneOwnerInv
  <2>9. DeviceInv'
    BY <1>t, <1>u, <2>n, ManagerAssumption DEF DeviceInv, TypeOK
  <2>10. BindInv'
    <3> SUFFICES ASSUME NEW c \in Clients, bind[c] \in devices \ loose'
                 PROVE  sessions'[name'[c]] = c \/ Removing(c)'
      BY <1>u DEF BindInv
    <3>1. c # d /\ name'[c] = name[c] /\ name[c] \in Names /\ id[c] = bind[c] /\ bind[c] # NoJid
      BY <1>t, <2>n, ManagerAssumption DEF TypeOK, NamedInv, DeviceInv
    <3>2. c # c0
      BY <2>2, <3>1
    <3>3. Removing(c) => Removing(c)'
      BY <1>u DEF Removing
    <3>4. sessions[name[c]] = c => sessions'[name[c]] = c
      BY <1>4, <2>n, <3>1, <3>2
    <3>. QED
      BY <1>t, <2>2, <3>1, <3>3, <3>4 DEF BindInv
  <2>11. RowInv'
    <3> SUFFICES ASSUME NEW n \in Names, rows[n] \in devices \ loose'
                 PROVE  \E c \in Clients : /\ name'[c] = n /\ id'[c] = rows[n]
                                           /\ sessions'[n] = c \/ Removing(c)'
      BY <1>u DEF RowInv
    <3>1. PICK c \in Clients : /\ name[c] = n /\ id[c] = rows[n]
                               /\ sessions[n] = c \/ Removing(c)
      BY <1>t, <1>2, <2>2 DEF RowInv
    <3>2. c # d
      BY <2>n, <3>1 DEF Removing
    <3>3. rows[n] # NoJid
      BY <1>t, ManagerAssumption DEF TypeOK
    <3>4. c # c0
      BY <2>2, <3>1, <3>3
    <3>5. Removing(c) => Removing(c)'
      BY <1>u DEF Removing
    <3>. QED
      BY <1>4, <2>n, <3>1, <3>2, <3>4, <3>5
  <2>12. NameExclusive'
    BY <1>t, <1>u, <1>1, <1>4, <2>n, ManagerAssumption DEF NameExclusive, Holds
  <2>13. NoStray'
    <3> SUFFICES ASSUME NEW c \in online
                 PROVE  NoStray!(c)'
      BY <1>u DEF NoStray
    <3>1. c \in Clients /\ c # d /\ name'[c] = name[c] /\ name[c] \in Names
      BY <1>t, <2>n DEF TypeOK, NamedInv
    <3>2. c # c0 /\ sessions[name[c]] = c => sessions'[name[c]] = c
      BY <1>t, <1>4, <2>n, <3>1
    <3>. QED
      BY <1>t, <1>u, <2>n, <2>1, <3>1, <3>2 DEF NoStray
  <2>14. PairingKept'
    BY <1>t, <1>u, <2>n, <2>2 DEF PairingKept, TypeOK
  <2>15. NoOrphan'
    BY <1>t, <1>u, <2>2 DEF NoOrphan
  <2>. QED
    BY <2>4, <2>5, <2>6, <2>7, <2>8, <2>9, <2>10, <2>11, <2>12, <2>13, <2>14, <2>15 DEF IInv
<1>. QED
  BY <1>3, <1>4

LEMMA RestartStopInv ==
    ASSUME IInv, NEW c0 \in Clients, RestartStop(c0)
    PROVE  IInv'
<1>t. /\ TypeOK /\ NamedInv /\ HeldInv /\ DownInv /\ OneOwnerInv /\ DeviceInv /\ BindInv
      /\ RowInv /\ NameExclusive /\ NoStray /\ PairingKept /\ NoOrphan
  BY DEF IInv
<1>u. UNCHANGED <<proc, sessions, name, id, rows, devices, rpc, rname, rclient, bind, lnew,
                  exits, faults, overtaken, loose, left>>
  BY DEF RestartStop, storeVars, requestVars, history
<1>1. /\ lpc[c0] = "stop" /\ lpc'[c0] = "reset"
      /\ \A c \in Clients : c # c0 => lpc'[c] = lpc[c]
  BY <1>t DEF RestartStop, TypeOK
<1>2. online' = online \ {c0}
  BY DEF RestartStop
<1>3. proc = "up"
  BY <1>t, <1>1, Alive
<1>4. TypeOK'
  <2>1. lpc' \in [Clients -> {"none", "check", "stop", "reset", "connect"}]
    BY <1>t DEF RestartStop, TypeOK
  <2>. QED
    BY <1>t, <1>u, <1>2, <2>1 DEF TypeOK
<1>5. NamedInv' /\ HeldInv'
  BY <1>t, <1>u, <1>1, <1>2 DEF NamedInv, HeldInv
<1>6. DownInv' /\ OneOwnerInv' /\ DeviceInv' /\ PairingKept' /\ NoOrphan'
  BY <1>t, <1>u, <1>3 DEF DownInv, OneOwnerInv, DeviceInv, PairingKept, NoOrphan
<1>7. BindInv' /\ RowInv' /\ NameExclusive'
  BY <1>t, <1>u DEF BindInv, RowInv, Removing, NameExclusive, Holds
<1>8. NoStray'
  BY <1>t, <1>u, <1>1, <1>2 DEF NoStray, TypeOK
<1>. QED
  BY <1>4, <1>5, <1>6, <1>7, <1>8 DEF IInv

LEMMA RestartResetInv ==
    ASSUME IInv, NEW c0 \in Clients, RestartReset(c0)
    PROVE  IInv'
<1>t. /\ TypeOK /\ NamedInv /\ HeldInv /\ DownInv /\ OneOwnerInv /\ DeviceInv /\ BindInv
      /\ RowInv /\ NameExclusive /\ NoStray /\ PairingKept /\ NoOrphan
  BY DEF IInv
<1>u. UNCHANGED <<proc, sessions, name, id, online, devices, rpc, rname, rclient, bind, lnew,
                  exits, overtaken, left>>
  BY DEF RestartReset, clientVars, requestVars
<1> DEFINE n0 == name[c0]
<1>1. /\ n0 \in Names /\ lpc[c0] = "reset" /\ lpc'[c0] = "connect"
      /\ \A c \in Clients : c # c0 => lpc'[c] = lpc[c]
  BY <1>t DEF RestartReset, NamedInv, TypeOK
<1>2. /\ loose \subseteq loose'
      /\ \/ rows' = rows
         \/ /\ rows[n0] # NoRow
            /\ rows'[n0] = NoJid /\ \A n \in Names : n # n0 => rows'[n] = rows[n]
            /\ rows[n0] \in devices => rows[n0] \in loose'
  <2>1. NoJid \notin devices
    BY <1>t, ManagerAssumption DEF TypeOK
  <2>. QED
    BY <1>t, <1>1, <2>1 DEF RestartReset, Overwritten, TypeOK
<1>3. proc = "up"
  BY <1>t, <1>1, Alive
<1>4. TypeOK'
  <2>1. /\ rows' \in [Names -> Jids \cup {NoJid, NoRow}]
        /\ lpc' \in [Clients -> {"none", "check", "stop", "reset", "connect"}]
    BY <1>t, <1>1 DEF RestartReset, TypeOK
  <2>2. faults' \in Nat
    BY <1>t DEF RestartReset, DbCall, TypeOK
  <2>3. loose' \in SUBSET Jids
    BY <1>t DEF RestartReset, Overwritten, TypeOK
  <2>. QED
    BY <1>t, <1>u, <2>1, <2>2, <2>3 DEF TypeOK
<1>5. NamedInv' /\ HeldInv'
  BY <1>t, <1>u, <1>1 DEF NamedInv, HeldInv
<1>6. DownInv' /\ DeviceInv'
  BY <1>t, <1>u, <1>3 DEF DownInv, DeviceInv
<1>7. OneOwnerInv'
  BY <1>t, <1>u, <1>2, ManagerAssumption DEF OneOwnerInv
<1>8. BindInv'
  BY <1>t, <1>u, <1>2 DEF BindInv, Removing
<1>9. RowInv'
  BY <1>t, <1>u, <1>2, ManagerAssumption DEF RowInv, Removing, TypeOK
<1>10. NameExclusive'
  BY <1>t, <1>u, <1>1, <1>2, ManagerAssumption DEF NameExclusive, Holds
<1>11. NoStray'
  BY <1>t, <1>u, <1>1 DEF NoStray, TypeOK
<1>12. PairingKept'
  BY <1>t, <1>u, <1>2 DEF PairingKept, DeviceInv
<1>13. NoOrphan'
  BY <1>t, <1>u, <1>2 DEF NoOrphan
<1>. QED
  BY <1>4, <1>5, <1>6, <1>7, <1>8, <1>9, <1>10, <1>11, <1>12, <1>13 DEF IInv

LEMMA RestartConnectInv ==
    ASSUME IInv, NEW c0 \in Clients, RestartConnect(c0)
    PROVE  IInv'
<1>t. /\ TypeOK /\ NamedInv /\ HeldInv /\ DownInv /\ OneOwnerInv /\ DeviceInv /\ BindInv
      /\ RowInv /\ NameExclusive /\ NoStray /\ PairingKept /\ NoOrphan
  BY DEF IInv
<1>u. UNCHANGED <<proc, sessions, name, id, rows, devices, rpc, rname, rclient, bind,
                  exits, faults, loose, left>>
  BY DEF RestartConnect, storeVars, requestVars
<1> DEFINE d0 == lnew[c0]
<1>1. lpc[c0] = "connect" /\ d0 \in Clients /\ name[d0] \in Names
  BY <1>t DEF RestartConnect, HeldInv, NamedInv, TypeOK
<1>2. /\ online' \in SUBSET Clients /\ overtaken' \in SUBSET Clients
      /\ \A c \in Clients : c # d0 => (c \in online' <=> c \in online)
      /\ \A c \in Clients : c \in overtaken => c \in overtaken'
      /\ \/ d0 \in online' /\ (sessions[name[d0]] = d0 \/ d0 \in overtaken')
         \/ d0 \in online' <=> d0 \in online
  BY <1>t, <1>1, ConnectStray DEF RestartConnect
<1>3. /\ lpc'[c0] = "none" /\ lnew'[c0] = NoClient
      /\ \A c \in Clients : c # c0 => lpc'[c] = lpc[c] /\ lnew'[c] = lnew[c]
  BY <1>t DEF RestartConnect, TypeOK
<1>4. proc = "up"
  BY <1>t, <1>1, Alive
<1>5. TypeOK'
  <2>1. /\ lpc' \in [Clients -> {"none", "check", "stop", "reset", "connect"}]
        /\ lnew' \in [Clients -> Clients \cup {NoClient}]
    BY <1>t DEF RestartConnect, TypeOK
  <2>. QED
    BY <1>t, <1>u, <1>2, <2>1 DEF TypeOK
<1>6. NamedInv'
  BY <1>t, <1>u, <1>1, <1>2, <1>3 DEF NamedInv
<1>7. HeldInv'
  BY <1>t, <1>u, <1>3 DEF HeldInv
<1>8. DownInv' /\ OneOwnerInv' /\ DeviceInv' /\ PairingKept' /\ NoOrphan'
  BY <1>t, <1>u, <1>4 DEF DownInv, OneOwnerInv, DeviceInv, PairingKept, NoOrphan
<1>9. BindInv' /\ RowInv' /\ NameExclusive'
  BY <1>t, <1>u DEF BindInv, RowInv, Removing, NameExclusive, Holds
<1>10. NoStray'
  BY <1>t, <1>u, <1>1, <1>2, <1>3 DEF NoStray, TypeOK
<1>. QED
  BY <1>5, <1>6, <1>7, <1>8, <1>9, <1>10 DEF IInv

-------------------------------------------------------------------------------
(***************************************************************************)
(* The steps of the process.                                               *)
(***************************************************************************)
LEMMA StartInv ==
    ASSUME IInv, Start
    PROVE  IInv'
<1>t. /\ TypeOK /\ NamedInv /\ HeldInv /\ DownInv /\ OneOwnerInv /\ DeviceInv /\ BindInv
      /\ RowInv /\ NameExclusive /\ NoStray /\ PairingKept /\ NoOrphan
  BY DEF IInv
<1>u. UNCHANGED <<devices, rpc, rname, rclient, bind, lpc, lnew, exits, faults,
                  overtaken, loose, left>>
  BY DEF Start, requestVars, restartVars, history
<1> DEFINE made == IF Known = {} THEN {Default} ELSE Known
<1>1. PICK of \in [made -> Clients], up \in SUBSET made :
        /\ \A m, n \in made : of[m] = of[n] => m = n
        /\ Known = {} => up = made
        /\ sessions' = [n \in Names |-> IF n \in made THEN of[n] ELSE NoClient]
        /\ name' = [c \in Clients |-> IF \E n \in made : of[n] = c
                                      THEN CHOOSE n \in made : of[n] = c ELSE NoName]
        /\ id' = [c \in Clients |-> IF \E n \in made : of[n] = c
                                    THEN findDevice(rows[CHOOSE n \in made : of[n] = c])
                                    ELSE NoJid]
        /\ online' = {of[n] : n \in up}
  BY DEF Start
<1>2. made \subseteq Names /\ proc = "down" /\ proc' = "up"
  BY ManagerAssumption DEF Known, Start
<1>3. /\ \A r \in Requests : rpc[r] = "idle" /\ rclient[r] = NoClient
      /\ \A c \in Clients : bind[c] = NoJid /\ lpc[c] = "none" /\ lnew[c] = NoClient
  BY <1>t, <1>2 DEF DownInv
<1>4. \A n \in Names : \/ rows'[n] = rows[n] /\ (rows[n] # NoRow <=> n \in made)
                       \/ n \in made /\ rows[n] = NoRow /\ rows'[n] = NoJid
  BY <1>t, ManagerAssumption DEF Start, Known, TypeOK
<1> HIDE DEF made
<1>5. \A n \in made : (CHOOSE m \in made : of[m] = of[n]) = n
  BY <1>1
<1>6. \A n \in Names :
        \/ n \in made /\ sessions'[n] = of[n] /\ of[n] \in Clients
        \/ n \notin made /\ sessions'[n] = NoClient
  BY <1>1
<1>7. \A n \in made : name'[of[n]] = n /\ id'[of[n]] = findDevice(rows[n]) /\ of[n] \in Clients
  BY <1>1, <1>5
<1>8. \A c \in Clients : (\E n \in made : of[n] = c) \/ (name'[c] = NoName /\ id'[c] = NoJid)
  BY <1>1
<1>9. \A n \in made :
        \/ rows[n] \in devices /\ id'[of[n]] = rows[n] /\ rows'[n] = rows[n]
        \/ rows[n] \notin devices /\ id'[of[n]] = NoJid
  BY <1>t, <1>2, <1>4, <1>7, ManagerAssumption DEF findDevice, TypeOK
<1>10. TypeOK'
  <2>1. sessions' \in [Names -> Clients \cup {NoClient}]
    BY <1>1
  <2>2. \A c \in Clients : name'[c] \in Names \cup {NoName}
    BY <1>2, <1>7, <1>8
  <2>3. \A c \in Clients : id'[c] \in Jids \cup {NoJid}
    BY <1>t, <1>8, <1>9 DEF TypeOK
  <2>4. name' \in [Clients -> Names \cup {NoName}] /\ id' \in [Clients -> Jids \cup {NoJid}]
    <3>1. name' = [c \in Clients |-> name'[c]] /\ id' = [c \in Clients |-> id'[c]]
      BY <1>1
    <3>. QED
      BY <2>2, <2>3, <3>1
  <2>5. online' \in SUBSET Clients
    BY <1>1
  <2>6. rows' \in [Names -> Jids \cup {NoJid, NoRow}]
    BY <1>t DEF Start, TypeOK
  <2>. QED
    BY <1>t, <1>u, <1>2, <2>1, <2>4, <2>5, <2>6 DEF TypeOK
<1>11. NamedInv'
  <2>1. \A c \in online' : name'[c] \in Names
    BY <1>1, <1>2, <1>7
  <2>2. \A n \in Names : sessions'[n] # NoClient => name'[sessions'[n]] = n
    BY <1>6, <1>7
  <2>. QED
    BY <1>u, <1>3, <2>1, <2>2 DEF NamedInv
<1>12. HeldInv'
  BY <1>t, <1>u, <1>3 DEF HeldInv
<1>13. DownInv'
  BY <1>2 DEF DownInv
<1>14. OneOwnerInv'
  <2>1. \A c, d \in Clients : id'[c] = id'[d] /\ id'[c] # NoJid => c = d
    <3> SUFFICES ASSUME NEW c \in Clients, NEW d \in Clients, id'[c] = id'[d], id'[c] # NoJid
                 PROVE  c = d
      OBVIOUS
    <3>1. PICK m \in made, n \in made : of[m] = c /\ of[n] = d
      BY <1>8
    <3>2. rows[m] = rows[n] /\ rows[m] \in Jids
      BY <1>t, <1>9, <3>1 DEF TypeOK
    <3>. QED
      BY <1>t, <1>2, <3>1, <3>2 DEF OneOwnerInv
  <2>2. \A m, n \in Names : rows'[m] = rows'[n] /\ rows'[m] \in Jids => m = n
    BY <1>t, <1>4, ManagerAssumption DEF OneOwnerInv
  <2>. QED
    BY <1>u, <1>3, <2>1, <2>2 DEF OneOwnerInv
<1>15. DeviceInv'
  BY <1>t, <1>u, <1>3, <1>6, <1>9, ManagerAssumption DEF DeviceInv, TypeOK
<1>16. BindInv'
  BY <1>t, <1>u, <1>3, ManagerAssumption DEF BindInv, TypeOK
<1>17. RowInv'
  <2> SUFFICES ASSUME NEW n \in Names, rows'[n] \in devices
               PROVE  \E c \in Clients : name'[c] = n /\ id'[c] = rows'[n] /\ sessions'[n] = c
    BY <1>u DEF RowInv
  <2>1. rows'[n] # NoRow /\ rows'[n] # NoJid
    BY <1>t, ManagerAssumption DEF TypeOK
  <2>2. n \in made /\ rows'[n] = rows[n]
    BY <1>4, <2>1
  <2>. QED
    BY <1>6, <1>7, <1>9, <2>2
<1>18. NameExclusive'
  BY <1>t, <1>u, <1>3, <1>4, <1>6, ManagerAssumption DEF NameExclusive, Holds, TypeOK
<1>19. NoStray'
  <2>1. \A c \in online' : sessions'[name'[c]] = c
    BY <1>1, <1>2, <1>6, <1>7
  <2>. QED
    BY <2>1 DEF NoStray
<1>20. PairingKept'
  BY <1>6, <1>9 DEF PairingKept
<1>21. NoOrphan'
  BY <1>t, <1>u, <1>4, ManagerAssumption DEF NoOrphan, TypeOK
<1>. QED
  BY <1>10, <1>11, <1>12, <1>13, <1>14, <1>15, <1>16, <1>17, <1>18, <1>19, <1>20, <1>21 DEF IInv

LEMMA StartFailsInv ==
    ASSUME IInv, StartFails
    PROVE  IInv'
<1>t. /\ TypeOK /\ NamedInv /\ HeldInv /\ DownInv /\ OneOwnerInv /\ DeviceInv /\ BindInv
      /\ RowInv /\ NameExclusive /\ NoStray /\ PairingKept /\ NoOrphan
  BY DEF IInv
<1>u. UNCHANGED <<proc, sessions, name, id, online, devices, rpc, rname, rclient, bind, lpc, lnew,
                  exits, faults, overtaken, loose, left>>
  BY DEF StartFails, clientVars, requestVars, restartVars, history
<1>1. proc = "down" /\ \A n \in Names : rows[n] = NoRow
  BY DEF StartFails, Known
<1>2. \A n \in Names : rows'[n] = NoRow \/ rows'[n] = NoJid
  BY <1>t, <1>1 DEF StartFails, TypeOK
<1>3. \A n \in Names : sessions[n] = NoClient
  BY <1>t, <1>1 DEF DownInv
<1>4. TypeOK'
  <2>1. rows' \in [Names -> Jids \cup {NoJid, NoRow}]
    BY <1>t DEF StartFails, TypeOK
  <2>. QED
    BY <1>t, <1>u, <2>1 DEF TypeOK
<1>5. NamedInv' /\ HeldInv' /\ DownInv' /\ DeviceInv'
  BY <1>t, <1>u DEF NamedInv, HeldInv, DownInv, DeviceInv
<1>6. OneOwnerInv'
  BY <1>t, <1>u, <1>2, ManagerAssumption DEF OneOwnerInv, TypeOK
<1>7. BindInv' /\ NoStray'
  BY <1>t, <1>u DEF BindInv, Removing, NoStray
<1>8. RowInv'
  BY <1>u, <1>1 DEF RowInv
<1>9. NameExclusive'
  BY <1>t, <1>u, <1>1, <1>3 DEF NameExclusive, Holds
<1>10. PairingKept'
  BY <1>u, <1>3 DEF PairingKept
<1>11. NoOrphan'
  BY <1>t, <1>u, <1>1, ManagerAssumption DEF NoOrphan, TypeOK
<1>. QED
  BY <1>4, <1>5, <1>6, <1>7, <1>8, <1>9, <1>10, <1>11 DEF IInv

LEMMA ExitInv ==
    ASSUME IInv, Exit
    PROVE  IInv'
<1>t. /\ TypeOK /\ NamedInv /\ HeldInv /\ DownInv /\ OneOwnerInv /\ DeviceInv /\ BindInv
      /\ RowInv /\ NameExclusive /\ NoStray /\ PairingKept /\ NoOrphan
  BY DEF IInv
<1>u. UNCHANGED <<rows, devices, faults, left>>
  BY DEF Exit, storeVars
<1>1. /\ proc' = "down" /\ online' = {}
      /\ \A n \in Names : sessions'[n] = NoClient
      /\ \A r \in Requests : rpc'[r] = "idle" /\ rclient'[r] = NoClient
      /\ \A c \in Clients :
            id'[c] = NoJid /\ bind'[c] = NoJid /\ lpc'[c] = "none" /\ lnew'[c] = NoClient
  BY DEF Exit
<1>2. loose \subseteq loose' /\ \A c \in Clients : bind[c] # NoJid => bind[c] \in loose'
  BY DEF Exit
<1>3. TypeOK'
  <2>1. /\ sessions' \in [Names -> Clients \cup {NoClient}]
        /\ name' \in [Clients -> Names \cup {NoName}]
        /\ id' \in [Clients -> Jids \cup {NoJid}]
        /\ rpc' \in [Requests -> {"idle", "insert", "register", "connect", "disconnect",
                                  "logout", "delete", "pair"}]
        /\ rname' \in [Requests -> Names \cup {NoName}]
        /\ rclient' \in [Requests -> Clients \cup {NoClient}]
        /\ bind' \in [Clients -> Jids \cup {NoJid}]
        /\ lpc' \in [Clients -> {"none", "check", "stop", "reset", "connect"}]
        /\ lnew' \in [Clients -> Clients \cup {NoClient}]
    BY DEF Exit
  <2>2. exits' \in Nat /\ loose' \in SUBSET Jids /\ overtaken' = {}
    BY <1>t DEF Exit, TypeOK
  <2>. QED
    BY <1>t, <1>u, <1>1, <2>1, <2>2 DEF TypeOK
<1>4. NamedInv' /\ HeldInv'
  BY <1>1 DEF NamedInv, HeldInv
<1>5. DownInv'
  BY <1>1 DEF DownInv
<1>6. OneOwnerInv'
  BY <1>t, <1>u, <1>1 DEF OneOwnerInv
<1>7. DeviceInv' /\ BindInv'
  BY <1>t, <1>u, <1>1, ManagerAssumption DEF DeviceInv, BindInv, TypeOK
<1>8. RowInv'
  BY <1>1 DEF RowInv
<1>9. NameExclusive' /\ NoStray' /\ PairingKept'
  BY <1>1 DEF NameExclusive, Holds, NoStray, PairingKept
<1>10. NoOrphan'
  BY <1>t, <1>u, <1>2, ManagerAssumption DEF NoOrphan, TypeOK
<1>. QED
  BY <1>3, <1>4, <1>5, <1>6, <1>7, <1>8, <1>9, <1>10 DEF IInv

LEMMA StutterInv ==
    ASSUME IInv, UNCHANGED vars
    PROVE  IInv'
<1>t. /\ TypeOK /\ NamedInv /\ HeldInv /\ DownInv /\ OneOwnerInv /\ DeviceInv /\ BindInv
      /\ RowInv /\ NameExclusive /\ NoStray /\ PairingKept /\ NoOrphan
  BY DEF IInv
<1>u. UNCHANGED <<proc, sessions, name, id, online, rows, devices, rpc, rname, rclient, bind,
                  lpc, lnew, exits, faults, overtaken, loose, left>>
  BY DEF vars, clientVars, storeVars, requestVars, restartVars, history
<1>1. TypeOK'
  BY <1>t, <1>u DEF TypeOK
<1>2. NamedInv' /\ HeldInv' /\ DownInv' /\ OneOwnerInv' /\ DeviceInv'
  BY <1>t, <1>u DEF NamedInv, HeldInv, DownInv, OneOwnerInv, DeviceInv
<1>3. BindInv' /\ RowInv' /\ NameExclusive'
  BY <1>t, <1>u DEF BindInv, RowInv, Removing, NameExclusive, Holds
<1>4. NoStray' /\ PairingKept' /\ NoOrphan'
  BY <1>t, <1>u DEF NoStray, PairingKept, NoOrphan
<1>. QED
  BY <1>1, <1>2, <1>3, <1>4 DEF IInv

-------------------------------------------------------------------------------
LEMMA NextInv ==
    ASSUME IInv, [Next]_vars
    PROVE  IInv'
<1>1. CASE \E r \in Requests, n \in Names :
              CreateCheck(r, n) \/ RemoveBegin(r, n) \/ PairGet(r, n)
  BY <1>1, CreateCheckInv, RemoveBeginInv, PairGetInv
<1>2. CASE \E r \in Requests : CreateInsert(r) \/ CreateRegister(r) \/ CreateConnect(r)
  BY <1>2, CreateInsertInv, CreateRegisterInv, CreateConnectInv
<1>3. CASE \E r \in Requests :
              RemoveDisconnect(r) \/ RemoveLogout(r) \/ RemoveRow(r) \/ PairPhone(r)
  BY <1>3, RemoveDisconnectInv, RemoveLogoutInv, RemoveRowInv, PairPhoneInv
<1>4. CASE \E c \in Clients : Logout(c) \/ Pair(c) \/ bindJID(c) \/ LoggedOut(c)
  BY <1>4, LogoutInv, PairInv, bindJIDInv, LoggedOutInv
<1>5. CASE \E c \in Clients :
              RestartSwap(c) \/ RestartStop(c) \/ RestartReset(c) \/ RestartConnect(c)
  BY <1>5, RestartSwapInv, RestartStopInv, RestartResetInv, RestartConnectInv
<1>6. CASE Start \/ StartFails \/ Exit \/ UNCHANGED vars
  BY <1>6, StartInv, StartFailsInv, ExitInv, StutterInv
<1>. QED
  BY <1>1, <1>2, <1>3, <1>4, <1>5, <1>6 DEF Next

(***************************************************************************)
(* The inductive invariant holds of every behaviour of the manager.        *)
(***************************************************************************)
THEOREM Invariance == Spec => []IInv
<1>1. Init => IInv
  BY InitInv
<1>2. IInv /\ [Next]_vars => IInv'
  BY NextInv
<1>. QED
  BY <1>1, <1>2, PTL DEF Spec

(***************************************************************************)
(* Every variable of the session manager keeps its type.                   *)
(***************************************************************************)
THEOREM TypeCorrect == Spec => []TypeOK
<1>1. IInv => TypeOK
  BY DEF IInv
<1>. QED
  BY <1>1, Invariance, PTL

(***************************************************************************)
(* However many requests create and remove a session at the same time, and *)
(* whichever of their database calls fail: its name is in one hand, and    *)
(* has a row as long as it is.                                             *)
(***************************************************************************)
THEOREM OneHand == Spec => []NameExclusive
<1>1. IInv => NameExclusive
  BY DEF IInv
<1>. QED
  BY <1>1, Invariance, PTL

(***************************************************************************)
(* A connected client can be reached through the map, unless a request or  *)
(* a restart is about to disconnect it or connected it too late.           *)
(***************************************************************************)
THEOREM NoStrayClient == Spec => []NoStray
<1>1. IInv => NoStray
  BY DEF IInv
<1>. QED
  BY <1>1, Invariance, PTL

(***************************************************************************)
(* A restart finds the device of a paired session, but for a failed or     *)
(* late write.                                                             *)
(***************************************************************************)
THEOREM PairingSurvives == Spec => []PairingKept
<1>1. IInv => PairingKept
  BY DEF IInv
<1>. QED
  BY <1>1, Invariance, PTL

(***************************************************************************)
(* No credentials stay in the store that no session row points to, but for *)
(* a failed or late write.                                                 *)
(***************************************************************************)
THEOREM NoOrphanDevice == Spec => []NoOrphan
<1>1. IInv => NoOrphan
  BY DEF IInv
<1>. QED
  BY <1>1, Invariance, PTL

(***************************************************************************)
(* No step puts a client in the place of another that is in the map, but   *)
(* the restart of a pairing after a logout.                                *)
(***************************************************************************)
LEMMA StepBuriesNobody ==
    ASSUME IInv, [Next]_vars, NEW n \in Names,
           sessions[n] # NoClient, sessions'[n] # sessions[n]
    PROVE  sessions'[n] = NoClient \/ lpc[sessions[n]] = "check"
<1>t. TypeOK /\ NamedInv /\ HeldInv /\ DownInv /\ NameExclusive
  BY DEF IInv
<1>1. ASSUME NEW r \in Requests, CreateRegister(r)
      PROVE  FALSE
  <2>1. rname[r] \in Names /\ Holds(r, rname[r])
    BY <1>t, <1>1 DEF CreateRegister, HeldInv, Holds
  <2>2. sessions[rname[r]] = NoClient
    BY <1>t, <2>1, HeldName
  <2>3. \A m \in Names : m # rname[r] => sessions'[m] = sessions[m]
    BY <1>t, <1>1, <2>1, NewClient DEF CreateRegister
  <2>. QED
    BY <2>2, <2>3
<1>2. ASSUME NEW r \in Requests, NEW m \in Names, RemoveBegin(r, m)
      PROVE  sessions'[n] = NoClient
  BY <1>t, <1>2 DEF RemoveBegin, TypeOK
<1>3. ASSUME NEW c \in Clients, RestartSwap(c)
      PROVE  lpc[sessions[n]] = "check"
  <2>1. name[c] \in Names /\ lpc[c] = "check" /\ sessions[name[c]] = c
    BY <1>t, <1>3 DEF RestartSwap, NamedInv
  <2>2. \A m \in Names : m # name[c] => sessions'[m] = sessions[m]
    BY <1>t, <1>3, <2>1, NewClient DEF RestartSwap
  <2>. QED
    BY <2>1, <2>2
<1>4. CASE Start
  BY <1>t, <1>4 DEF Start, DownInv
<1>5. CASE Exit
  BY <1>5 DEF Exit
<1>6. ASSUME NEW r \in Requests, NEW m \in Names, CreateCheck(r, m) \/ PairGet(r, m)
      PROVE  sessions' = sessions
  BY <1>6 DEF CreateCheck, PairGet
<1>7. ASSUME NEW r \in Requests,
             \/ CreateInsert(r) \/ CreateConnect(r) \/ RemoveDisconnect(r)
             \/ RemoveLogout(r) \/ RemoveRow(r) \/ PairPhone(r)
      PROVE  sessions' = sessions
  BY <1>7 DEF CreateInsert, CreateConnect, RemoveDisconnect, RemoveLogout, RemoveRow, PairPhone
<1>8. ASSUME NEW c \in Clients,
             \/ Logout(c) \/ Pair(c) \/ bindJID(c) \/ LoggedOut(c)
             \/ RestartStop(c) \/ RestartReset(c) \/ RestartConnect(c)
      PROVE  sessions' = sessions
  BY <1>8 DEF Logout, Pair, bindJID, LoggedOut, RestartStop, RestartReset, RestartConnect
<1>9. CASE StartFails \/ UNCHANGED vars
  BY <1>9 DEF StartFails, vars
<1>. QED
  BY <1>1, <1>2, <1>3, <1>4, <1>5, <1>6, <1>7, <1>8, <1>9 DEF Next

(***************************************************************************)
(* A session in the map is replaced only because it was logged out.        *)
(***************************************************************************)
THEOREM NobodyBuried == Spec => NeverBuried
<1>1. IInv /\ [Next]_vars =>
        [\A n \in Names : sessions[n] # NoClient /\ sessions'[n] # sessions[n] =>
            sessions'[n] = NoClient \/ lpc[sessions[n]] = "check"]_vars
  BY StepBuriesNobody
<1>2. Spec => []IInv
  BY Invariance
<1>. QED
  BY <1>1, <1>2, PTL DEF Spec, NeverBuried
===============================================================================
