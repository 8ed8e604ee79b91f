----------------------------- MODULE MessageStore -----------------------------
(***************************************************************************)
(* The messages of one session in internal/gateway: store.go (rows, their  *)
(* status, retention, deletion), archive.go (chats opted in at run time,   *)
(* receipts per participant), mediastore.go (files), and the parts of      *)
(* session.go that record what is sent and received.                       *)
(*                                                                         *)
(* A file is told apart by the message it is of: its key is made from the  *)
(* session, the id and the type.  A status is its rank, from -1 (none) and *)
(* 0 (sent) to 3 (played).                                                 *)
(***************************************************************************)
EXTENDS Integers, FiniteSets

CONSTANTS
    Messages,
    Sent,           \* messages sent through the gateway; the others come as events
    FromMe,         \* messages of the account: Sent, and those sent from the phone
    WithMedia,      \* messages with an attachment
    Chats,
    ChatOf,         \* the chat of a message
    Participants,   \* who sends receipts
    Deliveries,     \* deliveries of one message that can be under way at once
    StoreMessages,  \* STORE_MESSAGES
    StoreMedia,     \* STORE_MEDIA
    Listed,         \* chats STORE_CHATS and STORE_CHATS_EXCLUDE let through
    Switches,       \* requests that turn the archive of a chat on or off
    NoRow,          \* no row in gw_messages
    NoReceipt,      \* no receipt is being handled
    Purger,         \* the retention, at the start and daily
    Remover,        \* deleteSession
    MaxEvents,      \* bound: message events and receipts handled
    MaxCleanings,   \* bound: purges and deletions
    MaxFaults       \* bound: calls that fail, and exits

Received == Messages \ Sent

Ranks == 1 .. 3
Cleaners == {Purger, Remover}
Row == [status : -1 .. 3, path : BOOLEAN]
Receipt == [id : Messages, participant : Participants, rank : Ranks]

ASSUME StoreAssumption ==
    /\ Sent \subseteq FromMe /\ FromMe \subseteq Messages
    /\ ChatOf \in [Messages -> Chats]
    /\ StoreMessages \in BOOLEAN /\ StoreMedia \in BOOLEAN
    /\ NoRow \notin Row /\ NoReceipt \notin Receipt
    /\ Purger # Remover
    /\ MaxEvents \in Nat /\ MaxCleanings \in Nat /\ MaxFaults \in Nat

VARIABLES
    rows,       \* gw_messages
    receipts,   \* gw_message_receipts: the rank of a participant, 0 without a row
    files,      \* messages whose file is in the media store
    table,      \* gw_chat_archive
    opted,      \* chatArchive.set
    writer,     \* how far the recording of a sent message has come
    delivery,   \* and that of each delivery of a received one
    inHand,     \* the receipt whose status is written, and whose row is not
    checked,    \* the chat of that receipt is found to be recorded
    switch,     \* a request: "new", "written", "done"
    wanted,     \* the chat and the setting of a request
    clean,      \* a cleaner: "idle", "files", "archive", "rows"
    doomed,     \* the messages whose rows it will delete
    victims,    \* the files it has still to delete
    events,     \* message events and receipts so far
    cleanings,  \* purges and deletions that were begun
    faults,     \* failed calls and exits so far
    \* history
    settled,    \* chats whose setting is certain, and what it is
    crossed,    \* requests that overlapped another of the chat, or a deletion
    early,      \* messages of which a receipt came while they had no row
    astray,     \* messages whose file may be left without a row
    torn        \* messages whose row may be left without its file

data == <<rows, receipts, files>>
archive == <<table, opted, switch, wanted, settled, crossed>>
cleaning == <<clean, doomed, victims, cleanings>>
recording == <<writer, delivery>>
receiving == <<inHand, checked>>
vars == <<data, archive, cleaning, recording, receiving, events, faults, early, astray, torn>>

Init ==
    /\ rows = [m \in Messages |-> NoRow]
    /\ receipts = [m \in Messages |-> [p \in Participants |-> 0]]
    /\ files = {}
    /\ table = {} /\ opted = {}
    /\ writer = [m \in Sent |-> "unsent"]
    /\ delivery = [m \in Received |-> [d \in Deliveries |-> "idle"]]
    /\ inHand = NoReceipt /\ checked = FALSE
    /\ switch = [s \in Switches |-> "new"]
    /\ wanted \in [Switches -> Chats \X BOOLEAN]
    /\ clean = [c \in Cleaners |-> "idle"]
    /\ doomed = [c \in Cleaners |-> {}]
    /\ victims = [c \in Cleaners |-> {}]
    /\ events = 0 /\ cleanings = 0 /\ faults = 0
    /\ settled = [c \in Chats |-> "off"]
    /\ crossed = {}
    /\ early = {} /\ astray = {} /\ torn = {}

-------------------------------------------------------------------------------
Active == StoreMessages \/ opted # {}

Opted(m) == ChatOf[m] \in opted
allowChat(m) == Opted(m) \/ (StoreMessages /\ ChatOf[m] \in Listed)
Downloads(m) == m \in WithMedia /\ (StoreMedia \/ Opted(m))

Stored(m) == rows[m] # NoRow
Pointed(m) == Stored(m) /\ rows[m].path
Doomed == UNION {doomed[c] : c \in Cleaners}

\* A call to the database or the media store fails.  Its error is logged, so
\* that one which was carried out all the same is like one that worked.
Works == UNCHANGED faults
Fails == faults < MaxFaults /\ faults' = faults + 1

\* The message is being recorded, and its file is in the store for it.
Writing(m) == IF m \in Sent THEN writer[m] \notin {"unsent", "idle"}
                            ELSE \E d \in Deliveries : delivery[m][d] # "idle"
Keyed(m) == IF m \in Sent THEN writer[m] = "keyed"
                          ELSE \E d \in Deliveries : delivery[m][d] = "keyed"

Goes(m, step) == writer' = [writer EXCEPT ![m] = step] /\ UNCHANGED delivery
Moves(m, d, step) == delivery' = [delivery EXCEPT ![m][d] = step] /\ UNCHANGED writer

-------------------------------------------------------------------------------
(***************************************************************************)
(* Recording.  recordOutgoing puts the file and then saves the row;        *)
(* recordIncoming saves the row, and a goroutine downloads the file and    *)
(* points the row to it.  WhatsApp delivers an event at least once, and    *)
(* nothing keeps a later delivery of a message from an earlier one that    *)
(* still downloads: each has a goroutine of its own.                       *)
(***************************************************************************)

\* A message sent by a request, which is recorded if its chat is.
Send(m) ==
    /\ m \in Sent /\ writer[m] = "unsent"
    /\ Goes(m, IF allowChat(m) THEN "allowed" ELSE "idle")
    /\ astray' = astray \cup ({m} \cap Doomed)
    /\ UNCHANGED <<data, archive, cleaning, receiving, events, faults, early, torn>>

\* The event of a message, whatever other deliveries of it are doing.
Receive(m, d) ==
    /\ m \in Received /\ delivery[m][d] = "idle"
    /\ events < MaxEvents
    /\ allowChat(m)
    /\ events' = events + 1
    /\ Moves(m, d, "allowed")
    /\ astray' = astray \cup ({m} \cap Doomed)
    /\ UNCHANGED <<data, archive, cleaning, receiving, faults, early, torn>>

\* MediaStore.Put, which may leave a part of the file when it fails.
PutWorks(m) == Works /\ files' = files \cup {m} /\ UNCHANGED astray
PutFails(m) == Fails /\ files' \in {files, files \cup {m}} /\ astray' = astray \cup {m}

Attach(m) ==
    /\ m \in Sent /\ writer[m] = "allowed"
    /\ \/ Downloads(m) /\ PutWorks(m) /\ Goes(m, "keyed")
       \/ Downloads(m) /\ PutFails(m) /\ Goes(m, "plain")
       \/ ~Downloads(m) /\ Goes(m, "plain") /\ UNCHANGED <<files, faults, astray>>
    /\ UNCHANGED <<rows, receipts, archive, cleaning, receiving, events, early, torn>>

\* Mutant: a row that is there is replaced.
save_Replaces(m, row) == rows' = [rows EXCEPT ![m] = row]

\* INSERT ... ON CONFLICT DO NOTHING
save(m, row) == rows' = [rows EXCEPT ![m] = IF @ = NoRow THEN row ELSE @]

SaveSent(m) ==
    /\ m \in Sent /\ writer[m] \in {"keyed", "plain"}
    /\ Goes(m, "idle")
    /\ \/ /\ Active /\ Works
          /\ save(m, [status |-> 0, path |-> writer[m] = "keyed"])
          /\ UNCHANGED astray
       \/ /\ (~Active /\ Works) \/ (Active /\ Fails)
          /\ astray' = astray \cup {m}
          /\ UNCHANGED rows
    /\ UNCHANGED <<receipts, files, archive, cleaning, receiving, events, early, torn>>

SaveReceived(m, d) ==
    /\ m \in Received /\ delivery[m][d] = "allowed"
    /\ Moves(m, d, "saved")
    /\ \/ /\ Active /\ Works
          /\ save(m, [status |-> -1, path |-> FALSE])
          /\ UNCHANGED astray
       \/ /\ (~Active /\ Works) \/ (Active /\ Fails)
          /\ astray' = astray \cup {m}
          /\ UNCHANGED rows
    /\ UNCHANGED <<receipts, files, archive, cleaning, receiving, events, early, torn>>

StartDownload(m, d) ==
    /\ m \in Received /\ delivery[m][d] = "saved"
    /\ Moves(m, d, IF Downloads(m) THEN "loading" ELSE "idle")
    /\ UNCHANGED <<data, archive, cleaning, receiving, events, faults, early, astray, torn>>

\* The download may fail, or the file be too large.
Download(m, d) ==
    /\ m \in Received /\ delivery[m][d] = "loading"
    /\ \/ PutWorks(m) /\ Moves(m, d, "keyed")
       \/ PutFails(m) /\ Moves(m, d, "idle")
       \/ Moves(m, d, "idle") /\ UNCHANGED <<files, faults, astray>>
    /\ UNCHANGED <<rows, receipts, archive, cleaning, receiving, events, early, torn>>

\* Mutant: the row is made if it is not there.
updateMedia_Inserts(m, d) ==
    /\ m \in Received /\ delivery[m][d] = "keyed"
    /\ Moves(m, d, "idle")
    /\ rows' = [rows EXCEPT ![m] = IF @ = NoRow THEN [path |-> TRUE] ELSE [@ EXCEPT !.path = TRUE]]
    /\ UNCHANGED <<receipts, files, archive, cleaning, receiving, events, faults, early, astray, torn>>

updateMedia(m, d) ==
    /\ m \in Received /\ delivery[m][d] = "keyed"
    /\ Moves(m, d, "idle")
    /\ \/ /\ Active /\ Works
          /\ rows' = [rows EXCEPT ![m] = IF @ = NoRow THEN @ ELSE [@ EXCEPT !.path = TRUE]]
          /\ UNCHANGED astray
       \/ /\ (~Active /\ Works) \/ (Active /\ Fails)
          /\ astray' = astray \cup {m}
          /\ UNCHANGED rows
    /\ UNCHANGED <<receipts, files, archive, cleaning, receiving, events, early, torn>>

Record(m) ==
    \/ Send(m) \/ Attach(m) \/ SaveSent(m)
    \/ \E d \in Deliveries :
          \/ Receive(m, d) \/ SaveReceived(m, d) \/ StartDownload(m, d)
          \/ Download(m, d) \/ updateMedia(m, d)

-------------------------------------------------------------------------------
(***************************************************************************)
(* Receipts.  They are handled one at a time, in any order: the status of  *)
(* the message first, then whether its chat is recorded, and then the row  *)
(* of the participant.  A receipt of many messages is one of each:         *)
(* messages share nothing in it.                                           *)
(***************************************************************************)

Raised(row, rank) == IF row # NoRow /\ row.status < rank THEN [row EXCEPT !.status = rank] ELSE row

\* Mutant: a later receipt of a lower status overwrites it.
updateStatus_Overwrites(r) ==
    /\ inHand = NoReceipt /\ events < MaxEvents
    /\ r.id \in FromMe /\ ~(r.id \in Sent /\ writer[r.id] = "unsent")
    /\ inHand' = r /\ UNCHANGED checked
    /\ events' = events + 1
    /\ rows' = [rows EXCEPT ![r.id] = IF @ = NoRow THEN @ ELSE [@ EXCEPT !.status = r.rank]]
    /\ early' = IF Stored(r.id) THEN early ELSE early \cup {r.id}
    /\ UNCHANGED <<receipts, files, archive, cleaning, recording, faults, astray, torn>>

updateStatus(r) ==
    /\ inHand = NoReceipt /\ events < MaxEvents
    /\ r.id \in FromMe /\ ~(r.id \in Sent /\ writer[r.id] = "unsent")
    /\ inHand' = r /\ UNCHANGED checked
    /\ events' = events + 1
    /\ \/ /\ Active /\ Works
          /\ rows' = [rows EXCEPT ![r.id] = Raised(@, r.rank)]
          /\ early' = IF Stored(r.id) THEN early ELSE early \cup {r.id}
       \/ /\ (~Active /\ Works) \/ (Active /\ Fails)
          /\ early' = early \cup {r.id}
          /\ UNCHANGED rows
    /\ UNCHANGED <<receipts, files, archive, cleaning, recording, astray, torn>>

\* The rest of handleReceipt is for recorded chats.
checkChat ==
    /\ inHand # NoReceipt /\ ~checked
    /\ \/ allowChat(inHand.id) /\ checked' = TRUE /\ UNCHANGED inHand
       \/ ~allowChat(inHand.id) /\ inHand' = NoReceipt /\ UNCHANGED checked
    /\ UNCHANGED <<data, archive, cleaning, recording, events, faults, early, astray, torn>>

\* The upsert, which only raises, after the alias of the participant is resolved.
saveReceipts ==
    /\ inHand # NoReceipt /\ checked
    /\ inHand' = NoReceipt /\ checked' = FALSE
    /\ \/ /\ Works
          /\ receipts' = [receipts EXCEPT ![inHand.id][inHand.participant] =
                             IF @ < inHand.rank THEN inHand.rank ELSE @]
       \/ Fails /\ UNCHANGED receipts
    /\ UNCHANGED <<rows, files, archive, cleaning, recording, events, early, astray, torn>>

-------------------------------------------------------------------------------
(***************************************************************************)
(* The archive switch of a chat: the table, then the set in memory.        *)
(***************************************************************************)

ChatWanted(s) == wanted[s][1]
With(set, s) == IF wanted[s][2] THEN set \cup {ChatWanted(s)} ELSE set \ {ChatWanted(s)}

\* The other requests for the chat that are between the two.
Others(s) == {t \in Switches \ {s} : switch[t] = "written" /\ ChatWanted(t) = ChatWanted(s)}

SwitchWrite(s) ==
    /\ switch[s] = "new"
    /\ \/ Works /\ table' = With(table, s) /\ switch' = [switch EXCEPT ![s] = "written"]
       \/ Fails /\ table' \in {table, With(table, s)} /\ switch' = [switch EXCEPT ![s] = "done"]
    /\ settled' = [settled EXCEPT ![ChatWanted(s)] = "unknown"]
    /\ crossed' = IF Others(s) = {} THEN crossed ELSE crossed \cup Others(s) \cup {s}
    /\ UNCHANGED <<opted, wanted, data, cleaning, recording, receiving, events, early, astray, torn>>

\* Mutant: turning off is left to the next start.
SwitchApply_OnlyOn(s) ==
    /\ switch[s] = "written"
    /\ switch' = [switch EXCEPT ![s] = "done"]
    /\ opted' = opted \cup With({}, s)
    /\ settled' = IF s \in crossed THEN settled
                  ELSE [settled EXCEPT ![ChatWanted(s)] = IF wanted[s][2] THEN "on" ELSE "off"]
    /\ UNCHANGED <<table, wanted, crossed, data, cleaning, recording, receiving, events, faults, early, astray, torn>>

SwitchApply(s) ==
    /\ switch[s] = "written"
    /\ switch' = [switch EXCEPT ![s] = "done"]
    /\ opted' = With(opted, s)
    /\ settled' = IF s \in crossed THEN settled
                  ELSE [settled EXCEPT ![ChatWanted(s)] = IF wanted[s][2] THEN "on" ELSE "off"]
    /\ UNCHANGED <<table, wanted, crossed, data, cleaning, recording, receiving, events, faults, early, astray, torn>>

-------------------------------------------------------------------------------
(***************************************************************************)
(* Cleaning: the files of the rows, the receipts, the archive of a session *)
(* that is removed, and then the rows, whatever failed before.             *)
(***************************************************************************)

\* Mutant: files are looked for only where all of them are stored.
CleanBegin_IfStored(c, old) ==
    /\ clean[c] = "idle" /\ cleanings < MaxCleanings
    /\ cleanings' = cleanings + 1
    /\ clean' = [clean EXCEPT ![c] = "files"]
    /\ doomed' = [doomed EXCEPT ![c] = old]
    /\ victims' = [victims EXCEPT ![c] = {m \in old : StoreMedia /\ Pointed(m)}]
    /\ astray' = astray \cup {m \in old : Writing(m)}
    /\ UNCHANGED <<data, archive, recording, receiving, events, faults, early, torn>>

CleanBegin(c, old) ==
    /\ clean[c] = "idle" /\ cleanings < MaxCleanings
    /\ cleanings' = cleanings + 1
    /\ clean' = [clean EXCEPT ![c] = "files"]
    /\ doomed' = [doomed EXCEPT ![c] = old]
    /\ LET found == {m \in old : Pointed(m)}
           busy == {m \in old : Writing(m)}
       IN  \/ /\ Works
              /\ victims' = [victims EXCEPT ![c] = found]
              /\ astray' = astray \cup busy
           \/ /\ Fails
              /\ astray' = astray \cup busy \cup found
              /\ UNCHANGED victims
    /\ UNCHANGED <<data, archive, recording, receiving, events, early, torn>>

\* purge: the messages older than the retention.
Purge == \E old \in SUBSET Messages : CleanBegin(Purger, old)

\* deleteSession
deleteSession == Active /\ CleanBegin(Remover, Messages)

DeleteFile(c, m) ==
    /\ clean[c] = "files" /\ m \in victims[c]
    /\ victims' = [victims EXCEPT ![c] = @ \ {m}]
    /\ \/ Works /\ files' = files \ {m} /\ UNCHANGED astray
       \/ Fails /\ astray' = astray \cup {m} /\ UNCHANGED files
    /\ UNCHANGED <<rows, receipts, archive, clean, doomed, cleanings, recording, receiving, events, early, torn>>

DeleteReceipts(c) ==
    /\ clean[c] = "files" /\ victims[c] = {}
    /\ clean' = [clean EXCEPT ![c] = IF c = Remover THEN "archive" ELSE "rows"]
    /\ \/ /\ Works
          /\ receipts' = [m \in Messages |->
                 IF c = Remover \/ (m \in doomed[c] /\ Stored(m))
                 THEN [p \in Participants |-> 0] ELSE receipts[m]]
       \/ Fails /\ UNCHANGED receipts
    /\ UNCHANGED <<rows, files, archive, doomed, victims, cleanings, recording, receiving, events, early, astray, torn>>

\* The set in memory stays: a chat goes on being recorded until the next start.
DeleteArchive ==
    /\ clean[Remover] = "archive"
    /\ clean' = [clean EXCEPT ![Remover] = "rows"]
    /\ \/ Works /\ table' = {}
       \/ Fails /\ UNCHANGED table
    /\ settled' = [c \in Chats |-> IF settled[c] = "on" THEN "unknown" ELSE settled[c]]
    /\ crossed' = crossed \cup {s \in Switches : switch[s] = "written"}
    /\ UNCHANGED <<opted, switch, wanted, data, doomed, victims, cleanings, recording, receiving, events, early, astray, torn>>

HasReceipt(m) == (\E p \in Participants : receipts[m][p] > 0) \/ (inHand # NoReceipt /\ inHand.id = m)

DeleteRows(c) ==
    /\ clean[c] = "rows"
    /\ clean' = [clean EXCEPT ![c] = "idle"]
    /\ doomed' = [doomed EXCEPT ![c] = {}]
    /\ \/ /\ Works
          /\ rows' = [m \in Messages |-> IF m \in doomed[c] THEN NoRow ELSE rows[m]]
          /\ early' = early \cup {m \in doomed[c] : HasReceipt(m)}
          /\ torn' = torn \cup {m \in doomed[c] : Keyed(m) /\ m \notin files}
       \/ /\ Fails
          /\ torn' = torn \cup doomed[c]
          /\ UNCHANGED <<rows, early>>
    /\ UNCHANGED <<receipts, files, archive, victims, cleanings, recording, receiving, events, astray>>

CleanStep ==
    \/ Purge \/ deleteSession \/ DeleteArchive
    \/ \E c \in Cleaners :
          \/ DeleteReceipts(c) \/ DeleteRows(c)
          \/ \E m \in Messages : DeleteFile(c, m)

\* The process ends and starts again, and reads the archive table.
Exit ==
    /\ Fails
    /\ opted' = table
    /\ switch' = [s \in Switches |-> IF switch[s] = "new" THEN "new" ELSE "done"]
    /\ writer' = [m \in Sent |-> IF writer[m] = "unsent" THEN "unsent" ELSE "idle"]
    /\ delivery' = [m \in Received |-> [d \in Deliveries |-> "idle"]]
    /\ inHand' = NoReceipt /\ checked' = FALSE
    /\ clean' = [c \in Cleaners |-> "idle"]
    /\ doomed' = [c \in Cleaners |-> {}]
    /\ victims' = [c \in Cleaners |-> {}]
    /\ astray' = astray \cup {m \in Messages : Keyed(m)}
    /\ torn' = torn \cup Doomed
    /\ UNCHANGED <<data, table, wanted, settled, crossed, cleanings, events, early>>

Next ==
    \/ \E m \in Messages : Record(m)
    \/ (\E r \in Receipt : updateStatus(r)) \/ checkChat \/ saveReceipts
    \/ \E s \in Switches : SwitchWrite(s) \/ SwitchApply(s)
    \/ CleanStep
    \/ Exit

Spec == Init /\ [][Next]_vars

-------------------------------------------------------------------------------
TypeOK ==
    /\ rows \in [Messages -> Row \cup {NoRow}]
    /\ receipts \in [Messages -> [Participants -> 0 .. 3]]
    /\ files \in SUBSET Messages
    /\ table \in SUBSET Chats /\ opted \in SUBSET Chats
    /\ writer \in [Sent -> {"unsent", "idle", "allowed", "keyed", "plain"}]
    /\ delivery \in [Received -> [Deliveries -> {"idle", "allowed", "saved", "loading", "keyed"}]]
    /\ inHand \in Receipt \cup {NoReceipt} /\ checked \in BOOLEAN
    /\ switch \in [Switches -> {"new", "written", "done"}]
    /\ wanted \in [Switches -> Chats \X BOOLEAN]
    /\ clean \in [Cleaners -> {"idle", "files", "archive", "rows"}]
    /\ doomed \in [Cleaners -> SUBSET Messages]
    /\ victims \in [Cleaners -> SUBSET Messages]
    /\ events \in 0 .. MaxEvents /\ cleanings \in 0 .. MaxCleanings /\ faults \in 0 .. MaxFaults
    /\ settled \in [Chats -> {"on", "off", "unknown"}]
    /\ crossed \in SUBSET Switches
    /\ early \in SUBSET Messages /\ astray \in SUBSET Messages /\ torn \in SUBSET Messages

(***************************************************************************)
(* The check marks of a message only rise while its row is there, however  *)
(* receipts are reordered and messages delivered again.                    *)
(***************************************************************************)
StatusRises ==
    [][\A m \in Messages :
          Stored(m) /\ rows'[m] # NoRow => rows'[m].status >= rows[m].status]_vars

(***************************************************************************)
(* The two tables agree: no participant has a receipt above the status of  *)
(* the message.  Excused are messages a receipt of which came while they   *)
(* had no row or nothing was recorded, and one whose update failed.        *)
(***************************************************************************)
ReceiptsNotAhead ==
    \A m \in Messages \ early : Stored(m) =>
        \A p \in Participants : receipts[m][p] <= rows[m].status \/ receipts[m][p] = 0

\* A file in the store has a row that points to it or is about to have one.
NoStrayFile ==
    \A m \in files \ astray : Pointed(m) \/ Keyed(m)

\* A row that points to a file has it.
NoDanglingRow ==
    \A m \in Messages \ torn : Pointed(m) => m \in files \cup Doomed

(***************************************************************************)
(* Files and rows keep together: purging and deleting leave no file behind *)
(* and no row without its file, but one a cleaning is about to delete.     *)
(* That holds however many deliveries of a message download at once.       *)
(* Excused is a file of a message recorded while a cleaning of it was      *)
(* under way, or while the last archived chat was turned off, or with a    *)
(* call that failed; and a row whose cleaning failed or did not survive    *)
(* the process, or of which a cleaning took the file and the row while a   *)
(* delivery stood between the two, so that the row of the next delivery is *)
(* pointed to a file that is gone.                                         *)
(***************************************************************************)
MediaKept == NoStrayFile /\ NoDanglingRow

(***************************************************************************)
(* The setting of a chat that was answered holds, in memory and in the     *)
(* table, until the next request for it, across restarts.  Excused are     *)
(* requests that overlapped, one that failed, and a removed session.       *)
(***************************************************************************)
SwitchKept ==
    \A c \in Chats :
        /\ settled[c] = "on" => c \in opted /\ c \in table
        /\ settled[c] = "off" => c \notin opted /\ c \notin table

-------------------------------------------------------------------------------
(***************************************************************************)
(* The inductive invariant behind these properties.                        *)
(***************************************************************************)

\* A request between table and set has its chat to itself, or is known to have
\* been crossed.
SwitchInv ==
    \A s \in Switches : switch[s] = "written" =>
        /\ settled[ChatWanted(s)] = "unknown"
        /\ s \notin crossed => /\ Others(s) = {}
                               /\ ChatWanted(s) \in table <=> wanted[s][2]

Held(m) == inHand # NoReceipt /\ inHand.id = m

\* A receipt is not ahead of the status while it is in hand, either.
ReceiptInv ==
    \A m \in Messages \ early :
        /\ ~Stored(m) => ~Held(m) /\ \A p \in Participants : receipts[m][p] = 0
        /\ Stored(m) /\ Held(m) => inHand.rank <= rows[m].status

\* A cleaner in a later phase has no file left to delete.
PhaseInv ==
    \A c \in Cleaners :
        /\ victims[c] \subseteq doomed[c]
        /\ clean[c] = "idle" => doomed[c] = {}
        /\ clean[c] # "files" => victims[c] = {}

\* The files of doomed rows are gone, and recording does not come between.
DoomedInv ==
    /\ \A c \in Cleaners : \A m \in doomed[c] \ victims[c] : m \in files => m \in astray
    /\ \A m \in Doomed : Writing(m) => m \in astray

\* A request records a message once, whose row comes last.
SentInv ==
    \A m \in Sent :
        /\ writer[m] # "idle" => ~Stored(m) /\ \A c \in Cleaners : m \notin victims[c]
        /\ writer[m] = "keyed" => m \in files

\* The row of an event comes first, and its file next.  Every delivery has put
\* the same file: while one has still to point the row to it, it is there, or
\* a cleaning has it, or had it.
ReceivedInv ==
    \A m \in Received, d \in Deliveries :
        /\ delivery[m][d] \in {"saved", "loading", "keyed"} => Stored(m) \/ m \in astray
        /\ delivery[m][d] = "keyed" => m \in files \cup Doomed \cup torn

StoreInv ==
    /\ TypeOK
    /\ SwitchInv /\ SwitchKept
    /\ ReceiptInv /\ ReceiptsNotAhead
    /\ PhaseInv /\ DoomedInv /\ SentInv /\ ReceivedInv /\ MediaKept
===============================================================================
