-------------------------- MODULE MessageStoreProofs --------------------------
(***************************************************************************)
(* The message store: the inductive invariant behind its properties, for   *)
(* any messages, chats and requests, settings, and number of failures.     *)
(*                                                                         *)
(* The invariant has four parts that the steps disturb apart from one      *)
(* another: types, archive switch, receipts, and files with their rows.    *)
(***************************************************************************)
EXTENDS MessageStore, TLAPS

SwitchPart == SwitchInv /\ SwitchKept
ReceiptPart == ReceiptInv /\ ReceiptsNotAhead

\* What is said of one message by the invariants of files and rows.
MediaOf(m) ==
    /\ \A c \in Cleaners : m \in doomed[c] \ victims[c] /\ m \in files => m \in astray
    /\ m \in Doomed /\ Writing(m) => m \in astray
    /\ m \in Sent =>
        /\ writer[m] # "idle" => ~Stored(m) /\ \A c \in Cleaners : m \notin victims[c]
        /\ writer[m] = "keyed" => m \in files
    /\ m \notin Sent => \A d \in Deliveries :
        /\ delivery[m][d] \in {"saved", "loading", "keyed"} => Stored(m) \/ m \in astray
        /\ delivery[m][d] = "keyed" => m \in files \/ m \in Doomed \/ m \in torn
    /\ m \in files /\ m \notin astray => Pointed(m) \/ Keyed(m)
    /\ m \notin torn /\ Pointed(m) => m \in files \/ m \in Doomed

MediaPart == PhaseInv /\ \A m \in Messages : MediaOf(m)

LEMMA InDoomed == \A m : m \in Doomed <=> \E c \in Cleaners : m \in doomed[c]
BY DEF Doomed

LEMMA Parts ==
    ASSUME TypeOK
    PROVE  StoreInv <=> SwitchPart /\ ReceiptPart /\ MediaPart
<1>t. /\ Sent \subseteq Messages /\ files \subseteq Messages
      /\ \A c \in Cleaners : doomed[c] \subseteq Messages
    BY StoreAssumption DEF TypeOK
<1>1. (\A m \in Messages : MediaOf(m)) => DoomedInv /\ SentInv /\ ReceivedInv /\ MediaKept
  <2> SUFFICES ASSUME \A m \in Messages : MediaOf(m)
               PROVE  DoomedInv /\ SentInv /\ ReceivedInv /\ MediaKept
      OBVIOUS
  <2>1. DoomedInv
      BY <1>t, InDoomed DEF DoomedInv, MediaOf
  <2>2. SentInv
      BY <1>t DEF SentInv, MediaOf
  <2>3. ReceivedInv
      BY DEF ReceivedInv, Received, MediaOf
  <2>4. MediaKept
      BY <1>t DEF MediaKept, NoStrayFile, NoDanglingRow, MediaOf
  <2> QED
      BY <2>1, <2>2, <2>3, <2>4
<1>2. DoomedInv /\ SentInv /\ ReceivedInv /\ MediaKept => \A m \in Messages : MediaOf(m)
  <2> SUFFICES ASSUME DoomedInv, SentInv, ReceivedInv, MediaKept, NEW m \in Messages
               PROVE  MediaOf(m)
      OBVIOUS
  <2>1. /\ \A c \in Cleaners : m \in doomed[c] \ victims[c] /\ m \in files => m \in astray
        /\ m \in Doomed /\ Writing(m) => m \in astray
      BY DEF DoomedInv
  <2>2. m \in Sent =>
          /\ writer[m] # "idle" => ~Stored(m) /\ \A c \in Cleaners : m \notin victims[c]
          /\ writer[m] = "keyed" => m \in files
      BY DEF SentInv
  <2>3. m \notin Sent => \A d \in Deliveries :
          /\ delivery[m][d] \in {"saved", "loading", "keyed"} => Stored(m) \/ m \in astray
          /\ delivery[m][d] = "keyed" => m \in files \/ m \in Doomed \/ m \in torn
      BY DEF ReceivedInv, Received
  <2>4. /\ m \in files /\ m \notin astray => Pointed(m) \/ Keyed(m)
        /\ m \notin torn /\ Pointed(m) => m \in files \/ m \in Doomed
      BY DEF MediaKept, NoStrayFile, NoDanglingRow
  <2> QED
      BY <2>1, <2>2, <2>3, <2>4 DEF MediaOf
<1> QED
    BY <1>1, <1>2 DEF StoreInv, SwitchPart, ReceiptPart, MediaPart

-------------------------------------------------------------------------------
(***************************************************************************)
(* What a step leaves alone.                                               *)
(***************************************************************************)

LEMMA PartsImply == TypeOK /\ SwitchPart /\ ReceiptPart /\ MediaPart => StoreInv
BY Parts

LEMMA PartsNext ==
    ASSUME TypeOK', SwitchPart', ReceiptPart', MediaPart' PROVE StoreInv'
BY PartsImply, PTL

LEMMA SwitchFrame ==
    ASSUME SwitchPart, table' = table, opted' = opted, switch' = switch, wanted' = wanted,
           settled' = settled, crossed' = crossed
    PROVE  SwitchPart'
BY DEF SwitchPart, SwitchInv, SwitchKept, ChatWanted, Others

\* Rows may appear, and keep their status.
LEMMA ReceiptFrame ==
    ASSUME ReceiptPart, receipts' = receipts, early' = early, inHand' \in {inHand, NoReceipt},
           \A m \in Messages : Stored(m) => Stored(m)' /\ rows'[m].status = rows[m].status
    PROVE  ReceiptPart'
<1>1. \A m : Held(m)' => Held(m) /\ inHand' = inHand
    BY DEF Held
<1>2. ReceiptInv'
    BY <1>1 DEF ReceiptPart, ReceiptInv
<1>3. ReceiptsNotAhead'
    BY DEF ReceiptPart, ReceiptInv, ReceiptsNotAhead
<1> QED
    BY <1>2, <1>3 DEF ReceiptPart

\* The recording of a message stays where it is.
SameRecord(n) == /\ n \in Sent => writer'[n] = writer[n]
                 /\ n \notin Sent => delivery'[n] = delivery[n]

LEMMA RecordFrame ==
    ASSUME NEW n, SameRecord(n)
    PROVE  (Writing(n)' <=> Writing(n)) /\ (Keyed(n)' <=> Keyed(n))
BY DEF SameRecord, Writing, Keyed

\* Files, rows and recording stay; a cleaner without files left may go on.
LEMMA MediaFrame ==
    ASSUME MediaPart, files' = files, writer' = writer, delivery' = delivery, doomed' = doomed, victims' = victims,
           astray' = astray, torn' = torn,
           \A c \in Cleaners : clean'[c] # clean[c] =>
                clean[c] # "idle" /\ victims[c] = {} /\ clean'[c] # "idle",
           \A m \in Messages : (Stored(m)' <=> Stored(m)) /\ (Pointed(m)' <=> Pointed(m))
    PROVE  MediaPart'
<1>1. PhaseInv'
    BY DEF MediaPart, PhaseInv
<1>2. ASSUME NEW m \in Messages PROVE MediaOf(m)'
    BY DEF MediaPart, MediaOf, Doomed, Writing, Keyed
<1> QED
    BY <1>1, <1>2 DEF MediaPart

\* A step of one message.
LEMMA OneMessage ==
    ASSUME MediaPart, NEW m \in Messages, MediaOf(m)',
           clean' = clean, doomed' = doomed, victims' = victims, torn' = torn,
           astray \subseteq astray',
           \A n \in Messages \ {m} :
               rows'[n] = rows[n] /\ SameRecord(n) /\ (n \in files' <=> n \in files)
    PROVE  MediaPart'
<1>1. PhaseInv'
    BY DEF MediaPart, PhaseInv
<1>2. ASSUME NEW n \in Messages, n # m PROVE MediaOf(n)'
  <2>1. MediaOf(n)
      BY DEF MediaPart
  <2>2. /\ Stored(n)' <=> Stored(n)
        /\ Pointed(n)' <=> Pointed(n)
        /\ n \in Doomed' <=> n \in Doomed
      BY <1>2 DEF Stored, Pointed, Doomed
  <2>3. (Writing(n)' <=> Writing(n)) /\ (Keyed(n)' <=> Keyed(n))
      BY <1>2, RecordFrame
  <2> QED
      BY <1>2, <2>1, <2>2, <2>3 DEF MediaOf, SameRecord
<1> QED
    BY <1>1, <1>2 DEF MediaPart

-------------------------------------------------------------------------------
LEMMA InitInv == Init => StoreInv
<1> SUFFICES ASSUME Init PROVE StoreInv
    OBVIOUS
<1>r. /\ writer \in [Sent -> {"unsent", "idle", "allowed", "keyed", "plain"}]
      /\ delivery \in [Received -> [Deliveries -> {"idle", "allowed", "saved", "loading", "keyed"}]]
    BY DEF Init
<1>c. checked \in BOOLEAN
    BY DEF Init
<1>d. receipts \in [Messages -> [Participants -> 0 .. 3]]
    BY DEF Init
<1>i. /\ rows \in [Messages -> Row \cup {NoRow}]
      /\ inHand \in Receipt \cup {NoReceipt}
      /\ files \in SUBSET Messages /\ table \in SUBSET Chats /\ opted \in SUBSET Chats
    BY DEF Init
<1>j. /\ switch \in [Switches -> {"new", "written", "done"}]
      /\ wanted \in [Switches -> Chats \X BOOLEAN]
      /\ clean \in [Cleaners -> {"idle", "files", "archive", "rows"}]
      /\ doomed \in [Cleaners -> SUBSET Messages]
      /\ victims \in [Cleaners -> SUBSET Messages]
    BY DEF Init
<1>k. /\ events \in 0 .. MaxEvents /\ cleanings \in 0 .. MaxCleanings /\ faults \in 0 .. MaxFaults
      /\ settled \in [Chats -> {"on", "off", "unknown"}]
      /\ crossed \in SUBSET Switches
      /\ early \in SUBSET Messages /\ astray \in SUBSET Messages /\ torn \in SUBSET Messages
    BY StoreAssumption DEF Init
<1>1. TypeOK
    BY <1>r, <1>c, <1>d, <1>i, <1>j, <1>k DEF TypeOK
<1>2. SwitchPart
    BY DEF Init, SwitchPart, SwitchInv, SwitchKept
<1>3. \A m \in Messages : ~Stored(m) /\ ~Held(m) /\ ~Pointed(m)
    BY DEF Init, Stored, Held, Pointed
<1>4. ReceiptPart
    BY <1>3 DEF Init, ReceiptPart, ReceiptInv, ReceiptsNotAhead
<1>5. ASSUME NEW m \in Messages PROVE MediaOf(m)
    BY <1>3, InDoomed DEF Init, MediaOf, Received
<1>6. PhaseInv
    BY DEF Init, PhaseInv
<1> QED
    BY <1>1, <1>2, <1>4, <1>5, <1>6, Parts DEF MediaPart

-------------------------------------------------------------------------------
(***************************************************************************)
(* Recording.                                                              *)
(***************************************************************************)

LEMMA RowFields ==
    \A row \in Row : /\ row.status \in -1 .. 3 /\ row.path \in BOOLEAN
                     /\ row = [status |-> row.status, path |-> row.path]
BY DEF Row

LEMMA RowPath ==
    \A st \in -1 .. 3, b \in BOOLEAN :
        [[status |-> st, path |-> b] EXCEPT !.path = TRUE] = [status |-> st, path |-> TRUE]
<1>1. \A st \in -1 .. 3, b, c \in BOOLEAN :
          [[status |-> st, path |-> b] EXCEPT !.path = c] = [status |-> st, path |-> c]
    OBVIOUS
<1> QED
    BY <1>1

LEMMA RowMade ==
    ASSUME NEW st \in -1 .. 3, NEW b \in BOOLEAN
    PROVE  [status |-> st, path |-> b] \in Row /\ [status |-> st, path |-> b] # NoRow
BY StoreAssumption DEF Row

LEMMA FaultsType ==
    ASSUME TypeOK, Works \/ Fails
    PROVE  faults' \in 0 .. MaxFaults
BY StoreAssumption DEF TypeOK, Works, Fails

WriterSteps == {"unsent", "idle", "allowed", "keyed", "plain"}
DeliverySteps == {"idle", "allowed", "saved", "loading", "keyed"}

LEMMA GoesEffect ==
    ASSUME TypeOK, NEW m \in Sent, NEW step \in WriterSteps, Goes(m, step)
    PROVE  /\ writer' \in [Sent -> WriterSteps]
           /\ delivery' \in [Received -> [Deliveries -> DeliverySteps]]
           /\ writer'[m] = step
           /\ \A n \in Messages \ {m} : SameRecord(n)
BY DEF TypeOK, Goes, WriterSteps, DeliverySteps, SameRecord, Received

LEMMA MovesEffect ==
    ASSUME TypeOK, NEW m \in Received, NEW d \in Deliveries, NEW step \in DeliverySteps,
           Moves(m, d, step)
    PROVE  /\ writer' \in [Sent -> WriterSteps]
           /\ delivery' \in [Received -> [Deliveries -> DeliverySteps]]
           /\ delivery'[m][d] = step
           /\ \A e \in Deliveries \ {d} : delivery'[m][e] = delivery[m][e]
           /\ \A n \in Messages \ {m} : SameRecord(n)
<1>t. delivery \in [Received -> [Deliveries -> DeliverySteps]] /\ writer \in [Sent -> WriterSteps]
    BY DEF TypeOK, WriterSteps, DeliverySteps
<1>1. delivery' = [delivery EXCEPT ![m] = [delivery[m] EXCEPT ![d] = step]] /\ writer' = writer
    BY DEF Moves
<1>2. [delivery[m] EXCEPT ![d] = step] \in [Deliveries -> DeliverySteps]
    BY <1>t
<1>3. /\ delivery' \in [Received -> [Deliveries -> DeliverySteps]]
      /\ delivery'[m] = [delivery[m] EXCEPT ![d] = step]
      /\ \A n \in Received \ {m} : delivery'[n] = delivery[n]
    BY <1>t, <1>1, <1>2
<1>4. delivery'[m][d] = step /\ \A e \in Deliveries \ {d} : delivery'[m][e] = delivery[m][e]
    BY <1>t, <1>3
<1>5. \A n \in Messages \ {m} : SameRecord(n)
    BY <1>1, <1>3 DEF SameRecord, Received
<1> QED
    BY <1>t, <1>1, <1>3, <1>4, <1>5

LEMMA PutEffect ==
    ASSUME TypeOK, NEW m \in Messages, PutWorks(m) \/ PutFails(m)
    PROVE  /\ files' \in SUBSET Messages /\ astray' \in SUBSET Messages
           /\ faults' \in 0 .. MaxFaults
           /\ astray \subseteq astray' /\ files \subseteq files'
           /\ \A n \in Messages \ {m} : n \in files' <=> n \in files
           /\ PutWorks(m) => m \in files'
           /\ PutFails(m) => m \in astray'
<1>1. faults' \in 0 .. MaxFaults
    BY FaultsType DEF PutWorks, PutFails
<1> QED
    BY <1>1 DEF PutWorks, PutFails, TypeOK

\* What one delivery does to its message leaves what the others rely on.
LEMMA MovedMedia ==
    ASSUME TypeOK, NEW m \in Received, MediaOf(m),
           NEW d \in Deliveries, NEW step \in DeliverySteps, Moves(m, d, step),
           doomed' = doomed, victims' = victims, torn' = torn,
           astray \subseteq astray', files \subseteq files',
           m \in files' => m \in files \/ step = "keyed" \/ m \in astray',
           Stored(m) => Stored(m)', Pointed(m) => Pointed(m)',
           m \in Doomed => m \in astray',
           step \in {"saved", "loading", "keyed"} => Stored(m)' \/ m \in astray',
           step = "keyed" => m \in files',
           delivery[m][d] = "keyed" => Pointed(m)' \/ m \in astray',
           Pointed(m)' => Pointed(m) \/ delivery[m][d] = "keyed"
    PROVE  MediaOf(m)'
<1>1. /\ delivery'[m][d] = step
      /\ \A e \in Deliveries \ {d} : delivery'[m][e] = delivery[m][e]
    BY MovesEffect
<1>2. m \in Messages /\ m \notin Sent
    BY DEF Received
<1>3. m \in Doomed' <=> m \in Doomed
    BY DEF Doomed
<1>4. ASSUME NEW c \in Cleaners, m \in doomed'[c] \ victims'[c], m \in files' PROVE m \in astray'
    BY <1>4, InDoomed
<1>5. m \in Doomed' /\ Writing(m)' => m \in astray'
    BY <1>3
<1>6. ASSUME NEW e \in Deliveries
      PROVE  /\ delivery'[m][e] \in {"saved", "loading", "keyed"} => Stored(m)' \/ m \in astray'
             /\ delivery'[m][e] = "keyed" => m \in files' \/ m \in Doomed' \/ m \in torn'
  <2>1. CASE e = d
      BY <1>1, <2>1
  <2>2. CASE e # d
      BY <1>1, <1>2, <1>3, <2>2 DEF MediaOf
  <2> QED
      BY <2>1, <2>2
<1>7. ASSUME m \in files', m \notin astray' PROVE Pointed(m)' \/ Keyed(m)'
  <2>1. CASE step = "keyed"
      BY <1>1, <1>2, <2>1 DEF Keyed
  <2>2. CASE step # "keyed"
    <3>1. Pointed(m) \/ Keyed(m)
        BY <1>7, <2>2 DEF MediaOf
    <3>2. CASE Keyed(m)
      <4>1. PICK e \in Deliveries : delivery[m][e] = "keyed"
          BY <1>2, <3>2 DEF Keyed
      <4>2. CASE e = d
          BY <1>7, <4>1, <4>2
      <4>3. CASE e # d
          BY <1>1, <1>2, <4>1, <4>3 DEF Keyed
      <4> QED
          BY <4>2, <4>3
    <3> QED
        BY <3>1, <3>2
  <2> QED
      BY <2>1, <2>2
<1>8. ASSUME m \notin torn', Pointed(m)' PROVE m \in files' \/ m \in Doomed'
  <2>1. CASE Pointed(m)
      BY <1>3, <1>8, <2>1 DEF MediaOf
  <2>2. CASE delivery[m][d] = "keyed"
      BY <1>2, <1>3, <1>8, <2>2 DEF MediaOf
  <2> QED
      BY <1>8, <2>1, <2>2
<1> QED
    BY <1>2, <1>4, <1>5, <1>6, <1>7, <1>8 DEF MediaOf

LEMMA SaveEffect ==
    ASSUME TypeOK, NEW m \in Messages, NEW st \in -1 .. 3, NEW b \in BOOLEAN,
           save(m, [status |-> st, path |-> b])
    PROVE  /\ rows' \in [Messages -> Row \cup {NoRow}]
           /\ \A n \in Messages \ {m} : rows'[n] = rows[n]
           /\ Stored(m)'
           /\ Stored(m) => rows'[m] = rows[m]
           /\ ~Stored(m) => (Pointed(m)' <=> b)
<1> DEFINE r == [status |-> st, path |-> b]
<1>1. r \in Row /\ r # NoRow /\ r.path = b
    BY StoreAssumption DEF Row
<1>2. rows' = [rows EXCEPT ![m] = IF rows[m] = NoRow THEN r ELSE rows[m]]
    BY DEF save
<1> HIDE DEF r
<1>3. /\ rows' \in [Messages -> Row \cup {NoRow}]
      /\ \A n \in Messages \ {m} : rows'[n] = rows[n]
      /\ rows'[m] = IF rows[m] = NoRow THEN r ELSE rows[m]
    BY <1>1, <1>2 DEF TypeOK
<1> QED
    BY <1>1, <1>3 DEF Stored, Pointed

\* What recording one message has in common.
LEMMA Recorded ==
    ASSUME StoreInv, NEW m \in Messages,
           table' = table, opted' = opted, switch' = switch, wanted' = wanted,
           settled' = settled, crossed' = crossed,
           clean' = clean, doomed' = doomed, victims' = victims, cleanings' = cleanings,
           receipts' = receipts, inHand' = inHand, checked' = checked, early' = early, torn' = torn,
           events' \in 0 .. MaxEvents, faults' \in 0 .. MaxFaults,
           rows' \in [Messages -> Row \cup {NoRow}], files' \in SUBSET Messages,
           writer' \in [Sent -> WriterSteps],
           delivery' \in [Received -> [Deliveries -> DeliverySteps]], astray' \in SUBSET Messages,
           astray \subseteq astray',
           \A n \in Messages \ {m} :
               rows'[n] = rows[n] /\ SameRecord(n) /\ (n \in files' <=> n \in files),
           Stored(m) => Stored(m)' /\ rows'[m].status = rows[m].status,
           MediaOf(m)'
    PROVE  StoreInv'
<1>t. TypeOK /\ SwitchPart /\ ReceiptPart /\ MediaPart
    BY Parts DEF StoreInv
<1>1. TypeOK'
    BY <1>t DEF TypeOK, WriterSteps, DeliverySteps
<1>2. SwitchPart'
    BY <1>t, SwitchFrame
<1>3. \A n \in Messages : Stored(n) => Stored(n)' /\ rows'[n].status = rows[n].status
    BY DEF Stored
<1>4. ReceiptPart'
    BY <1>t, <1>3, ReceiptFrame
<1>5. MediaPart'
    BY <1>t, OneMessage
<1> QED
    BY <1>1, <1>2, <1>4, <1>5, PartsNext

LEMMA SendInv ==
    ASSUME StoreInv, NEW m \in Messages, Send(m)
    PROVE  StoreInv'
<1>t. TypeOK /\ MediaOf(m)
    BY Parts DEF StoreInv, MediaPart
<1>u. /\ rows' = rows /\ receipts' = receipts /\ files' = files
      /\ table' = table /\ opted' = opted /\ switch' = switch /\ wanted' = wanted
      /\ settled' = settled /\ crossed' = crossed
      /\ clean' = clean /\ doomed' = doomed /\ victims' = victims /\ cleanings' = cleanings
      /\ inHand' = inHand /\ checked' = checked /\ events' = events /\ faults' = faults /\ early' = early /\ torn' = torn
    BY DEF Send, data, archive, cleaning, receiving
<1>1. \E step \in {"allowed", "idle"} : Goes(m, step)
    BY DEF Send
<1>m. m \in Sent
    BY DEF Send
<1>2. /\ writer' \in [Sent -> WriterSteps] /\ writer'[m] \in {"allowed", "idle"}
      /\ delivery' \in [Received -> [Deliveries -> DeliverySteps]]
      /\ \A n \in Messages \ {m} : SameRecord(n)
    BY <1>t, <1>m, <1>1, GoesEffect DEF WriterSteps
<1>3. /\ astray' \in SUBSET Messages /\ astray \subseteq astray'
      /\ m \in Doomed => m \in astray'
    BY <1>t DEF Send, TypeOK
<1>4. m \in Sent /\ writer[m] = "unsent" /\ ~Stored(m)
    BY <1>t DEF Send, MediaOf
<1>5. (Stored(m)' <=> Stored(m)) /\ (Pointed(m)' <=> Pointed(m)) /\ (m \in Doomed' <=> m \in Doomed)
    BY <1>u DEF Stored, Pointed, Doomed
<1>6. MediaOf(m)'
    BY <1>t, <1>u, <1>2, <1>3, <1>4, <1>5 DEF MediaOf, Pointed, Keyed
<1>r. /\ rows' \in [Messages -> Row \cup {NoRow}] /\ files' \in SUBSET Messages
      /\ astray' \in SUBSET Messages /\ astray \subseteq astray'
      /\ events' \in 0 .. MaxEvents /\ faults' \in 0 .. MaxFaults
    BY <1>t, <1>u, <1>3 DEF TypeOK
<1>s. Stored(m) => Stored(m)' /\ rows'[m].status = rows[m].status
    BY <1>u DEF Stored
<1> QED
    BY <1>t, <1>u, <1>2, <1>3, <1>6, <1>r, <1>s, Recorded

LEMMA AttachInv ==
    ASSUME StoreInv, NEW m \in Messages, Attach(m)
    PROVE  StoreInv'
<1>t. TypeOK /\ MediaOf(m)
    BY Parts DEF StoreInv, MediaPart
<1>u. /\ rows' = rows /\ receipts' = receipts
      /\ table' = table /\ opted' = opted /\ switch' = switch /\ wanted' = wanted
      /\ settled' = settled /\ crossed' = crossed
      /\ clean' = clean /\ doomed' = doomed /\ victims' = victims /\ cleanings' = cleanings
      /\ inHand' = inHand /\ checked' = checked /\ events' = events /\ early' = early /\ torn' = torn
    BY DEF Attach, archive, cleaning, receiving
<1>1. m \in Sent /\ writer[m] = "allowed"
    BY DEF Attach
<1>2. /\ writer' \in [Sent -> WriterSteps]
      /\ delivery' \in [Received -> [Deliveries -> DeliverySteps]]
      /\ files' \in SUBSET Messages /\ astray' \in SUBSET Messages
      /\ faults' \in 0 .. MaxFaults
      /\ astray \subseteq astray'
      /\ \A n \in Messages \ {m} :
             SameRecord(n) /\ (n \in files' <=> n \in files)
      /\ \/ writer'[m] = "keyed" /\ m \in files'
         \/ writer'[m] = "plain" /\ (m \in astray' \/ files' = files)
  <2>1. CASE PutWorks(m) /\ Goes(m, "keyed")
      BY <1>t, <1>1, <2>1, PutEffect, GoesEffect DEF WriterSteps
  <2>2. CASE PutFails(m) /\ Goes(m, "plain")
      BY <1>t, <1>1, <2>2, PutEffect, GoesEffect DEF WriterSteps
  <2>3. CASE Goes(m, "plain") /\ UNCHANGED <<files, faults, astray>>
      BY <1>t, <1>1, <2>3, GoesEffect DEF WriterSteps, TypeOK
  <2> QED
      BY <2>1, <2>2, <2>3 DEF Attach
<1>3. (Stored(m)' <=> Stored(m)) /\ (Pointed(m)' <=> Pointed(m)) /\ (m \in Doomed' <=> m \in Doomed)
    BY <1>u DEF Stored, Pointed, Doomed
<1>4. m \in Doomed => m \in astray'
    BY <1>t, <1>1, <1>2 DEF MediaOf, Writing, Keyed
<1>5. MediaOf(m)'
    BY <1>t, <1>u, <1>1, <1>2, <1>3, <1>4, InDoomed DEF MediaOf, Pointed, Keyed
<1>r. /\ rows' \in [Messages -> Row \cup {NoRow}] /\ files' \in SUBSET Messages
      /\ astray' \in SUBSET Messages /\ astray \subseteq astray'
      /\ events' \in 0 .. MaxEvents /\ faults' \in 0 .. MaxFaults
    BY <1>t, <1>u, <1>2 DEF TypeOK
<1>s. Stored(m) => Stored(m)' /\ rows'[m].status = rows[m].status
    BY <1>u DEF Stored
<1> QED
    BY <1>t, <1>u, <1>2, <1>5, <1>r, <1>s, Recorded

LEMMA SaveSentInv ==
    ASSUME StoreInv, NEW m \in Messages, SaveSent(m)
    PROVE  StoreInv'
<1>t. TypeOK /\ MediaOf(m)
    BY Parts DEF StoreInv, MediaPart
<1>u. /\ files' = files /\ receipts' = receipts
      /\ table' = table /\ opted' = opted /\ switch' = switch /\ wanted' = wanted
      /\ settled' = settled /\ crossed' = crossed
      /\ clean' = clean /\ doomed' = doomed /\ victims' = victims /\ cleanings' = cleanings
      /\ inHand' = inHand /\ checked' = checked /\ events' = events /\ early' = early /\ torn' = torn
    BY DEF SaveSent, archive, cleaning, receiving
<1>1. m \in Sent /\ writer[m] \in {"keyed", "plain"} /\ ~Stored(m) /\ (writer[m] = "keyed" => m \in files)
    BY <1>t DEF SaveSent, MediaOf
<1>2. /\ writer' \in [Sent -> WriterSteps] /\ writer'[m] = "idle"
      /\ delivery' \in [Received -> [Deliveries -> DeliverySteps]]
      /\ \A n \in Messages \ {m} : SameRecord(n)
    BY <1>t, GoesEffect DEF SaveSent, WriterSteps
<1>3. faults' \in 0 .. MaxFaults
    BY <1>t, FaultsType DEF SaveSent
<1>4. /\ rows' \in [Messages -> Row \cup {NoRow}]
      /\ \A n \in Messages \ {m} : rows'[n] = rows[n]
      /\ astray' \in SUBSET Messages /\ astray \subseteq astray'
      /\ \/ (Pointed(m)' <=> writer[m] = "keyed") /\ astray' = astray
         \/ rows' = rows /\ m \in astray'
  <2>1. CASE save(m, [status |-> 0, path |-> writer[m] = "keyed"]) /\ UNCHANGED astray
    <3>1. PICK b \in BOOLEAN : b <=> writer[m] = "keyed"
        OBVIOUS
    <3>2. b = (writer[m] = "keyed")
        BY <3>1
    <3>3. save(m, [status |-> 0, path |-> b])
        BY <2>1, <3>2
    <3>4. 0 \in -1 .. 3
        OBVIOUS
    <3>5. /\ rows' \in [Messages -> Row \cup {NoRow}]
          /\ \A n \in Messages \ {m} : rows'[n] = rows[n]
          /\ Pointed(m)' <=> b
        BY <1>t, <1>1, <3>3, <3>4, SaveEffect
    <3> QED
        BY <1>t, <2>1, <3>1, <3>5 DEF TypeOK
  <2>2. CASE rows' = rows /\ astray' = astray \cup {m}
      BY <1>t, <2>2 DEF TypeOK
  <2> QED
      BY <2>1, <2>2 DEF SaveSent
<1>5. m \in Doomed' <=> m \in Doomed
    BY <1>u DEF Doomed
<1>6. MediaOf(m)'
  <2>1. CASE (Pointed(m)' <=> writer[m] = "keyed") /\ astray' = astray
    <3>1. m \in files /\ m \notin astray => writer[m] = "keyed"
        BY <1>t, <1>1 DEF MediaOf, Pointed, Keyed
    <3> QED
        BY <1>t, <1>u, <1>1, <1>2, <1>5, <2>1, <3>1 DEF MediaOf, Writing, Keyed
  <2>2. CASE rows' = rows /\ m \in astray'
    <3>1. ~Pointed(m)'
        BY <1>1, <2>2 DEF Pointed, Stored
    <3> QED
        BY <1>t, <1>u, <1>1, <1>2, <1>5, <2>2, <3>1 DEF MediaOf, Writing, Keyed
  <2> QED
      BY <1>4, <2>1, <2>2
<1> QED
    BY <1>t, <1>u, <1>1, <1>2, <1>3, <1>4, <1>6, Recorded DEF TypeOK

LEMMA ReceiveInv ==
    ASSUME StoreInv, NEW m \in Received, NEW d \in Deliveries, Receive(m, d)
    PROVE  StoreInv'
<1>t. TypeOK /\ MediaOf(m) /\ m \in Messages /\ m \notin Sent
    BY Parts DEF StoreInv, MediaPart, Received
<1>u. /\ rows' = rows /\ receipts' = receipts /\ files' = files /\ faults' = faults
      /\ table' = table /\ opted' = opted /\ switch' = switch /\ wanted' = wanted
      /\ settled' = settled /\ crossed' = crossed
      /\ clean' = clean /\ doomed' = doomed /\ victims' = victims /\ cleanings' = cleanings
      /\ inHand' = inHand /\ checked' = checked /\ early' = early /\ torn' = torn
    BY DEF Receive, data, archive, cleaning, receiving
<1>1. events' \in 0 .. MaxEvents
    BY <1>t, StoreAssumption DEF Receive, TypeOK
<1>2. delivery[m][d] = "idle" /\ Moves(m, d, "allowed") /\ "allowed" \in DeliverySteps
    BY DEF Receive, DeliverySteps
<1>3. /\ writer' \in [Sent -> WriterSteps]
      /\ delivery' \in [Received -> [Deliveries -> DeliverySteps]]
      /\ \A n \in Messages \ {m} : SameRecord(n)
    BY <1>t, <1>2, MovesEffect
<1>4. /\ astray' \in SUBSET Messages /\ astray \subseteq astray'
      /\ m \in Doomed => m \in astray'
    BY <1>t DEF Receive, TypeOK
<1>5. (Stored(m)' <=> Stored(m)) /\ (Pointed(m)' <=> Pointed(m))
    BY <1>u DEF Stored, Pointed
<1>6. MediaOf(m)'
    BY <1>t, <1>u, <1>2, <1>4, <1>5, MovedMedia
<1>r. /\ rows' \in [Messages -> Row \cup {NoRow}] /\ files' \in SUBSET Messages
      /\ faults' \in 0 .. MaxFaults
    BY <1>t, <1>u DEF TypeOK
<1>s. Stored(m) => Stored(m)' /\ rows'[m].status = rows[m].status
    BY <1>u DEF Stored
<1> QED
    BY <1>t, <1>u, <1>1, <1>3, <1>4, <1>6, <1>r, <1>s, Recorded

LEMMA SaveReceivedInv ==
    ASSUME StoreInv, NEW m \in Received, NEW d \in Deliveries, SaveReceived(m, d)
    PROVE  StoreInv'
<1>t. TypeOK /\ MediaOf(m) /\ m \in Messages /\ m \notin Sent
    BY Parts DEF StoreInv, MediaPart, Received
<1>u. /\ files' = files /\ receipts' = receipts /\ events' = events
      /\ table' = table /\ opted' = opted /\ switch' = switch /\ wanted' = wanted
      /\ settled' = settled /\ crossed' = crossed
      /\ clean' = clean /\ doomed' = doomed /\ victims' = victims /\ cleanings' = cleanings
      /\ inHand' = inHand /\ checked' = checked /\ early' = early /\ torn' = torn
    BY DEF SaveReceived, archive, cleaning, receiving
<1>1. faults' \in 0 .. MaxFaults
    BY <1>t, FaultsType DEF SaveReceived
<1>2. delivery[m][d] = "allowed" /\ Moves(m, d, "saved") /\ "saved" \in DeliverySteps
    BY DEF SaveReceived, DeliverySteps
<1>3. /\ writer' \in [Sent -> WriterSteps]
      /\ delivery' \in [Received -> [Deliveries -> DeliverySteps]]
      /\ \A n \in Messages \ {m} : SameRecord(n)
    BY <1>t, <1>2, MovesEffect
<1>4. /\ rows' \in [Messages -> Row \cup {NoRow}]
      /\ \A n \in Messages \ {m} : rows'[n] = rows[n]
      /\ astray' \in SUBSET Messages /\ astray \subseteq astray'
      /\ Stored(m) => rows'[m] = rows[m]
      /\ Stored(m)' \/ m \in astray'
      /\ Pointed(m)' <=> Pointed(m)
  <2>1. CASE save(m, [status |-> -1, path |-> FALSE]) /\ UNCHANGED astray
    <3>1. -1 \in -1 .. 3 /\ FALSE \in BOOLEAN
        OBVIOUS
    <3>2. /\ rows' \in [Messages -> Row \cup {NoRow}]
          /\ \A n \in Messages \ {m} : rows'[n] = rows[n]
          /\ Stored(m)'
          /\ Stored(m) => rows'[m] = rows[m]
          /\ ~Stored(m) => ~Pointed(m)'
        BY <1>t, <2>1, <3>1, SaveEffect
    <3> QED
        BY <1>t, <2>1, <3>2 DEF TypeOK, Pointed
  <2>2. CASE rows' = rows /\ astray' = astray \cup {m}
      BY <1>t, <2>2 DEF TypeOK, Pointed, Stored
  <2> QED
      BY <2>1, <2>2 DEF SaveReceived
<1>5. m \in Doomed => m \in astray
    BY <1>t, <1>2 DEF MediaOf, Writing
<1>6. Stored(m) => Stored(m)' /\ rows'[m].status = rows[m].status
    BY <1>4 DEF Stored
<1>7. MediaOf(m)'
    BY <1>t, <1>u, <1>2, <1>4, <1>5, <1>6, MovedMedia
<1>r. files' \in SUBSET Messages /\ events' \in 0 .. MaxEvents
    BY <1>t, <1>u DEF TypeOK
<1> QED
    BY <1>t, <1>u, <1>1, <1>3, <1>4, <1>6, <1>7, <1>r, Recorded

LEMMA StartDownloadInv ==
    ASSUME StoreInv, NEW m \in Received, NEW d \in Deliveries, StartDownload(m, d)
    PROVE  StoreInv'
<1>t. TypeOK /\ MediaOf(m) /\ m \in Messages /\ m \notin Sent
    BY Parts DEF StoreInv, MediaPart, Received
<1>u. /\ rows' = rows /\ receipts' = receipts /\ files' = files /\ events' = events
      /\ faults' = faults /\ astray' = astray
      /\ table' = table /\ opted' = opted /\ switch' = switch /\ wanted' = wanted
      /\ settled' = settled /\ crossed' = crossed
      /\ clean' = clean /\ doomed' = doomed /\ victims' = victims /\ cleanings' = cleanings
      /\ inHand' = inHand /\ checked' = checked /\ early' = early /\ torn' = torn
    BY DEF StartDownload, data, archive, cleaning, receiving
<1>1. delivery[m][d] = "saved"
    BY DEF StartDownload
<1>2. PICK step \in {"loading", "idle"} : Moves(m, d, step)
    BY DEF StartDownload
<1>3. step \in DeliverySteps
    BY DEF DeliverySteps
<1>4. /\ writer' \in [Sent -> WriterSteps]
      /\ delivery' \in [Received -> [Deliveries -> DeliverySteps]]
      /\ \A n \in Messages \ {m} : SameRecord(n)
    BY <1>t, <1>2, <1>3, MovesEffect
<1>5. (Stored(m)' <=> Stored(m)) /\ (Pointed(m)' <=> Pointed(m))
    BY <1>u DEF Stored, Pointed
<1>6. (m \in Doomed => m \in astray) /\ (Stored(m) \/ m \in astray)
    BY <1>t, <1>1 DEF MediaOf, Writing
<1>7. MediaOf(m)'
    BY <1>t, <1>u, <1>1, <1>2, <1>3, <1>5, <1>6, MovedMedia
<1>r. /\ rows' \in [Messages -> Row \cup {NoRow}] /\ files' \in SUBSET Messages
      /\ astray' \in SUBSET Messages
      /\ events' \in 0 .. MaxEvents /\ faults' \in 0 .. MaxFaults
    BY <1>t, <1>u DEF TypeOK
<1>s. Stored(m) => Stored(m)' /\ rows'[m].status = rows[m].status
    BY <1>u DEF Stored
<1> QED
    BY <1>t, <1>u, <1>4, <1>7, <1>r, <1>s, Recorded

LEMMA DownloadInv ==
    ASSUME StoreInv, NEW m \in Received, NEW d \in Deliveries, Download(m, d)
    PROVE  StoreInv'
<1>t. TypeOK /\ MediaOf(m) /\ m \in Messages /\ m \notin Sent
    BY Parts DEF StoreInv, MediaPart, Received
<1>u. /\ rows' = rows /\ receipts' = receipts /\ events' = events
      /\ table' = table /\ opted' = opted /\ switch' = switch /\ wanted' = wanted
      /\ settled' = settled /\ crossed' = crossed
      /\ clean' = clean /\ doomed' = doomed /\ victims' = victims /\ cleanings' = cleanings
      /\ inHand' = inHand /\ checked' = checked /\ early' = early /\ torn' = torn
    BY DEF Download, archive, cleaning, receiving
<1>1. delivery[m][d] = "loading"
    BY DEF Download
<1>2. /\ files' \in SUBSET Messages /\ astray' \in SUBSET Messages
      /\ faults' \in 0 .. MaxFaults
      /\ astray \subseteq astray' /\ files \subseteq files'
      /\ \A n \in Messages \ {m} : n \in files' <=> n \in files
      /\ \E step \in DeliverySteps :
             /\ Moves(m, d, step)
             /\ \/ step = "keyed" /\ m \in files'
                \/ step = "idle" /\ (m \in astray' \/ files' = files)
  <2>1. CASE PutWorks(m) /\ Moves(m, d, "keyed")
      BY <1>t, <2>1, PutEffect DEF DeliverySteps
  <2>2. CASE PutFails(m) /\ Moves(m, d, "idle")
      BY <1>t, <2>2, PutEffect DEF DeliverySteps
  <2>3. CASE Moves(m, d, "idle") /\ UNCHANGED <<files, faults, astray>>
      BY <1>t, <2>3 DEF DeliverySteps, TypeOK
  <2> QED
      BY <2>1, <2>2, <2>3 DEF Download
<1>3. PICK step \in DeliverySteps :
          /\ Moves(m, d, step)
          /\ \/ step = "keyed" /\ m \in files'
             \/ step = "idle" /\ (m \in astray' \/ files' = files)
    BY <1>2
<1>4. /\ writer' \in [Sent -> WriterSteps]
      /\ delivery' \in [Received -> [Deliveries -> DeliverySteps]]
      /\ \A n \in Messages \ {m} : SameRecord(n)
    BY <1>t, <1>3, MovesEffect
<1>5. (Stored(m)' <=> Stored(m)) /\ (Pointed(m)' <=> Pointed(m))
    BY <1>u DEF Stored, Pointed
<1>6. (m \in Doomed => m \in astray) /\ (Stored(m) \/ m \in astray)
    BY <1>t, <1>1 DEF MediaOf, Writing
<1>7. MediaOf(m)'
    BY <1>t, <1>u, <1>1, <1>2, <1>3, <1>5, <1>6, MovedMedia
<1>r. rows' \in [Messages -> Row \cup {NoRow}] /\ events' \in 0 .. MaxEvents
    BY <1>t, <1>u DEF TypeOK
<1>s. Stored(m) => Stored(m)' /\ rows'[m].status = rows[m].status
    BY <1>u DEF Stored
<1> QED
    BY <1>t, <1>u, <1>2, <1>4, <1>7, <1>r, <1>s, Recorded

LEMMA UpdateMediaInv ==
    ASSUME StoreInv, NEW m \in Received, NEW d \in Deliveries, updateMedia(m, d)
    PROVE  StoreInv'
<1>t. TypeOK /\ MediaOf(m) /\ m \in Messages /\ m \notin Sent
    BY Parts DEF StoreInv, MediaPart, Received
<1>u. /\ files' = files /\ receipts' = receipts /\ events' = events
      /\ table' = table /\ opted' = opted /\ switch' = switch /\ wanted' = wanted
      /\ settled' = settled /\ crossed' = crossed
      /\ clean' = clean /\ doomed' = doomed /\ victims' = victims /\ cleanings' = cleanings
      /\ inHand' = inHand /\ checked' = checked /\ early' = early /\ torn' = torn
    BY DEF updateMedia, archive, cleaning, receiving
<1>1. faults' \in 0 .. MaxFaults
    BY <1>t, FaultsType DEF updateMedia
<1>2. delivery[m][d] = "keyed" /\ Moves(m, d, "idle") /\ "idle" \in DeliverySteps
    BY DEF updateMedia, DeliverySteps
<1>3. /\ writer' \in [Sent -> WriterSteps]
      /\ delivery' \in [Received -> [Deliveries -> DeliverySteps]]
      /\ \A n \in Messages \ {m} : SameRecord(n)
    BY <1>t, <1>2, MovesEffect
<1>4. /\ rows' \in [Messages -> Row \cup {NoRow}]
      /\ \A n \in Messages \ {m} : rows'[n] = rows[n]
      /\ astray' \in SUBSET Messages /\ astray \subseteq astray'
      /\ Stored(m)' <=> Stored(m)
      /\ Stored(m) => rows'[m].status = rows[m].status
      /\ \/ Pointed(m)' <=> Stored(m)
         \/ rows' = rows /\ m \in astray'
  <2>1. CASE /\ rows' = [rows EXCEPT ![m] = IF @ = NoRow THEN @ ELSE [@ EXCEPT !.path = TRUE]]
             /\ UNCHANGED astray
    <3> DEFINE r == [rows[m] EXCEPT !.path = TRUE]
    <3>1. rows[m] # NoRow => /\ rows[m] \in Row /\ r \in Row /\ r # NoRow
                             /\ r.path = TRUE /\ r.status = rows[m].status
      <4> SUFFICES ASSUME rows[m] # NoRow
                   PROVE  rows[m] \in Row /\ r \in Row /\ r # NoRow
                             /\ r.path = TRUE /\ r.status = rows[m].status
          OBVIOUS
      <4>1. rows[m] \in Row
          BY <1>t DEF TypeOK
      <4>2. PICK st \in -1 .. 3, b \in BOOLEAN : rows[m] = [status |-> st, path |-> b]
          BY <4>1, RowFields
      <4>3. r = [status |-> st, path |-> TRUE]
          BY <4>2, RowPath
      <4>4. r \in Row /\ r # NoRow
          BY <4>3, RowMade
      <4> QED
          BY <4>1, <4>2, <4>3, <4>4
    <3>2. rows' = [rows EXCEPT ![m] = IF rows[m] = NoRow THEN rows[m] ELSE r]
        BY <2>1
    <3> HIDE DEF r
    <3>3. /\ rows' \in [Messages -> Row \cup {NoRow}]
          /\ \A n \in Messages \ {m} : rows'[n] = rows[n]
          /\ rows'[m] = IF rows[m] = NoRow THEN rows[m] ELSE r
        BY <1>t, <3>1, <3>2 DEF TypeOK
    <3>4. /\ Stored(m)' <=> Stored(m)
          /\ Stored(m) => rows'[m].status = rows[m].status
          /\ Pointed(m)' <=> Stored(m)
        BY <3>1, <3>3 DEF Stored, Pointed
    <3> QED
        BY <1>t, <2>1, <3>3, <3>4 DEF TypeOK
  <2>2. CASE rows' = rows /\ astray' = astray \cup {m}
      BY <1>t, <2>2 DEF TypeOK, Pointed, Stored
  <2> QED
      BY <2>1, <2>2 DEF updateMedia
<1>5. (m \in Doomed => m \in astray) /\ (Stored(m) \/ m \in astray)
    BY <1>t, <1>2 DEF MediaOf, Writing
<1>6. Stored(m) => Stored(m)' /\ rows'[m].status = rows[m].status
    BY <1>4
<1>7. /\ Pointed(m) => Pointed(m)'
      /\ Pointed(m)' \/ m \in astray'
  <2>1. CASE Pointed(m)' <=> Stored(m)
      BY <1>4, <1>5, <2>1 DEF Pointed
  <2>2. CASE rows' = rows /\ m \in astray'
      BY <2>2 DEF Pointed, Stored
  <2> QED
      BY <1>4, <2>1, <2>2
<1>8. MediaOf(m)'
    BY <1>t, <1>u, <1>2, <1>4, <1>5, <1>6, <1>7, MovedMedia
<1>r. files' \in SUBSET Messages /\ events' \in 0 .. MaxEvents
    BY <1>t, <1>u DEF TypeOK
<1> QED
    BY <1>t, <1>u, <1>1, <1>3, <1>4, <1>6, <1>8, <1>r, Recorded

-------------------------------------------------------------------------------
(***************************************************************************)
(* Receipts.                                                               *)
(***************************************************************************)

LEMMA AtMost == \A a, b, c \in Int : a <= b /\ c >= b => a <= c
OBVIOUS

LEMMA RaisedEffect ==
    ASSUME TypeOK, NEW m \in Messages, NEW rank \in Ranks
    PROVE  /\ Raised(rows[m], rank) \in Row \cup {NoRow}
           /\ Raised(rows[m], rank) = NoRow <=> rows[m] = NoRow
           /\ rows[m] # NoRow => /\ Raised(rows[m], rank).path = rows[m].path
                                 /\ Raised(rows[m], rank).status >= rows[m].status
                                 /\ Raised(rows[m], rank).status >= rank
<1>1. CASE rows[m] = NoRow
    BY <1>1 DEF Raised
<1>2. CASE rows[m] # NoRow
  <2>1. rows[m] \in Row
      BY <1>2 DEF TypeOK
  <2>2. PICK st \in -1 .. 3, b \in BOOLEAN : rows[m] = [status |-> st, path |-> b]
      BY <2>1, RowFields
  <2>3. CASE st < rank
    <3>1. Raised(rows[m], rank) = [status |-> rank, path |-> b]
        BY <1>2, <2>2, <2>3 DEF Raised
    <3>2. rank \in -1 .. 3 /\ st <= rank /\ rank >= rank
        BY <2>3 DEF Ranks
    <3> QED
        BY <1>2, <2>2, <3>1, <3>2, RowMade
  <2>4. CASE ~(st < rank)
    <3>1. Raised(rows[m], rank) = rows[m]
        BY <2>2, <2>4 DEF Raised
    <3>2. st >= rank /\ st >= st
        BY <2>4 DEF Ranks
    <3> QED
        BY <1>2, <2>1, <2>2, <3>1, <3>2
  <2> QED
      BY <2>3, <2>4
<1> QED
    BY <1>1, <1>2

LEMMA UpdateStatusInv ==
    ASSUME StoreInv, NEW r \in Receipt, updateStatus(r)
    PROVE  StoreInv'
<1>t. TypeOK /\ SwitchPart /\ ReceiptPart /\ MediaPart
    BY Parts DEF StoreInv
<1>u. /\ receipts' = receipts /\ files' = files
      /\ table' = table /\ opted' = opted /\ switch' = switch /\ wanted' = wanted
      /\ settled' = settled /\ crossed' = crossed
      /\ clean' = clean /\ doomed' = doomed /\ victims' = victims /\ cleanings' = cleanings
      /\ writer' = writer /\ delivery' = delivery /\ astray' = astray /\ torn' = torn
    BY DEF updateStatus, archive, cleaning, recording, receiving
<1>i. r.id \in Messages /\ r.rank \in Ranks
    BY DEF Receipt
<1>1. inHand' = r /\ checked' = checked /\ inHand = NoReceipt
    BY DEF updateStatus
<1>2. events' \in 0 .. MaxEvents
    BY <1>t, StoreAssumption DEF updateStatus, TypeOK
<1>3. faults' \in 0 .. MaxFaults
    BY <1>t, FaultsType DEF updateStatus
<1>4. /\ rows' \in [Messages -> Row \cup {NoRow}]
      /\ \A m \in Messages : /\ rows'[m] = NoRow <=> rows[m] = NoRow
                             /\ rows[m] # NoRow => /\ rows'[m].path = rows[m].path
                                                   /\ rows'[m].status >= rows[m].status
      /\ early' \in SUBSET Messages /\ early \subseteq early'
      /\ r.id \notin early' => rows[r.id] # NoRow /\ rows'[r.id].status >= r.rank
  <2>1. CASE /\ rows' = [rows EXCEPT ![r.id] = Raised(@, r.rank)]
             /\ early' = IF Stored(r.id) THEN early ELSE early \cup {r.id}
    <3>1. rows'[r.id] = Raised(rows[r.id], r.rank)
        BY <1>t, <1>i, <2>1 DEF TypeOK
    <3>2. \A m \in Messages \ {r.id} : rows'[m] = rows[m]
        BY <1>t, <1>i, <2>1 DEF TypeOK
    <3>3. rows' \in [Messages -> Row \cup {NoRow}]
        BY <1>t, <1>i, <2>1, RaisedEffect DEF TypeOK
    <3>4. \A m \in Messages \ {r.id} : rows[m] # NoRow => rows[m].status >= rows[m].status
        BY <1>t, RowFields DEF TypeOK
    <3>5. ASSUME NEW m \in Messages
          PROVE  /\ rows'[m] = NoRow <=> rows[m] = NoRow
                 /\ rows[m] # NoRow => /\ rows'[m].path = rows[m].path
                                       /\ rows'[m].status >= rows[m].status
        BY <1>t, <1>i, <3>1, <3>2, <3>4, RaisedEffect
    <3>6. early' \in SUBSET Messages /\ early \subseteq early'
        BY <1>t, <1>i, <2>1 DEF TypeOK
    <3>7. r.id \notin early' => rows[r.id] # NoRow /\ rows'[r.id].status >= r.rank
        BY <1>t, <1>i, <2>1, <3>1, RaisedEffect DEF Stored
    <3> QED
        BY <3>3, <3>5, <3>6, <3>7
  <2>2. CASE rows' = rows /\ early' = early \cup {r.id}
    <3>1. \A m \in Messages : rows[m] # NoRow => rows[m].status >= rows[m].status
        BY <1>t, RowFields DEF TypeOK
    <3> QED
        BY <1>t, <1>i, <2>2, <3>1 DEF TypeOK
  <2> QED
      BY <2>1, <2>2 DEF updateStatus
<1>5. TypeOK'
    BY <1>t, <1>u, <1>1, <1>2, <1>3, <1>4 DEF TypeOK
<1>6. SwitchPart'
    BY <1>t, <1>u, SwitchFrame
<1>7. MediaPart'
  <2>1. \A m \in Messages : (Stored(m)' <=> Stored(m)) /\ (Pointed(m)' <=> Pointed(m))
      BY <1>4 DEF Stored, Pointed
  <2> QED
      BY <1>t, <1>u, <2>1, MediaFrame
<1>8. ReceiptPart'
  <2>1. ASSUME NEW m \in Messages, m \notin early'
        PROVE  /\ ~Stored(m)' => ~Held(m)' /\ \A p \in Participants : receipts'[m][p] = 0
               /\ Stored(m)' /\ Held(m)' => inHand'.rank <= rows'[m].status
               /\ Stored(m)' => \A p \in Participants :
                      receipts'[m][p] <= rows'[m].status \/ receipts'[m][p] = 0
    <3>1. m \notin early
        BY <1>4, <2>1
    <3>2. ~Stored(m)' => ~Stored(m) /\ m # r.id
        BY <1>4, <2>1 DEF Stored
    <3>3. Held(m)' => m = r.id /\ inHand' = r
        BY <1>1 DEF Held
    <3>4. Stored(m)' /\ Held(m)' => inHand'.rank <= rows'[m].status
      <4>1. SUFFICES ASSUME Stored(m)', Held(m)' PROVE inHand'.rank <= rows'[m].status
          OBVIOUS
      <4>2. rows'[m].status >= r.rank /\ inHand'.rank = r.rank
          BY <1>4, <2>1, <3>3, <4>1
      <4>3. rows'[m].status \in Int /\ r.rank \in Int
          BY <1>4, <1>i, <4>1, RowFields DEF Stored, Ranks
      <4> QED
          BY <4>2, <4>3
    <3>5. ASSUME Stored(m)', NEW p \in Participants
          PROVE  receipts'[m][p] <= rows'[m].status \/ receipts'[m][p] = 0
      <4>1. rows[m] # NoRow /\ rows'[m] # NoRow
          BY <1>4, <3>5 DEF Stored
      <4>2. receipts[m][p] <= rows[m].status \/ receipts[m][p] = 0
          BY <1>t, <3>1, <4>1 DEF ReceiptPart, ReceiptsNotAhead, Stored
      <4>3. rows'[m].status \in Int /\ rows[m].status \in Int /\ receipts[m][p] \in Int
          BY <1>t, <1>4, <4>1, RowFields DEF TypeOK
      <4>4. rows'[m].status >= rows[m].status
          BY <1>4, <4>1
      <4>5. receipts[m][p] <= rows[m].status => receipts[m][p] <= rows'[m].status
          BY <4>3, <4>4, AtMost
      <4> QED
          BY <1>u, <4>2, <4>5
    <3>6. ~Stored(m)' => ~Held(m)' /\ \A p \in Participants : receipts'[m][p] = 0
        BY <1>t, <1>u, <3>1, <3>2, <3>3 DEF ReceiptPart, ReceiptInv
    <3> QED
        BY <3>4, <3>5, <3>6
  <2> QED
      BY <2>1 DEF ReceiptPart, ReceiptInv, ReceiptsNotAhead
<1> QED
    BY <1>5, <1>6, <1>7, <1>8, PartsNext

LEMMA CheckChatInv ==
    ASSUME StoreInv, checkChat
    PROVE  StoreInv'
<1>t. TypeOK /\ SwitchPart /\ ReceiptPart /\ MediaPart
    BY Parts DEF StoreInv
<1>u. /\ rows' = rows /\ files' = files /\ receipts' = receipts
      /\ table' = table /\ opted' = opted /\ switch' = switch /\ wanted' = wanted
      /\ settled' = settled /\ crossed' = crossed
      /\ clean' = clean /\ doomed' = doomed /\ victims' = victims /\ cleanings' = cleanings
      /\ writer' = writer /\ delivery' = delivery /\ events' = events /\ faults' = faults
      /\ early' = early /\ astray' = astray /\ torn' = torn
    BY DEF checkChat, data, archive, cleaning, recording
<1>1. inHand' \in {inHand, NoReceipt} /\ checked' \in BOOLEAN
    BY <1>t DEF checkChat, TypeOK
<1>2. TypeOK'
    BY <1>t, <1>u, <1>1 DEF TypeOK
<1>3. SwitchPart'
    BY <1>t, <1>u, SwitchFrame
<1>4. \A m \in Messages : (Stored(m)' <=> Stored(m)) /\ (Pointed(m)' <=> Pointed(m))
    BY <1>u DEF Stored, Pointed
<1>5. MediaPart'
    BY <1>t, <1>u, <1>4, MediaFrame
<1>6. ReceiptPart'
    BY <1>t, <1>u, <1>1, <1>4, ReceiptFrame
<1> QED
    BY <1>2, <1>3, <1>5, <1>6, PartsNext

LEMMA SaveReceiptsInv ==
    ASSUME StoreInv, saveReceipts
    PROVE  StoreInv'
<1>t. TypeOK /\ SwitchPart /\ ReceiptPart /\ MediaPart
    BY Parts DEF StoreInv
<1>u. /\ rows' = rows /\ files' = files
      /\ table' = table /\ opted' = opted /\ switch' = switch /\ wanted' = wanted
      /\ settled' = settled /\ crossed' = crossed
      /\ clean' = clean /\ doomed' = doomed /\ victims' = victims /\ cleanings' = cleanings
      /\ writer' = writer /\ delivery' = delivery /\ events' = events
      /\ early' = early /\ astray' = astray /\ torn' = torn
    BY DEF saveReceipts, archive, cleaning, recording, receiving
<1>1. inHand \in Receipt /\ inHand # NoReceipt /\ inHand' = NoReceipt /\ checked' = FALSE
    BY <1>t DEF saveReceipts, TypeOK
<1>2. PICK m0 \in Messages, p0 \in Participants, k \in Ranks :
          inHand = [id |-> m0, participant |-> p0, rank |-> k]
    BY <1>1 DEF Receipt
<1>3. inHand.id = m0 /\ inHand.participant = p0 /\ inHand.rank = k /\ k \in 1 .. 3
    BY <1>2 DEF Ranks
<1>4. faults' \in 0 .. MaxFaults
    BY <1>t, FaultsType DEF saveReceipts
<1>5. /\ receipts' \in [Messages -> [Participants -> 0 .. 3]]
      /\ \A m \in Messages, p \in Participants :
             receipts'[m][p] = receipts[m][p] \/ (m = m0 /\ receipts'[m][p] = k)
  <2>1. CASE receipts' = [receipts EXCEPT ![m0][p0] = IF @ < k THEN k ELSE @]
    <3>1. \/ receipts' = receipts
          \/ receipts' = [receipts EXCEPT ![m0] = [receipts[m0] EXCEPT ![p0] = k]]
        BY <1>t, <2>1 DEF TypeOK
    <3>2. [receipts[m0] EXCEPT ![p0] = k] \in [Participants -> 0 .. 3]
        BY <1>t, <1>3 DEF TypeOK
    <3>3. CASE receipts' = receipts
        BY <1>t, <3>3 DEF TypeOK
    <3>4. CASE receipts' = [receipts EXCEPT ![m0] = [receipts[m0] EXCEPT ![p0] = k]]
      <4>1. receipts' \in [Messages -> [Participants -> 0 .. 3]]
          BY <1>t, <3>2, <3>4 DEF TypeOK
      <4>2. receipts'[m0] = [receipts[m0] EXCEPT ![p0] = k] /\ \A m \in Messages \ {m0} : receipts'[m] = receipts[m]
          BY <1>t, <3>4 DEF TypeOK
      <4>3. \A p \in Participants : receipts'[m0][p] = receipts[m0][p] \/ receipts'[m0][p] = k
          BY <1>t, <4>2 DEF TypeOK
      <4> QED
          BY <4>1, <4>2, <4>3
    <3> QED
        BY <3>1, <3>3, <3>4
  <2>2. CASE receipts' = receipts
      BY <1>t, <2>2 DEF TypeOK
  <2> QED
      BY <1>3, <2>1, <2>2 DEF saveReceipts
<1>6. TypeOK'
    BY <1>t, <1>u, <1>1, <1>4, <1>5 DEF TypeOK
<1>7. SwitchPart'
    BY <1>t, <1>u, SwitchFrame
<1>8. MediaPart'
  <2>1. \A m \in Messages : (Stored(m)' <=> Stored(m)) /\ (Pointed(m)' <=> Pointed(m))
      BY <1>u DEF Stored, Pointed
  <2> QED
      BY <1>t, <1>u, <2>1, MediaFrame
<1>9. ReceiptPart'
  <2>1. ASSUME NEW m \in Messages, m \notin early'
        PROVE  /\ ~Stored(m)' => ~Held(m)' /\ \A p \in Participants : receipts'[m][p] = 0
               /\ Stored(m)' /\ Held(m)' => inHand'.rank <= rows'[m].status
               /\ Stored(m)' => \A p \in Participants :
                      receipts'[m][p] <= rows'[m].status \/ receipts'[m][p] = 0
    <3>1. /\ ~Stored(m) => ~Held(m) /\ \A p \in Participants : receipts[m][p] = 0
          /\ Stored(m) /\ Held(m) => inHand.rank <= rows[m].status
          /\ Stored(m) => \A p \in Participants :
                      receipts[m][p] <= rows[m].status \/ receipts[m][p] = 0
        BY <1>t, <1>u, <2>1 DEF ReceiptPart, ReceiptInv, ReceiptsNotAhead
    <3>2. (Stored(m)' <=> Stored(m)) /\ ~Held(m)' /\ (m = m0 => Held(m))
        BY <1>u, <1>1, <1>3 DEF Stored, Held
    <3> QED
        BY <1>u, <1>3, <1>5, <3>1, <3>2
  <2> QED
      BY <2>1 DEF ReceiptPart, ReceiptInv, ReceiptsNotAhead
<1> QED
    BY <1>6, <1>7, <1>8, <1>9, PartsNext

-------------------------------------------------------------------------------
(***************************************************************************)
(* The archive switch.                                                     *)
(***************************************************************************)

\* What the requests leave alone.
LEMMA Switched ==
    ASSUME StoreInv,
           rows' = rows, receipts' = receipts, files' = files,
           clean' = clean, doomed' = doomed, victims' = victims, cleanings' = cleanings,
           writer' = writer, delivery' = delivery, inHand' = inHand, checked' = checked, wanted' = wanted, events' = events, early' = early,
           astray' = astray, torn' = torn,
           table' \in SUBSET Chats, opted' \in SUBSET Chats,
           switch' \in [Switches -> {"new", "written", "done"}],
           settled' \in [Chats -> {"on", "off", "unknown"}], crossed' \in SUBSET Switches,
           faults' \in 0 .. MaxFaults,
           SwitchPart'
    PROVE  StoreInv'
<1>t. TypeOK /\ ReceiptPart /\ MediaPart
    BY Parts DEF StoreInv
<1>1. TypeOK'
    BY <1>t DEF TypeOK
<1>2. \A m \in Messages : Stored(m) => Stored(m)' /\ rows'[m].status = rows[m].status
    BY DEF Stored
<1>3. \A m \in Messages : (Stored(m)' <=> Stored(m)) /\ (Pointed(m)' <=> Pointed(m))
    BY DEF Stored, Pointed
<1>4. ReceiptPart'
    BY <1>t, <1>2, ReceiptFrame
<1>5. MediaPart'
    BY <1>t, <1>3, MediaFrame
<1> QED
    BY <1>1, <1>4, <1>5, PartsNext

LEMMA WithType ==
    ASSUME TypeOK, NEW s \in Switches, NEW set \in SUBSET Chats
    PROVE  /\ ChatWanted(s) \in Chats /\ wanted[s][2] \in BOOLEAN
           /\ With(set, s) \in SUBSET Chats
           /\ ChatWanted(s) \in With(set, s) <=> wanted[s][2]
           /\ \A c \in Chats : c # ChatWanted(s) => (c \in With(set, s) <=> c \in set)
<1>1. wanted[s] \in Chats \X BOOLEAN
    BY DEF TypeOK
<1>2. ChatWanted(s) \in Chats /\ wanted[s][2] \in BOOLEAN
    BY <1>1 DEF ChatWanted
<1> QED
    BY <1>2 DEF With

LEMMA SwitchWriteInv ==
    ASSUME StoreInv, NEW s \in Switches, SwitchWrite(s)
    PROVE  StoreInv'
<1>t. TypeOK /\ SwitchInv /\ SwitchKept
    BY DEF StoreInv
<1>u. /\ rows' = rows /\ receipts' = receipts /\ files' = files
      /\ clean' = clean /\ doomed' = doomed /\ victims' = victims /\ cleanings' = cleanings
      /\ writer' = writer /\ delivery' = delivery /\ inHand' = inHand /\ checked' = checked /\ events' = events /\ early' = early
      /\ opted' = opted /\ wanted' = wanted /\ astray' = astray /\ torn' = torn
    BY DEF SwitchWrite, data, cleaning, recording, receiving
<1>w. /\ ChatWanted(s) \in Chats /\ wanted[s][2] \in BOOLEAN
      /\ With(table, s) \in SUBSET Chats
      /\ ChatWanted(s) \in With(table, s) <=> wanted[s][2]
      /\ \A c \in Chats : c # ChatWanted(s) => (c \in With(table, s) <=> c \in table)
    BY <1>t, WithType DEF TypeOK
<1>1. faults' \in 0 .. MaxFaults
    BY <1>t, FaultsType DEF SwitchWrite
<1>2. /\ settled' \in [Chats -> {"on", "off", "unknown"}]
      /\ settled'[ChatWanted(s)] = "unknown"
      /\ \A c \in Chats : c # ChatWanted(s) => settled'[c] = settled[c]
    BY <1>t, <1>w DEF SwitchWrite, TypeOK
<1>3. /\ crossed' \in SUBSET Switches /\ crossed \subseteq crossed'
      /\ Others(s) # {} => s \in crossed'
      /\ Others(s) \subseteq crossed'
    BY <1>t DEF SwitchWrite, TypeOK, Others
<1>4. /\ table' \in SUBSET Chats
      /\ \A c \in Chats : c # ChatWanted(s) => (c \in table' <=> c \in table)
      /\ switch' \in [Switches -> {"new", "written", "done"}]
      /\ \A t \in Switches \ {s} : switch'[t] = switch[t]
      /\ switch'[s] = "written" => table' = With(table, s)
    BY <1>t, <1>w DEF SwitchWrite, TypeOK
<1>5. \A t \in Switches : ChatWanted(t)' = ChatWanted(t) /\ ChatWanted(t) \in Chats
    BY <1>t, <1>u, WithType DEF ChatWanted, TypeOK
<1>6. ASSUME NEW t \in Switches, switch'[t] = "written"
      PROVE  /\ settled'[ChatWanted(t)] = "unknown"
             /\ t \notin crossed' => /\ Others(t)' = {}
                                     /\ ChatWanted(t) \in table' <=> wanted[t][2]
  <2>1. CASE t = s
    <3>1. t \notin crossed' => Others(t)' = {}
        BY <1>3, <1>4, <1>5, <2>1 DEF Others
    <3> QED
        BY <1>2, <1>4, <1>6, <1>w, <2>1, <3>1
  <2>2. CASE t # s /\ ChatWanted(t) = ChatWanted(s)
    <3>1. t \in Others(s)
        BY <1>4, <1>6, <2>2 DEF Others
    <3> QED
        BY <1>2, <1>3, <2>2, <3>1
  <2>3. CASE t # s /\ ChatWanted(t) # ChatWanted(s)
    <3>1. switch[t] = "written"
        BY <1>4, <1>6, <2>3
    <3>2. /\ settled[ChatWanted(t)] = "unknown"
          /\ t \notin crossed => Others(t) = {} /\ (ChatWanted(t) \in table <=> wanted[t][2])
        BY <1>t, <3>1 DEF SwitchInv
    <3>3. Others(t)' = Others(t)
        BY <1>4, <1>5, <2>3 DEF Others
    <3> QED
        BY <1>2, <1>3, <1>4, <1>5, <2>3, <3>2, <3>3
  <2> QED
      BY <2>1, <2>2, <2>3
<1>7. SwitchInv'
    BY <1>5, <1>6, <1>u DEF SwitchInv
<1>8. SwitchKept'
    BY <1>t, <1>u, <1>2, <1>4 DEF SwitchKept
<1>o. opted' \in SUBSET Chats
    BY <1>t, <1>u DEF TypeOK
<1>9. SwitchPart'
    BY <1>7, <1>8 DEF SwitchPart
<1> QED
    BY <1>u, <1>o, <1>1, <1>2, <1>3, <1>4, <1>9, Switched

LEMMA SwitchApplyInv ==
    ASSUME StoreInv, NEW s \in Switches, SwitchApply(s)
    PROVE  StoreInv'
<1>t. TypeOK /\ SwitchInv /\ SwitchKept
    BY DEF StoreInv
<1>u. /\ rows' = rows /\ receipts' = receipts /\ files' = files
      /\ clean' = clean /\ doomed' = doomed /\ victims' = victims /\ cleanings' = cleanings
      /\ writer' = writer /\ delivery' = delivery /\ inHand' = inHand /\ checked' = checked /\ events' = events /\ early' = early /\ faults' = faults
      /\ table' = table /\ wanted' = wanted /\ crossed' = crossed /\ astray' = astray /\ torn' = torn
    BY DEF SwitchApply, data, cleaning, recording, receiving
<1>w. /\ ChatWanted(s) \in Chats /\ wanted[s][2] \in BOOLEAN
      /\ With(opted, s) \in SUBSET Chats
      /\ ChatWanted(s) \in With(opted, s) <=> wanted[s][2]
      /\ \A c \in Chats : c # ChatWanted(s) => (c \in With(opted, s) <=> c \in opted)
    BY <1>t, WithType DEF TypeOK
<1>1. /\ switch[s] = "written" /\ switch'[s] = "done" /\ opted' = With(opted, s)
      /\ switch' \in [Switches -> {"new", "written", "done"}]
      /\ \A t \in Switches \ {s} : switch'[t] = switch[t]
    BY <1>t DEF SwitchApply, TypeOK
<1>2. /\ settled[ChatWanted(s)] = "unknown"
      /\ s \notin crossed => Others(s) = {} /\ (ChatWanted(s) \in table <=> wanted[s][2])
    BY <1>t, <1>1 DEF SwitchInv
<1>3. /\ settled' \in [Chats -> {"on", "off", "unknown"}]
      /\ \A c \in Chats : c # ChatWanted(s) => settled'[c] = settled[c]
      /\ s \in crossed => settled'[ChatWanted(s)] = "unknown"
      /\ s \notin crossed => settled'[ChatWanted(s)] = IF wanted[s][2] THEN "on" ELSE "off"
  <2>1. CASE s \in crossed
      BY <1>t, <1>2, <2>1 DEF SwitchApply, TypeOK
  <2>2. CASE s \notin crossed
      BY <1>t, <1>w, <2>2 DEF SwitchApply, TypeOK
  <2> QED
      BY <2>1, <2>2
<1>5. \A t \in Switches : ChatWanted(t)' = ChatWanted(t) /\ ChatWanted(t) \in Chats
    BY <1>t, <1>u, WithType DEF ChatWanted, TypeOK
<1>6. ASSUME NEW t \in Switches, switch'[t] = "written"
      PROVE  /\ settled'[ChatWanted(t)] = "unknown"
             /\ t \notin crossed' => /\ Others(t)' = {}
                                     /\ ChatWanted(t) \in table' <=> wanted[t][2]
  <2>1. t # s /\ switch[t] = "written"
      BY <1>1, <1>6
  <2>2. /\ settled[ChatWanted(t)] = "unknown"
        /\ t \notin crossed => Others(t) = {} /\ (ChatWanted(t) \in table <=> wanted[t][2])
      BY <1>t, <2>1 DEF SwitchInv
  <2>3. Others(t)' \subseteq Others(t)
      BY <1>1, <1>5 DEF Others
  <2>4. ChatWanted(t) = ChatWanted(s) => s \in crossed
      BY <1>2, <2>1 DEF Others
  <2>5. settled'[ChatWanted(t)] = "unknown"
      BY <1>3, <1>5, <2>2, <2>4
  <2> QED
      BY <1>u, <2>2, <2>3, <2>5
<1>7. SwitchInv'
    BY <1>5, <1>6, <1>u DEF SwitchInv
<1>8. SwitchKept'
  <2>1. ASSUME NEW c \in Chats
        PROVE  /\ settled'[c] = "on" => c \in opted' /\ c \in table'
               /\ settled'[c] = "off" => c \notin opted' /\ c \notin table'
    <3>1. CASE c # ChatWanted(s)
      <4>1. (c \in opted' <=> c \in opted) /\ settled'[c] = settled[c]
          BY <1>1, <1>3, <1>w, <3>1
      <4> QED
          BY <1>t, <1>u, <4>1 DEF SwitchKept
    <3>2. CASE c = ChatWanted(s)
      <4>1. c \in opted' <=> wanted[s][2]
          BY <1>1, <1>w, <3>2
      <4>2. CASE s \in crossed
          BY <1>3, <3>2, <4>2
      <4>3. CASE s \notin crossed
          BY <1>u, <1>2, <1>3, <3>2, <4>1, <4>3
      <4> QED
          BY <4>2, <4>3
    <3> QED
        BY <3>1, <3>2
  <2> QED
      BY <2>1 DEF SwitchKept
<1>9. SwitchPart'
    BY <1>7, <1>8 DEF SwitchPart
<1>o. /\ table' \in SUBSET Chats /\ crossed' \in SUBSET Switches /\ faults' \in 0 .. MaxFaults
      /\ opted' \in SUBSET Chats
    BY <1>t, <1>u, <1>w, <1>1 DEF TypeOK
<1> QED
    BY <1>u, <1>o, <1>1, <1>3, <1>9, Switched

LEMMA DeleteArchiveInv ==
    ASSUME StoreInv, DeleteArchive
    PROVE  StoreInv'
<1>t. TypeOK /\ SwitchPart /\ ReceiptPart /\ MediaPart
    BY Parts DEF StoreInv
<1>u. /\ rows' = rows /\ receipts' = receipts /\ files' = files
      /\ opted' = opted /\ switch' = switch /\ wanted' = wanted
      /\ doomed' = doomed /\ victims' = victims /\ cleanings' = cleanings
      /\ writer' = writer /\ delivery' = delivery /\ inHand' = inHand /\ checked' = checked /\ events' = events
      /\ early' = early /\ astray' = astray /\ torn' = torn
    BY DEF DeleteArchive, data, recording, receiving
<1>1. faults' \in 0 .. MaxFaults
    BY <1>t, FaultsType DEF DeleteArchive
<1>2. /\ clean' \in [Cleaners -> {"idle", "files", "archive", "rows"}]
      /\ clean[Remover] = "archive" /\ clean'[Remover] = "rows"
      /\ \A c \in Cleaners \ {Remover} : clean'[c] = clean[c]
    BY <1>t DEF DeleteArchive, TypeOK, Cleaners
<1>3. table' \in SUBSET Chats /\ table' \subseteq table
    BY <1>t DEF DeleteArchive, TypeOK
<1>4. /\ settled' \in [Chats -> {"on", "off", "unknown"}]
      /\ \A c \in Chats : /\ settled'[c] = "off" => settled[c] = "off"
                          /\ settled'[c] # "on"
                          /\ settled[c] = "unknown" => settled'[c] = "unknown"
    BY <1>t DEF DeleteArchive, TypeOK
<1>5. /\ crossed' \in SUBSET Switches
      /\ \A s \in Switches : switch[s] = "written" => s \in crossed'
    BY <1>t DEF DeleteArchive, TypeOK
<1>6. TypeOK'
    BY <1>t, <1>u, <1>1, <1>2, <1>3, <1>4, <1>5 DEF TypeOK
<1>7. SwitchPart'
  <2>1. \A t \in Switches : ChatWanted(t)' = ChatWanted(t) /\ ChatWanted(t) \in Chats
      BY <1>t, <1>u, WithType DEF ChatWanted, TypeOK
  <2>2. SwitchInv'
      BY <1>t, <1>u, <1>4, <1>5, <2>1 DEF SwitchPart, SwitchInv
  <2>3. SwitchKept'
      BY <1>t, <1>u, <1>3, <1>4 DEF SwitchPart, SwitchKept
  <2> QED
      BY <2>2, <2>3 DEF SwitchPart
<1>8. ReceiptPart'
  <2>1. \A m \in Messages : Stored(m) => Stored(m)' /\ rows'[m].status = rows[m].status
      BY <1>u DEF Stored
  <2> QED
      BY <1>t, <1>u, <2>1, ReceiptFrame
<1>9. MediaPart'
  <2>1. \A m \in Messages : (Stored(m)' <=> Stored(m)) /\ (Pointed(m)' <=> Pointed(m))
      BY <1>u DEF Stored, Pointed
  <2>2. victims[Remover] = {}
      BY <1>t, <1>2 DEF MediaPart, PhaseInv, Cleaners
  <2>3. \A c \in Cleaners : clean'[c] # clean[c] =>
                clean[c] # "idle" /\ victims[c] = {} /\ clean'[c] # "idle"
      BY <1>2, <2>2
  <2> QED
      BY <1>t, <1>u, <2>1, <2>3, MediaFrame
<1> QED
    BY <1>6, <1>7, <1>8, <1>9, PartsNext

-------------------------------------------------------------------------------
(***************************************************************************)
(* Cleaning.                                                               *)
(***************************************************************************)

LEMMA CleanBeginInv ==
    ASSUME StoreInv, NEW c \in Cleaners, NEW old \in SUBSET Messages, CleanBegin(c, old)
    PROVE  StoreInv'
<1>t. TypeOK /\ SwitchPart /\ ReceiptPart /\ MediaPart
    BY Parts DEF StoreInv
<1>u. /\ rows' = rows /\ receipts' = receipts /\ files' = files
      /\ table' = table /\ opted' = opted /\ switch' = switch /\ wanted' = wanted
      /\ settled' = settled /\ crossed' = crossed
      /\ writer' = writer /\ delivery' = delivery /\ inHand' = inHand /\ checked' = checked /\ events' = events
      /\ early' = early /\ torn' = torn
    BY DEF CleanBegin, data, archive, recording, receiving
<1>1. cleanings' \in 0 .. MaxCleanings
    BY <1>t, StoreAssumption DEF CleanBegin, TypeOK
<1>2. faults' \in 0 .. MaxFaults
    BY <1>t, FaultsType DEF CleanBegin
<1>3. /\ clean[c] = "idle" /\ clean'[c] = "files"
      /\ clean' \in [Cleaners -> {"idle", "files", "archive", "rows"}]
      /\ \A d \in Cleaners \ {c} : clean'[d] = clean[d]
    BY <1>t DEF CleanBegin, TypeOK
<1>4. /\ doomed' \in [Cleaners -> SUBSET Messages] /\ doomed'[c] = old
      /\ \A d \in Cleaners \ {c} : doomed'[d] = doomed[d]
    BY <1>t DEF CleanBegin, TypeOK
<1>5. doomed[c] = {} /\ victims[c] = {}
    BY <1>t, <1>3 DEF MediaPart, PhaseInv
<1>6. /\ victims' \in [Cleaners -> SUBSET Messages]
      /\ \A d \in Cleaners \ {c} : victims'[d] = victims[d]
      /\ astray' \in SUBSET Messages /\ astray \subseteq astray'
      /\ \A m \in old : Writing(m) => m \in astray'
      /\ \A m \in victims'[c] : m \in old /\ Pointed(m)
      /\ \A m \in old : Pointed(m) => m \in victims'[c] \/ m \in astray'
  <2>1. CASE /\ victims' = [victims EXCEPT ![c] = {m \in old : Pointed(m)}]
             /\ astray' = astray \cup {m \in old : Writing(m)}
      BY <1>t, <2>1 DEF TypeOK
  <2>2. CASE /\ astray' = astray \cup {m \in old : Writing(m)} \cup {m \in old : Pointed(m)}
             /\ UNCHANGED victims
      BY <1>t, <1>5, <2>2 DEF TypeOK
  <2> QED
      BY <2>1, <2>2 DEF CleanBegin
<1>7. TypeOK'
    BY <1>t, <1>u, <1>1, <1>2, <1>3, <1>4, <1>6 DEF TypeOK
<1>8. SwitchPart'
    BY <1>t, <1>u, SwitchFrame
<1>9. ReceiptPart'
  <2>1. \A m \in Messages : Stored(m) => Stored(m)' /\ rows'[m].status = rows[m].status
      BY <1>u DEF Stored
  <2> QED
      BY <1>t, <1>u, <2>1, ReceiptFrame
<1>10. PhaseInv'
    BY <1>t, <1>3, <1>4, <1>6 DEF MediaPart, PhaseInv
<1>11. ASSUME NEW m \in Messages PROVE MediaOf(m)'
  <2>1. /\ Stored(m)' <=> Stored(m)
        /\ Pointed(m)' <=> Pointed(m)
        /\ Writing(m)' <=> Writing(m)
        /\ Keyed(m)' <=> Keyed(m)
      BY <1>u DEF Stored, Pointed, Writing, Keyed
  <2>2. m \in Doomed' <=> m \in old \/ m \in Doomed
      BY <1>4, <1>5 DEF Doomed
  <2>3. MediaOf(m)
      BY <1>t DEF MediaPart
  <2>4. ASSUME NEW d \in Cleaners, m \in doomed'[d] \ victims'[d], m \in files'
        PROVE  m \in astray'
    <3>1. CASE d = c
      <4>1. m \in old /\ ~(Pointed(m) /\ m \notin astray')
          BY <1>4, <1>6, <2>4, <3>1
      <4>2. Keyed(m) => Writing(m)
          BY DEF Writing, Keyed
      <4> QED
          BY <1>u, <1>6, <2>3, <2>4, <4>1, <4>2 DEF MediaOf
    <3>2. CASE d # c
        BY <1>u, <1>4, <1>6, <2>3, <2>4, <3>2 DEF MediaOf
    <3> QED
        BY <3>1, <3>2
  <2>5. m \in Doomed' /\ Writing(m)' => m \in astray'
      BY <1>6, <2>1, <2>2, <2>3 DEF MediaOf
  <2>6. m \in Sent =>
        /\ writer'[m] # "idle" => ~Stored(m)' /\ \A d \in Cleaners : m \notin victims'[d]
        /\ writer'[m] = "keyed" => m \in files'
      BY <1>u, <1>6, <2>1, <2>3 DEF MediaOf, Pointed
  <2>7. m \notin Sent => \A d \in Deliveries :
        /\ delivery'[m][d] \in {"saved", "loading", "keyed"} => Stored(m)' \/ m \in astray'
        /\ delivery'[m][d] = "keyed" => m \in files' \/ m \in Doomed' \/ m \in torn'
      BY <1>u, <1>6, <2>1, <2>2, <2>3 DEF MediaOf
  <2>8. /\ m \in files' /\ m \notin astray' => Pointed(m)' \/ Keyed(m)'
        /\ m \notin torn' /\ Pointed(m)' => m \in files' \/ m \in Doomed'
      BY <1>u, <1>6, <2>1, <2>2, <2>3 DEF MediaOf
  <2> QED
      BY <2>4, <2>5, <2>6, <2>7, <2>8 DEF MediaOf
<1> QED
    BY <1>7, <1>8, <1>9, <1>10, <1>11, PartsNext DEF MediaPart

LEMMA DeleteFileInv ==
    ASSUME StoreInv, NEW c \in Cleaners, NEW m \in Messages, DeleteFile(c, m)
    PROVE  StoreInv'
<1>t. TypeOK /\ SwitchPart /\ ReceiptPart /\ MediaPart
    BY Parts DEF StoreInv
<1>u. /\ rows' = rows /\ receipts' = receipts
      /\ table' = table /\ opted' = opted /\ switch' = switch /\ wanted' = wanted
      /\ settled' = settled /\ crossed' = crossed
      /\ clean' = clean /\ doomed' = doomed /\ cleanings' = cleanings
      /\ writer' = writer /\ delivery' = delivery /\ inHand' = inHand /\ checked' = checked /\ events' = events
      /\ early' = early /\ torn' = torn
    BY DEF DeleteFile, archive, recording, receiving
<1>1. faults' \in 0 .. MaxFaults
    BY <1>t, FaultsType DEF DeleteFile
<1>2. /\ clean[c] = "files" /\ m \in victims[c]
      /\ victims' \in [Cleaners -> SUBSET Messages]
      /\ victims'[c] = victims[c] \ {m}
      /\ \A d \in Cleaners \ {c} : victims'[d] = victims[d]
    BY <1>t DEF DeleteFile, TypeOK
<1>3. /\ files' \in SUBSET Messages /\ astray' \in SUBSET Messages
      /\ astray \subseteq astray'
      /\ \A n \in Messages \ {m} : n \in files' <=> n \in files
      /\ m \notin files' \/ (m \in astray' /\ files' = files)
    BY <1>t DEF DeleteFile, TypeOK
<1>4. TypeOK'
    BY <1>t, <1>u, <1>1, <1>2, <1>3 DEF TypeOK
<1>5. SwitchPart'
    BY <1>t, <1>u, SwitchFrame
<1>6. ReceiptPart'
  <2>1. \A n \in Messages : Stored(n) => Stored(n)' /\ rows'[n].status = rows[n].status
      BY <1>u DEF Stored
  <2> QED
      BY <1>t, <1>u, <2>1, ReceiptFrame
<1>7. PhaseInv'
    BY <1>t, <1>u, <1>2 DEF MediaPart, PhaseInv
<1>8. ASSUME NEW n \in Messages PROVE MediaOf(n)'
  <2>1. /\ Stored(n)' <=> Stored(n)
        /\ Pointed(n)' <=> Pointed(n)
        /\ Writing(n)' <=> Writing(n)
        /\ Keyed(n)' <=> Keyed(n)
        /\ n \in Doomed' <=> n \in Doomed
      BY <1>u DEF Stored, Pointed, Writing, Keyed, Doomed
  <2>2. MediaOf(n)
      BY <1>t DEF MediaPart
  <2>3. \A d \in Cleaners : victims'[d] \subseteq victims[d]
      BY <1>2
  <2>4. CASE n # m
    <3>1. (n \in files' <=> n \in files) /\ \A d \in Cleaners : n \in victims'[d] <=> n \in victims[d]
        BY <1>2, <1>3, <2>4
    <3> QED
        BY <1>u, <1>3, <2>1, <2>2, <3>1 DEF MediaOf
  <2>5. CASE n = m
    <3>1. n \in doomed[c]
        BY <1>t, <1>2, <2>5 DEF MediaPart, PhaseInv
    <3>2. n \in Doomed
        BY <3>1, InDoomed
    <3>3. n \in Sent => writer[n] = "idle"
        BY <1>2, <2>2, <2>5 DEF MediaOf
    <3>4. n \in files' => n \in astray'
        BY <1>3, <2>5
    <3> QED
        BY <1>u, <1>3, <2>1, <2>2, <3>2, <3>3, <3>4 DEF MediaOf
  <2> QED
      BY <2>4, <2>5
<1> QED
    BY <1>4, <1>5, <1>6, <1>7, <1>8, PartsNext DEF MediaPart

LEMMA DeleteReceiptsInv ==
    ASSUME StoreInv, NEW c \in Cleaners, DeleteReceipts(c)
    PROVE  StoreInv'
<1>t. TypeOK /\ SwitchPart /\ ReceiptPart /\ MediaPart
    BY Parts DEF StoreInv
<1>u. /\ rows' = rows /\ files' = files
      /\ table' = table /\ opted' = opted /\ switch' = switch /\ wanted' = wanted
      /\ settled' = settled /\ crossed' = crossed
      /\ doomed' = doomed /\ victims' = victims /\ cleanings' = cleanings
      /\ writer' = writer /\ delivery' = delivery /\ inHand' = inHand /\ checked' = checked /\ events' = events
      /\ early' = early /\ astray' = astray /\ torn' = torn
    BY DEF DeleteReceipts, archive, recording, receiving
<1>1. faults' \in 0 .. MaxFaults
    BY <1>t, FaultsType DEF DeleteReceipts
<1>2. /\ clean[c] = "files" /\ victims[c] = {} /\ clean'[c] \in {"archive", "rows"}
      /\ clean' \in [Cleaners -> {"idle", "files", "archive", "rows"}]
      /\ \A d \in Cleaners \ {c} : clean'[d] = clean[d]
    BY <1>t DEF DeleteReceipts, TypeOK
<1>3. /\ receipts' \in [Messages -> [Participants -> 0 .. 3]]
      /\ \A m \in Messages :
             receipts'[m] = receipts[m] \/ \A p \in Participants : receipts'[m][p] = 0
    BY <1>t DEF DeleteReceipts, TypeOK
<1>4. TypeOK'
    BY <1>t, <1>u, <1>1, <1>2, <1>3 DEF TypeOK
<1>5. SwitchPart'
    BY <1>t, <1>u, SwitchFrame
<1>6. \A m \in Messages : /\ Stored(m)' <=> Stored(m)
                          /\ Pointed(m)' <=> Pointed(m)
                          /\ Held(m)' <=> Held(m)
    BY <1>u DEF Stored, Pointed, Held
<1>7. ReceiptPart'
  <2>1. ReceiptInv'
      BY <1>t, <1>u, <1>3, <1>6 DEF ReceiptPart, ReceiptInv
  <2>2. ReceiptsNotAhead'
      BY <1>t, <1>u, <1>3, <1>6 DEF ReceiptPart, ReceiptsNotAhead
  <2> QED
      BY <2>1, <2>2 DEF ReceiptPart
<1>8. MediaPart'
    BY <1>t, <1>u, <1>2, <1>6, MediaFrame
<1> QED
    BY <1>4, <1>5, <1>7, <1>8, PartsNext

LEMMA DeleteRowsInv ==
    ASSUME StoreInv, NEW c \in Cleaners, DeleteRows(c)
    PROVE  StoreInv'
<1>t. TypeOK /\ SwitchPart /\ ReceiptPart /\ MediaPart
    BY Parts DEF StoreInv
<1>u. /\ receipts' = receipts /\ files' = files
      /\ table' = table /\ opted' = opted /\ switch' = switch /\ wanted' = wanted
      /\ settled' = settled /\ crossed' = crossed
      /\ victims' = victims /\ cleanings' = cleanings
      /\ writer' = writer /\ delivery' = delivery /\ inHand' = inHand /\ checked' = checked /\ events' = events /\ astray' = astray
    BY DEF DeleteRows, archive, recording, receiving
<1>1. faults' \in 0 .. MaxFaults
    BY <1>t, FaultsType DEF DeleteRows
<1>2. /\ clean[c] = "rows" /\ clean'[c] = "idle"
      /\ clean' \in [Cleaners -> {"idle", "files", "archive", "rows"}]
      /\ \A d \in Cleaners \ {c} : clean'[d] = clean[d]
    BY <1>t DEF DeleteRows, TypeOK
<1>3. /\ doomed' \in [Cleaners -> SUBSET Messages] /\ doomed'[c] = {}
      /\ \A d \in Cleaners \ {c} : doomed'[d] = doomed[d]
    BY <1>t DEF DeleteRows, TypeOK
<1>4. victims[c] = {}
    BY <1>t, <1>2 DEF MediaPart, PhaseInv
<1>5. /\ rows' \in [Messages -> Row \cup {NoRow}]
      /\ early' \in SUBSET Messages /\ early \subseteq early'
      /\ torn' \in SUBSET Messages /\ torn \subseteq torn'
      /\ \A m \in Messages \ doomed[c] : rows'[m] = rows[m]
      /\ \A m \in Messages : m \in doomed[c] =>
             \/ /\ rows'[m] = NoRow
                /\ HasReceipt(m) => m \in early'
                /\ Keyed(m) => m \in files \/ m \in torn'
             \/ rows'[m] = rows[m] /\ m \in torn'
  <2>1. CASE /\ rows' = [m \in Messages |-> IF m \in doomed[c] THEN NoRow ELSE rows[m]]
             /\ early' = early \cup {m \in doomed[c] : HasReceipt(m)}
             /\ torn' = torn \cup {m \in doomed[c] : Keyed(m) /\ m \notin files}
      BY <1>t, <2>1 DEF TypeOK
  <2>2. CASE rows' = rows /\ early' = early /\ torn' = torn \cup doomed[c]
      BY <1>t, <2>2 DEF TypeOK
  <2> QED
      BY <2>1, <2>2 DEF DeleteRows
<1>6. TypeOK'
    BY <1>t, <1>u, <1>1, <1>2, <1>3, <1>5 DEF TypeOK
<1>7. SwitchPart'
    BY <1>t, <1>u, SwitchFrame
<1>8. PhaseInv'
    BY <1>t, <1>u, <1>2, <1>3, <1>4 DEF MediaPart, PhaseInv
<1>9. ReceiptPart'
  <2>1. ASSUME NEW m \in Messages, m \notin early'
        PROVE  /\ ~Stored(m)' => ~Held(m)' /\ \A p \in Participants : receipts'[m][p] = 0
               /\ Stored(m)' /\ Held(m)' => inHand'.rank <= rows'[m].status
               /\ Stored(m)' => \A p \in Participants :
                      receipts'[m][p] <= rows'[m].status \/ receipts'[m][p] = 0
    <3>1. /\ ~Stored(m) => ~Held(m) /\ \A p \in Participants : receipts[m][p] = 0
          /\ Stored(m) /\ Held(m) => inHand.rank <= rows[m].status
          /\ Stored(m) => \A p \in Participants :
                      receipts[m][p] <= rows[m].status \/ receipts[m][p] = 0
        BY <1>t, <1>5, <2>1 DEF ReceiptPart, ReceiptInv, ReceiptsNotAhead
    <3>2. Held(m)' <=> Held(m)
        BY <1>u DEF Held
    <3>3. CASE rows'[m] = rows[m]
      <4>1. Stored(m)' <=> Stored(m)
          BY <3>3 DEF Stored
      <4> QED
          BY <1>u, <3>1, <3>2, <3>3, <4>1
    <3>4. CASE rows'[m] = NoRow /\ ~HasReceipt(m)
      <4>1. ~Stored(m)' /\ ~Held(m)
          BY <3>4 DEF Stored, Held, HasReceipt
      <4>2. \A p \in Participants : receipts[m][p] = 0
        <5>1. ASSUME NEW p \in Participants PROVE receipts[m][p] = 0
          <6>1. receipts[m][p] \in 0 .. 3
              BY <1>t DEF TypeOK
          <6>2. ~(receipts[m][p] > 0)
              BY <3>4 DEF HasReceipt
          <6> QED
              BY <6>1, <6>2
        <5> QED
            BY <5>1
      <4> QED
          BY <1>u, <3>2, <4>1, <4>2
    <3> QED
        BY <1>5, <2>1, <3>3, <3>4
  <2> QED
      BY <2>1 DEF ReceiptPart, ReceiptInv, ReceiptsNotAhead
<1>10. ASSUME NEW m \in Messages PROVE MediaOf(m)'
  <2>1. MediaOf(m)
      BY <1>t DEF MediaPart
  <2>2. \A d \in Cleaners : doomed'[d] \subseteq doomed[d]
      BY <1>3
  <2>3. (Writing(m)' <=> Writing(m)) /\ (Keyed(m)' <=> Keyed(m))
      BY <1>u DEF Writing, Keyed
  <2>4. CASE m \notin doomed[c]
    <3>1. m \in Doomed' <=> m \in Doomed
        BY <1>3, <2>4 DEF Doomed
    <3>2. (Stored(m)' <=> Stored(m)) /\ (Pointed(m)' <=> Pointed(m))
        BY <1>5, <2>4 DEF Stored, Pointed
    <3> QED
        BY <1>u, <1>5, <2>1, <2>2, <2>3, <3>1, <3>2 DEF MediaOf
  <2>5. CASE m \in doomed[c]
    <3>1. m \in files => m \in astray
        BY <1>4, <2>1, <2>5 DEF MediaOf
    <3>2. m \in Doomed
        BY <2>5, InDoomed
    <3>3. Writing(m) => m \in astray
        BY <2>1, <3>2 DEF MediaOf
    <3>4. m \notin Sent => \A d \in Deliveries :
              /\ delivery[m][d] \in {"saved", "loading", "keyed"} => Writing(m)
              /\ delivery[m][d] = "keyed" => Keyed(m)
        BY DEF Writing, Keyed
    <3>5. Stored(m)' => Stored(m) /\ m \in torn'
        BY <1>5, <2>5 DEF Stored
    <3>6. Pointed(m)' => Stored(m)'
        BY DEF Pointed
    <3>7. m \in files' => m \in astray'
        BY <1>u, <3>1
    <3>8. \A d \in Cleaners : m \in doomed'[d] \ victims'[d] /\ m \in files' => m \in astray'
        BY <3>7
    <3>9. m \in Doomed' /\ Writing(m)' => m \in astray'
        BY <1>u, <2>3, <3>3
    <3>10. m \in Sent =>
          /\ writer'[m] # "idle" => ~Stored(m)' /\ \A d \in Cleaners : m \notin victims'[d]
          /\ writer'[m] = "keyed" => m \in files'
        BY <1>u, <2>1, <3>5 DEF MediaOf
    <3>11. m \notin Sent => \A d \in Deliveries :
          /\ delivery'[m][d] \in {"saved", "loading", "keyed"} => Stored(m)' \/ m \in astray'
          /\ delivery'[m][d] = "keyed" => m \in files' \/ m \in Doomed' \/ m \in torn'
        BY <1>u, <1>5, <2>5, <3>3, <3>4
    <3>12. /\ m \in files' /\ m \notin astray' => Pointed(m)' \/ Keyed(m)'
           /\ m \notin torn' /\ Pointed(m)' => m \in files' \/ m \in Doomed'
        BY <3>5, <3>6, <3>7
    <3> QED
        BY <3>8, <3>9, <3>10, <3>11, <3>12 DEF MediaOf
  <2> QED
      BY <2>4, <2>5
<1> QED
    BY <1>6, <1>7, <1>8, <1>9, <1>10, PartsNext DEF MediaPart

LEMMA ExitInv ==
    ASSUME StoreInv, Exit
    PROVE  StoreInv'
<1>t. TypeOK /\ SwitchPart /\ ReceiptPart /\ MediaPart
    BY Parts DEF StoreInv
<1>u. /\ rows' = rows /\ receipts' = receipts /\ files' = files
      /\ table' = table /\ wanted' = wanted
      /\ settled' = settled /\ crossed' = crossed
      /\ cleanings' = cleanings /\ events' = events /\ early' = early
    BY DEF Exit, data
<1>1. faults' \in 0 .. MaxFaults
    BY <1>t, FaultsType DEF Exit
<1>2. /\ opted' = table /\ inHand' = NoReceipt
      /\ switch' \in [Switches -> {"new", "written", "done"}]
      /\ \A s \in Switches : switch'[s] # "written"
    BY <1>t DEF Exit, TypeOK
<1>3. /\ writer' \in [Sent -> WriterSteps] /\ checked' = FALSE
      /\ delivery' \in [Received -> [Deliveries -> DeliverySteps]]
      /\ \A m \in Sent : writer'[m] = IF writer[m] = "unsent" THEN "unsent" ELSE "idle"
      /\ \A m \in Received, d \in Deliveries : delivery'[m][d] = "idle"
    BY <1>t DEF Exit, TypeOK, WriterSteps, DeliverySteps
<1>4. /\ clean' \in [Cleaners -> {"idle", "files", "archive", "rows"}]
      /\ doomed' \in [Cleaners -> SUBSET Messages]
      /\ victims' \in [Cleaners -> SUBSET Messages]
      /\ \A c \in Cleaners : clean'[c] = "idle" /\ doomed'[c] = {} /\ victims'[c] = {}
    BY DEF Exit
<1>5. /\ astray' \in SUBSET Messages /\ astray \subseteq astray'
      /\ \A m \in Messages : Keyed(m) => m \in astray'
      /\ torn' \in SUBSET Messages /\ torn \subseteq torn'
      /\ \A m \in Messages : m \in Doomed => m \in torn'
  <2>1. Doomed \subseteq Messages
      BY <1>t, InDoomed DEF TypeOK
  <2> QED
      BY <1>t, <2>1 DEF Exit, TypeOK
<1>6. TypeOK'
    BY <1>t, <1>u, <1>1, <1>2, <1>3, <1>4, <1>5 DEF TypeOK, WriterSteps, DeliverySteps
<1>7. SwitchPart'
    BY <1>t, <1>u, <1>2 DEF SwitchPart, SwitchInv, SwitchKept
<1>8. ReceiptPart'
  <2>1. \A m \in Messages : Stored(m) => Stored(m)' /\ rows'[m].status = rows[m].status
      BY <1>u DEF Stored
  <2> QED
      BY <1>t, <1>u, <1>2, <2>1, ReceiptFrame
<1>9. PhaseInv'
    BY <1>4 DEF PhaseInv
<1>10. ASSUME NEW m \in Messages PROVE MediaOf(m)'
  <2>1. MediaOf(m)
      BY <1>t DEF MediaPart
  <2>2. (Stored(m)' <=> Stored(m)) /\ (Pointed(m)' <=> Pointed(m)) /\ m \notin Doomed' /\ ~Writing(m)'
      BY <1>u, <1>3, <1>4 DEF Stored, Pointed, Doomed, Writing, Received
  <2>3. CASE m \in Sent
      BY <1>u, <1>3, <1>4, <1>5, <2>1, <2>2, <2>3 DEF MediaOf
  <2>4. CASE m \notin Sent
      BY <1>u, <1>3, <1>4, <1>5, <2>1, <2>2, <2>4 DEF MediaOf, Received
  <2> QED
      BY <2>3, <2>4
<1> QED
    BY <1>6, <1>7, <1>8, <1>9, <1>10, PartsNext DEF MediaPart

LEMMA StutterInv ==
    ASSUME StoreInv, UNCHANGED vars
    PROVE  StoreInv'
BY DEF vars, data, archive, cleaning, recording, receiving, StoreInv, TypeOK, SwitchInv, SwitchKept, ReceiptInv,
       ReceiptsNotAhead, PhaseInv, DoomedInv, SentInv, ReceivedInv, MediaKept, NoStrayFile,
       NoDanglingRow, Others, ChatWanted, Stored, Pointed, Writing, Keyed, Doomed, Held

LEMMA NextInv ==
    ASSUME StoreInv, [Next]_vars
    PROVE  StoreInv'
<1>1. ASSUME NEW m \in Messages, Record(m) PROVE StoreInv'
  <2>1. CASE Send(m) \/ Attach(m) \/ SaveSent(m)
      BY <2>1, SendInv, AttachInv, SaveSentInv
  <2>2. ASSUME NEW d \in Deliveries,
               \/ Receive(m, d) \/ SaveReceived(m, d) \/ StartDownload(m, d)
               \/ Download(m, d) \/ updateMedia(m, d)
        PROVE  StoreInv'
    <3>1. m \in Received
        BY <2>2 DEF Receive, SaveReceived, StartDownload, Download, updateMedia
    <3> QED
        BY <2>2, <3>1, ReceiveInv, SaveReceivedInv, StartDownloadInv, DownloadInv, UpdateMediaInv
  <2> QED
      BY <1>1, <2>1, <2>2 DEF Record
<1>2. ASSUME NEW s \in Switches, SwitchWrite(s) \/ SwitchApply(s) PROVE StoreInv'
    BY <1>2, SwitchWriteInv, SwitchApplyInv
<1>3. CASE CleanStep
  <2>1. Purger \in Cleaners /\ Remover \in Cleaners
      BY DEF Cleaners
  <2>2. CASE Purge
      BY <2>1, <2>2, CleanBeginInv DEF Purge
  <2>3. CASE deleteSession
      BY <2>1, <2>3, CleanBeginInv DEF deleteSession
  <2>4. CASE DeleteArchive
      BY <2>4, DeleteArchiveInv
  <2>5. ASSUME NEW c \in Cleaners, DeleteReceipts(c) \/ DeleteRows(c) PROVE StoreInv'
      BY <2>5, DeleteReceiptsInv, DeleteRowsInv
  <2>6. ASSUME NEW c \in Cleaners, NEW m \in Messages, DeleteFile(c, m) PROVE StoreInv'
      BY <2>6, DeleteFileInv
  <2> QED
      BY <1>3, <2>2, <2>3, <2>4, <2>5, <2>6 DEF CleanStep
<1>4. ASSUME NEW r \in Receipt, updateStatus(r) PROVE StoreInv'
    BY <1>4, UpdateStatusInv
<1> QED
    BY <1>1, <1>2, <1>3, <1>4, CheckChatInv, SaveReceiptsInv, ExitInv, StutterInv DEF Next

-------------------------------------------------------------------------------
(***************************************************************************)
(* The invariant holds whatever the settings, and however often messages   *)
(* come, receipts are reordered, calls fail and the process ends.          *)
(***************************************************************************)
THEOREM StoreInvariance == Spec => []StoreInv
<1>1. Init => StoreInv
    BY InitInv
<1>2. StoreInv /\ [Next]_vars => StoreInv'
    BY NextInv
<1> QED
    BY <1>1, <1>2, PTL DEF Spec

\* No participant has a receipt above the status of the message.
THEOREM ReceiptsBehindStatus == Spec => []ReceiptsNotAhead
<1>1. StoreInv => ReceiptsNotAhead
    BY DEF StoreInv
<1> QED
    BY <1>1, StoreInvariance, PTL

\* Purging and deleting leave no file without its row, and no row without its file.
THEOREM FilesWithRows == Spec => []MediaKept
<1>1. StoreInv => MediaKept
    BY DEF StoreInv
<1> QED
    BY <1>1, StoreInvariance, PTL

\* An answered setting of a chat holds in memory and in the table.
THEOREM SettingsHold == Spec => []SwitchKept
<1>1. StoreInv => SwitchKept
    BY DEF StoreInv
<1> QED
    BY <1>1, StoreInvariance, PTL

-------------------------------------------------------------------------------
(***************************************************************************)
(* A step raises a status, or leaves the row as it is, or takes it away.   *)
(***************************************************************************)
Rising(m) == Stored(m) /\ rows'[m] # NoRow => rows'[m].status >= rows[m].status

LEMMA SameRising ==
    ASSUME TypeOK, NEW m \in Messages,
           rows'[m] = rows[m] \/ (Stored(m) => rows'[m].status = rows[m].status)
    PROVE  Rising(m)
<1> SUFFICES ASSUME Stored(m), rows'[m] # NoRow PROVE rows'[m].status >= rows[m].status
    BY DEF Rising
<1>1. rows[m].status \in -1 .. 3
    BY RowFields DEF TypeOK, Stored
<1> QED
    BY <1>1

LEMMA RecordRises ==
    ASSUME TypeOK, NEW n \in Messages, Record(n), NEW m \in Messages
    PROVE  Rising(m)
<1>1. CASE rows' = rows
    BY <1>1, SameRising
<1>2. CASE m # n /\ rows' # rows
  <2>1. rows'[m] = rows[m]
      BY <1>2 DEF Record, Send, Receive, Attach, SaveSent, SaveReceived, StartDownload, Download,
                  updateMedia, save, data, TypeOK
  <2> QED
      BY <2>1, SameRising
<1>3. CASE m = n /\ rows' # rows
  <2>1. \/ \E row : save(n, row)
        \/ rows' = [rows EXCEPT ![n] = IF @ = NoRow THEN @ ELSE [@ EXCEPT !.path = TRUE]]
      BY <1>3 DEF Record, Send, Receive, Attach, SaveSent, SaveReceived, StartDownload, Download,
                  updateMedia, data
  <2>2. CASE \E row : save(n, row)
    <3>1. Stored(n) => rows'[n] = rows[n]
        BY <2>2 DEF save, TypeOK, Stored
    <3> QED
        BY <1>3, <3>1, SameRising
  <2>3. CASE rows' = [rows EXCEPT ![n] = IF @ = NoRow THEN @ ELSE [@ EXCEPT !.path = TRUE]]
    <3> SUFFICES ASSUME Stored(n) PROVE rows'[n].status = rows[n].status
        BY <1>3, SameRising
    <3>1. rows'[n] = [rows[n] EXCEPT !.path = TRUE]
        BY <2>3 DEF TypeOK, Stored
    <3>2. PICK st \in -1 .. 3, b \in BOOLEAN : rows[n] = [status |-> st, path |-> b]
        BY RowFields DEF TypeOK, Stored
    <3>3. rows'[n] = [status |-> st, path |-> TRUE]
        BY <3>1, <3>2, RowPath
    <3> QED
        BY <3>2, <3>3
  <2> QED
      BY <2>1, <2>2, <2>3
<1> QED
    BY <1>1, <1>2, <1>3

LEMMA UpdateRises ==
    ASSUME TypeOK, NEW r \in Receipt, updateStatus(r), NEW m \in Messages
    PROVE  Rising(m)
<1>1. r.id \in Messages /\ r.rank \in Ranks
    BY DEF Receipt
<1>2. CASE rows'[m] = rows[m]
    BY <1>2, SameRising
<1>3. CASE rows'[m] # rows[m]
  <2>1. m = r.id /\ rows'[m] = Raised(rows[m], r.rank)
      BY <1>1, <1>3 DEF updateStatus, TypeOK
  <2> QED
      BY <1>1, <2>1, RaisedEffect DEF Rising, Stored
<1> QED
    BY <1>2, <1>3

LEMMA CleanRises ==
    ASSUME TypeOK, CleanStep, NEW m \in Messages
    PROVE  Rising(m)
<1>1. CASE rows'[m] = rows[m]
    BY <1>1, SameRising
<1>2. CASE rows'[m] # rows[m]
  <2>1. PICK c \in Cleaners : DeleteRows(c)
      BY <1>2 DEF CleanStep, Purge, deleteSession, CleanBegin, DeleteFile, DeleteReceipts,
                  DeleteArchive, data
  <2>2. rows'[m] = NoRow
      BY <1>2, <2>1 DEF DeleteRows
  <2> QED
      BY <2>2 DEF Rising
<1> QED
    BY <1>1, <1>2

\* The check marks of a message only rise while its row is there.
THEOREM MarksRise == Spec => StatusRises
<1>1. StoreInv => TypeOK
    BY DEF StoreInv
<1>2. TypeOK /\ [Next]_vars =>
          [\A m \in Messages : Stored(m) /\ rows'[m] # NoRow => rows'[m].status >= rows[m].status]_vars
  <2> SUFFICES ASSUME TypeOK, Next, NEW m \in Messages PROVE Rising(m)
      BY DEF Rising
  <2>1. ASSUME NEW n \in Messages, Record(n) PROVE Rising(m)
      BY <2>1, RecordRises
  <2>2. ASSUME NEW r \in Receipt, updateStatus(r) PROVE Rising(m)
      BY <2>2, UpdateRises
  <2>3. CASE rows' = rows
      BY <2>3, SameRising
  <2>4. CASE CleanStep
      BY <2>4, CleanRises
  <2>5. checkChat \/ saveReceipts \/ Exit \/ (\E s \in Switches : SwitchWrite(s) \/ SwitchApply(s)) => rows' = rows
      BY DEF checkChat, saveReceipts, Exit, SwitchWrite, SwitchApply, data
  <2> QED
      BY <2>1, <2>2, <2>3, <2>4, <2>5 DEF Next
<1> QED
    BY <1>1, <1>2, StoreInvariance, PTL DEF Spec, StatusRises
===============================================================================
