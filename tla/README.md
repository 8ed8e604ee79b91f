# wa-gateway in TLA+

A verification project for wa-gateway, the HTTP gateway to WhatsApp in
`src/main.go`, `src/internal/api` and `src/internal/gateway`. It holds TLA+ modules
translated from the Go code, small instances of them for TLC, and theorems about them
proved with TLAPS for every value of their constants.

    tlc -workers 2 -config BulkSend_one.cfg MCBulkSend      # a run
    tlapm BulkSendProofs.tla                                # the proofs of a module

## The system

One process. `main.go` loads the configuration, opens the database (SQLite or
PostgreSQL) and whatsmeow's credential store, starts the manager, and then listens. On a
signal it shuts the HTTP server down (10 s for the requests in progress) and calls
`Manager.Stop`. Everything else is reached from the manager.

| part | state | operations | reached by |
|---|---|---|---|
| session manager (`manager.go`) | map of sessions under a lock; `gw_sessions`; credential store | Start, Create, Remove, Get, Stop, bindJID, restartPairing | requests, events, its own goroutines |
| session (`session.go`) | client, QR code, pairing time, last group creation | start, PairPhone, Logout, send and read calls, handleEvent | requests, whatsmeow's event goroutine |
| bulk sender (`bulk.go`) | `gw_bulk_jobs`, `gw_bulk_messages`; map of job objects; quit channel | submit, run (one goroutine per job), resumeInterrupted, job, list, cleanup, stop | requests, Start |
| webhook notifier (`webhook.go`) | bounded channel, worker goroutines, quit channel | enqueue, worker, deliver, stop | the event goroutine of each session |
| message store (`store.go`, `storefilter.go`) | `gw_messages`, media files | save, updateStatus, updateMedia, query, purge, deleteSession | events, sends, requests, a daily goroutine |
| archive and receipts (`archive.go`) | set of archived chats and its table; `gw_message_receipts` | setEnabled, enabled, saveReceipts, receiptsFor | requests, events |
| media store (`mediastore.go`) | files, or objects of a bucket | Put, Open, Delete | message store |
| managed API keys (`apikey.go`) | `gw_api_keys`; cache of keys with use and rate counters | reload, Create, Rotate, Update, Delete, Authenticate, flush, stop | every request, a ticker |
| access log (`accesslog.go`) | buffer, `gw_access_logs` | Record, flush, purge, Query, stop | every request, two tickers |
| groups (`group.go`) | last group creation of a session | CreateGroup, AddParticipants, UpdateGroup, DecideJoinRequests, ... | requests |
| HTTP API (`internal/api`) | none of its own | auth, session quota, handlers | clients |
| command line (`cmd/wagctl`) | none | calls the HTTP API | - |

How they meet: a session's events go to the notifier first and to the message store after
it; `bindJID` and `restartPairing` change the manager from event handlers; the bulk sender
takes sessions from the manager one recipient at a time and writes a stored message for
each; `Manager.Stop` disconnects the sessions, then stops the notifier, the store, the
keys, the access log and the bulk sender, in this order.

What is hard in it:

* **concurrency** - every lock is dropped around I/O: `Create` between its check and its
  entry, `Remove` between its entry and its row, `finish` between object and row. The
  resumer reads the jobs table while requests write it.
* **failure** - a database error is logged and the state in memory goes on, in nearly
  every component; a call that timed out may have happened.
* **crash and restart** - jobs and sessions are rebuilt from rows that were written before
  or after the step they record.
* **order** - what `Manager.Stop` stops first; which of two handlers writes a row by name.
* **time** - backoff, retries, waiting for a session, rate windows.

Correctness of each part, in a sentence. *Sessions*: a name has one owner, a pairing
survives a restart, credentials do not stay behind. *Bulk sender*: every recipient once,
nobody forgotten, every job closed. *Notifier*: what it accepts it delivers or gives up
after the configured attempts, and a stop returns. *Message store*: a status never goes
back, no file without a row, an archive switch means what it says. *API keys*: a use is
counted once, a limit holds, a deleted key is refused. *Access log*: an entry is written
once, and seen by a query that starts after it. *Groups*: one creation per cooldown,
every participant gets a result.

## What is modelled

### BulkSend - `bulk.go`, with the parts of `manager.go` it depends on

A *run* is a goroutine in `bulkRunner.run` together with the `BulkJob` object it updates;
a job has at most two, started by `submit` and by `resumeInterrupted`. One iteration of the
loop is six actions, split where another goroutine can see or change something: `CheckQuit`
(the select on quit), `SendText`, `Persist` (`updateMessage`, before the object changes),
`Record` (the object, under the lock), `sleepJitter`, and `FlushJob` at the end. The resumer
reads the unfinished jobs (`LoadHeads`), their message rows one job at a time
(`LoadRows`), and then per job completes it, waits up to 30 s for its session, gives it up
or publishes and runs it. The process stops in the order of `Manager.Stop` (`StopSessions`,
`CloseQuit`, `Exit`) or dies (`Crash`); memory goes, rows stay, and `Restart` starts over
with either setting of `BULK_AUTO_RESUME`. Sessions connect, drop and are removed at will.
A failed `saveJob` leaves a job that lives in memory only.

Abstracted: texts, the per-recipient choice of text, delays, counters (the counts are those
of the results), the listing order. A timed-out send is a send that may have happened.

### EventChannel, Webhook - `webhook.go`

`Webhook` has the event handler of each session, which builds a payload (possibly after a
media download without a deadline: `Receive`, then `enqueue`), the channel, and the workers
with their attempts (`Take`, `post`, `backoff`). An attempt may reach the endpoint and be
reported as failed. `stop` closes `quit`; a worker that finds both cases of its select ready
picks either.

`EventChannel` is what the notifier promises: a bounded first-in first-out channel that
refuses an event only when it is full, works on a bounded number at a time, and settles what
it accepted, except after it was closed. `Webhook!Channel` is the refinement mapping.

### SessionManager - `manager.go`, `session.go`

A session object and its client are one *client*. A session exists in four places: the map
(`sessions`), the connected client (`online`, `id`), its row (`rows`) and its device in the
credential store (`devices`). Requests are `Create` in four actions (check, INSERT, entry,
connect), `Remove` in four (entry, disconnect, logout, DELETE), `PairPhone`, `Logout`. Events
are `Pair` (whatsmeow saves the device, then calls the handler, which is `bindJID` as a
separate step) and `LoggedOut` (the start of a `restartPairing`, itself four actions). Every
database call may fail; INSERT and DELETE may fail and be carried out. `Exit` is a crash or a
stop: for this state they are the same. `Start` rebuilds the map from rows and devices.

`Start` is one step because requests come after it and its sessions have different names; that
an event of one session is handled while the next one is being started changes nothing
another name reads. Whatsmeow (connection, pairing, the device it saves and deletes) is
modelled from how the code uses it. History variables say which deviations the code
accepts: `overtaken` (a client connected after a request took its session off the map),
`loose` (a device whose row was lost to a failed call, an exit, or a write by name that
overlapped another), `left` (devices WhatsApp still lists).

### ApiKeys, AccessLog, SessionQuota, Gate - `apikey.go`, `accesslog.go`, `auth` and `handleCreateSession` of `server.go`

`ApiKeys` has the table (`rows`), the cache requests authenticate against and are counted in
(`cache`), and the reload every admin request ends with, which nothing serialises: `Query`
reads the rows, `Copy` takes over the counters of one key from the cache, `Swap` installs
the result. `Copy` drops the lock before it has read the counters, so that a use or a flush
that comes next may still be seen, in part (`Change`). `Take` and `FlushRow` are the two
halves of `flush`; keys share nothing in it, so each key has its own. `Authenticate` is one
step under the lock. An exit may come at any time: `stop` does not wait for the last flush.
A key has as many secrets as it was rotated; `enabled` stands for enabled and not expired.

`AccessLog` has the buffer, what each flush has taken (`hand`), and the table as a count of
rows per entry, so that a doubled row would be seen. A flush is `Grab` and one `Insert` per
entry, by the ticker or by a query, and these overlap.

`SessionQuota` is how many sessions a key owns: a request comes with the copy of its key that
`Authenticate` returned (`Ask`), counts the rows of the key (`CheckQuota`; a count that fails
lets the request through), and creates its session (`CreateRow`), with nothing held between
the two. Rows go with `RemoveRow`, by whichever request. History: `most` and `crowd`, the largest
limit the requests of a key came with and the most of them there were at once, and `uncounted`,
the keys without a limit or with a count that failed.

`Gate` is `auth`: it composes the three, and says which requests pass, are refused, are over
their limit, create a session, and are recorded. History variables name what the code accepts: `miscounted`
and `unlimited` (keys used while a reload had copied them, rotated with counts in the old
secret, a failed flush, an exit), `outdated` (the last swap was of rows that had changed
since, or the last reload failed), and `dropped` and `expired` log entries.

### MessageStore - `store.go`, `storefilter.go`, `archive.go`, `mediastore.go`, recording in `session.go`

The state of one session: `rows` (status, and whether it points to a file), `receipts`,
`files`, and the archive switch as a table and as the set in memory. A sent message is
recorded by its request (`Send`, `Attach`, `SaveSent`: file, then row); a received one by
its event and then by a goroutine (`Receive`, `SaveReceived`, `StartDownload`, `Download`,
`updateMedia`: row, then file, then pointer). Its event may come again at any time, and every
delivery has a goroutine of its own: `delivery` has how far each has come, and nothing keeps
them apart. A receipt is
`updateStatus`, `checkChat`, then `saveReceipts`. The retention and `deleteSession` are two *cleaners* that
take the same steps, in the order files, receipts, archive, rows, over the messages they have
`doomed`; they may overlap. Every call may fail, and `Exit` may come between any two steps;
`chatArchive.load` fills the set again. History: `early` (receipts before the row), `astray`
and `torn` (recording that overlapped a cleaning, failed calls; see `MediaKept` below), `settled` and `crossed`
(archive requests that did not overlap, and those that did).

The lists of `storefilter.go` are the set `Listed` of chats they let through. Sessions are
independent but for `active`, which is true while a chat of any session is archived: the
module has one.

### GroupCooldown, GroupOps - `group.go`, and the times of a session in `manager.go`, `session.go`

`GroupCooldown` is when a session may create a group. A time is kept in two places: in the
Session object (`pairedAt`, `lastGroupCreate`), which `checkGroupCooldown` reads and writes
under its lock, and in the row (`row`), written by the PairSuccess handler (`bindJID`, before
`PairNoted` takes the lock) and by a goroutine that nobody waits for (`recordGroupCreated`).
`Start` reads the row into the object; `restartPairing` makes an object without times. Writes
fail (`DbCall`) and die with the process (`Exit`); the client is logged in before its handler
has run (`Pair`). History: `known` and `saved` say which of the two times the object, and
the row, were told.

`GroupOps` has the requests that change a group, over it. A request resolves its lists of
numbers (`resolve`: each account once, by its first spelling), and then makes calls to
WhatsApp: the creation with the first batch, additions of a few at a time with a pause between
(`Continue`, `Cut`), one call for a change, one per list of a decision. A call is `Answered`,
for some of the batch and with refusals, `Limited` (429), or `Lost`, when WhatsApp may have
done part of it; each leaves its marks in the statuses, and the answer lists them in the order
of the numbers (`statusList`). The request may be cancelled at any time, and its session be
logged out under it. `IInv` says at each step which participants were asked about, which are
still to come and what is known of each. Names, topics, links and settings of a group are single calls
that change nothing in the gateway, and are left out.

## The runs

| run | asks | properties |
|---|---|---|
| `bulk_one` | One job, two recipients, two exits, one database fault | `IInv`, `NoDuplicateSend`, `OneExtraAtMost`, `RowsTell`, `ReportedStays` |
| `bulk_live` | Fair scheduling, one exit | `StopTerminates`, `JobsSettle` |
| `webhook` | Three events of two sessions, two workers, fair, stop at any time | `Conserved`, `AttemptsHonoured`, `BoundedOvertaking`, `AcceptedSettles`, `StopReturns`, `ImplementsChannel` |
| `sessions` | Two requests, one restart of a pairing, one fault or exit | `IInv`, `NameExclusive`, `NoStray`, `PairingKept`, `NoOrphan`, `NeverBuried` |
| `gate` | Three admin requests on a key, three requests, some creating sessions, flushes, a log query, a fault or exit | `IInv`, `Accounted`, `LimitHeld`, `CacheCurrent`, `LoggedOnce`, `QuerySeesRecorded`, `QuotaHeld` |
| `messages` | A sent and a received message with attachments, receipts, two archive requests, two cleanings, a fault or exit | `StoreInv`, `StatusRises`, `ReceiptsNotAhead`, `MediaKept`, `SwitchKept` |
| `groups` | Two requests that create groups through pairings, removals, one exit and one failed write; one request on lists of participants whose calls are answered, limited, lost or cancelled | `IInv`, `AskedOnce`, `AnswerTrue`, `Paced` |
| `bulk_race`, `bulk_shutdown`, `webhook_drain`, `sessions_logout`, `gate_limited` | what a document or a comment says | violated, see below |

What the passing runs show:

* `NoDuplicateSend`, `RowsTell`: the rows tell who was sent to and who was not, and no
  completed job has forgotten anyone, so that resuming from them is safe across exits.
  Excused are a recipient with an attempt whose result never reached its row (`unsaved`),
  and a job the resumer of the same process took over (`raced`, see the first finding).
* `ReportedStays`: `GET /send/bulk/{id}` does not take back a result when a job moves from
  memory to the rows and back.
* `OneExtraAtMost`: a job the resumer takes although a run of its own process works on it is sent
  once more at most. The resumer's list of pending recipients may be minutes old when it is used, by when
  the other run has sent to some of them, completed the job, or died with the process; the resumer then
  writes "running" over "completed" (`bulk.go:635`), and a later process resumes from the rows both
  runs wrote: for no recipient does that add up to a third message, unless a result was never written.
* `Conserved`, `AttemptsHonoured`: no payload lost or doubled inside; all attempts made.
  `BoundedOvertaking`: with *k* workers an event overtakes fewer than *k* earlier ones.
* `NameExclusive`: whatever the overlap of `Create` and `Remove`, a name is in the map or in
  the hand of one request, and has its row. It is the primary key of `gw_sessions` and the
  order of the steps that do it, not the lock. `NeverBuried` is what follows for `Create`,
  which enters its session without looking again.
* `NoStray`, `PairingKept`, `NoOrphan`: connected clients, bindings and credentials agree, but
  for the deviations named above.
* `Accounted`: row, flusher and cache add up to the requests let through. Every use is in one
  place, and the overlap of a reload with a use or a flush of the same key is the only way,
  but for failures, rotations and exits, to lose or double one.
* `LimitHeld`: less than twice the limit in any span of a window, which is what a fixed window
  can promise, across reloads, rotations and flushes; its limit and window stay as they are. `CacheCurrent`: once admin requests have returned, a
  deleted, rotated or disabled key is refused, unless the last swap was of old rows.
* `LoggedOnce`, `QuerySeesRecorded`: overlapping flushes neither double nor lose an entry; a
  query finds what was recorded before it, except what another flush has in hand.
* `QuotaHeld`: requests that overlap pass the check of the quota together, so a key may own
  more sessions than its limit; but it exceeds the limit by fewer than the requests it had in
  progress at once, and not at all if it asks one at a time.
* `StatusRises`, `ReceiptsNotAhead`: reordered receipts and events delivered again take no check
  mark back, and the status of a message is never behind a participant's receipt.
* `MediaKept`: files and rows keep together through several deliveries at once, retention and
  deletion; the order of each (file before its pointer, file deleted before its row) is what does it.
  Where the code parts them the histories say so: a recording that overlapped a cleaning, or met a
  failed call, may leave its file (`astray`); a cleaning that failed or died after the files leaves the
  rows, and so does one that took file and row while a delivery stood between its file and the
  pointer, if the message is then delivered once more: the row is made anew, and the earlier
  goroutine points it to a file that is gone (`torn`).
* `SwitchKept`: an archive setting that was answered holds in memory and table, across restarts.
* `Paced`: quiet period and cooldown hold between the groups of a session, by whichever requests,
  across restarts; but for what `restartPairing` forgets, a failed write or an exit loses, and
  a pairing whose handler has not come to the lock.
* `AskedOnce`: however a number is spelled and repeated, and whichever batch fails, WhatsApp is
  asked about an account once, and not again after a 429.
* `AnswerTrue`: every participant of a request is listed once with what was done with them. A
  cancelled request leaves participants after its next batch as `pending`, which
  `ParticipantStatus` does not know (`group.go:66-71`).

**Bounds.** Two recipients are enough to have one done, one not yet; two exits, for a crash of
a resumed job; one job is enough for the resumer's stale
list too, since nothing bounds the time between its reading and its use: a second job would only add a
reason to wait (the proofs are for any set of jobs). Events: two of one session make order visible, two workers overtaking; a
queue of two is full with the third. Sessions with different names share nothing in the
manager but the map itself, so one name is checked; two requests and one restart of a pairing
are the three hands that can meet on it, and the third client is the one the last of
them creates. `MCSessionManager!Bounded` allows one fault or one exit, and then two activities
at a time. Clients, requests and devices of a run of sessions are symmetric, and so are archive requests and
admin requests; `MCView` leaves out the fields of
a client nothing refers to. Keys share nothing but
the reload, which treats each alone, so one key is checked; three admin requests, once each, are
a create, a change, and a reload to overlap with; limit one and window two leave three ticks to open
a second window. `OneSide` keeps the log quiet in behaviours that create a key: keys and log
meet in the requests only, and requests of an open gateway are recorded alike. It also makes
sessions only with a key that was created and is left as it is, for the quota and the key store
share nothing but the request that comes with a key; two names and limits of zero (none) and one
are a key at its limit and one over it. Two log faults are
a lost insert and an exit. A message has two deliveries under way at most, of three in all, so that one
is recorded, another stands at its pointer, and a third makes the row anew. `OneMessage` records one message at a time: messages meet in the
cleaners only, and these treat each alone; three events are two receipts and a delivery, or three deliveries, with one
archive request, and one event meets two requests; two cleanings are a purge and a deletion. `STORE_MESSAGES` is off in the run, the harder setting: recording
then starts and stops with the switch. Quiet period and cooldown are one and two
units of time, out of four: a group may come before either, between them and after both, and a third
group after an exit. Batches are of two and the longest list names five
accounts: a first batch, a middle and a last short one, with one account spelled twice, and one
number that is none. `MCGroupOps!Alone` keeps the two apart: requests that name participants
have a session to themselves, since what becomes of a participant concerns no time and no other
request; those that name none contend for the cooldown, and check it in the unit of time they
began in, as a request does at once. Constants named `Max...` are the only counters that are cut.

**Fairness.** Weak fairness per goroutine: a run, the resumer, a worker and the stopping
goroutine are runnable whenever their next step is enabled, their sends and posts return
within a timeout (the HTTP client's, `BULK` send's context), and a container that died is
started again. Nothing is assumed of clients, of sessions becoming ready, of the endpoint
accepting anything, or of the event handlers, which may hang in a download.

**Deadlock** is checked in every run but the webhook's, the gate's and the messages': a
stopped notifier stops, and requests and events are used up.

### Where code and documents disagree

* `bulk_race`: "no duplicates except in the rare window where a send reached WhatsApp but the
  status write did not survive the crash" (`README.md:562-566`, `bulk.go:581-585`). The resumer
  starts after the server does; a job submitted before it reads the table is read as
  unfinished and sent a second time, without any crash.
* `bulk_shutdown`: a graceful shutdown is to leave the remaining recipients pending
  (`bulk.go:491-492`). `Manager.Stop` disconnects the sessions first: the job fails further
  recipients until quit is closed, and failed recipients are not resumed.
* `webhook_drain`: "stop drains and shuts down the worker pool" (`webhook.go:64`). Workers
  that see quit leave the queue as it is.
* `sessions_logout`: deleting a session logs it out (`README.md:184`, `manager.go:305`). The
  client is disconnected before the logout that needs its connection: only the local
  credentials go, the phone keeps the linked device.
* `gate_limited`: a request over its limit is recorded (`docs/access-log.md:148`, `:165`).
  `Authenticate` returns no key with it (`apikey.go:480`), and `auth` reads the key's id for the
  entry (`server.go:212`): the handler panics after the answer.

## What is proved

For every value of the constants that satisfies the named assumptions
(`BulkAssumption`: at least one recipient, every job has a session; `WebhookAssumption`: there
are workers, finitely many, and each event is of a session; any integer will do for the queue size and
the retries, since the code replaces those it cannot use;
`ManagerAssumption`: the default name is a name, the `No...` values are distinct from what they stand
beside; `KeysAssumption` and `LogAssumption`: the absent entry is no entry, bounds and limits are
natural numbers; `QuotaAssumption`: names and requests are finitely many; `GateAssumption`: the
requests of the log are those that create sessions, and the owners are the keys;
`StoreAssumption`, `CooldownAssumption`, `GroupAssumption`: likewise). The bounds on exits and
faults are any natural number.

**BulkSendProofs** (about 4400 obligations). `Invariance`: `IInv` is inductive. The
properties alone are not: that a recipient is sent to once needs to know who holds it as
pending (`HeldNotSent`: a run's remaining items, or rows the resumer has read), that whoever
holds it as attempted has written it (`NotHeldWritten`), and that a job not raced is in one
hand only (`ExclusiveInv`, `ResumerInv`). `RowsInv` and `UnusedInv` carry the jobs whose
`saveJob` failed and those not submitted; `OpenInv` that a job in hand is not completed.
These are `SendInv`; from it `TypeCorrect`, `NeverTwice` and `RowsTellTrue`. A raced job is in two
hands: `HandsInv` has the messages sent to a recipient and the hands that still hold it as
pending be two at most together, and `NeverThrice` follows. What the API shows needs two more. `ReportedStays` compares
an object in memory with rows that take its place, so `AgreeInv` has every object that may be
shown agree with the rows, but for the moment between the write to a row and the object
(`run` writes the row first), and `ShownInv` that the map holds no other object:
neither one that is not saved yet, nor one no run works on. Cleaning up, crashing and resuming then show
what was shown before (`ReportedForGood`).

**WebhookProofs.** `PlaceInv` has every accepted event in one place, the queue or one worker, and
`HandlerInv` the others with the session they arrived at; `AttemptInv` counts the posts of an event by
the attempts of its worker. `Conserved` and `AttemptsHonoured` follow. `OrderInv` has the queue be
the end of the list of accepted events, and fewer unsettled events before one that was taken
than there are workers, since each is with a worker: `BoundedOvertaking` follows. `ChannelRefined` is the
safety part of `ImplementsChannel`, action by action, the bound on what the channel works on being
the number of workers.

**SessionManagerProofs** (about 1900 obligations). `Invariance` again. `NamedInv` and
`HeldInv` say that requests and restarts still hold the client they began with, under the name
it was made for; `OneOwnerInv` that a JID is of one client, one row or one pending write;
`DeviceInv`, `BindInv` and `RowInv` tie a stored device to the session in the map, or to a
client about to be logged out. The last two are why `RemoveRow` loses no device (whoever
owned it would hold the name too, which `NameExclusive` excludes) and why a binding that finds
no row loses none (lemma `BoundNowhere`). From it `TypeCorrect`, `OneHand`,
`NoStrayClient`, `PairingSurvives`, `NoOrphanDevice` and the action property
`NobodyBuried`.

**ApiKeysProofs, AccessLogProofs, GateProofs.** `KeysInv` adds to `Accounted` what reloads know:
`CopyInv`, that an entry not copied yet has no counts and a copied one has the delta of the
cache; `LoadInv`, that a reload which read the rows after their last change agrees with them;
and `CacheInv`, that the cache agrees with the table or a reload is under way that will make it.
`UsesAccounted` and `CacheIsTable` follow. `LimitKept` rests on `WindowInv`: the window the cache
counts a key in, and the one a reload has copied, began with a use and count each since, so they
are at most the limit, and before that use, for the length of a window, there were fewer than
the limit. A span as long as a window meets two windows at most, and of the first of two not the
use it began with; so it has less than twice the limit (`UseInWindow`, `UseBeginsWindow`).
`NothingSpent` is why a copy that finds no count may leave the window out. `LogInv` adds `QueryInv`, where what a query has
to see is while it flushes; `EntryInOnePlace` and `QueryComplete` follow. `QuotaInv` adds
`CallInv` to `QuotaHeld`: a request past its check is among those of its key, whose number `crowd`
bounds, so a check that passes leaves room for all of them but one; `QuotaKept` follows.
`Composition` proves `Spec => KeysSpec /\ LogSpec /\ QuotaSpec`: behind `auth` each part behaves as
it does alone, so `GateInvariance` and `GateCorrect` take the invariants of the parts from their own
theorems, and add only that recorded requests were answered.

**MessageStoreProofs** (about 1900 obligations). `StoreInv` has four groups of parts beside the types.
`SwitchInv`: a request between table and set has its chat to itself, or is known to have been
crossed, and the table has what it wants. `ReceiptInv`: the receipt in the hand of a handler is not
ahead of the row either, and but for `early` messages there is none before the row. `PhaseInv` and
`DoomedInv`: the files of the rows a cleaner is about to delete are gone, and a recording that
comes between is `astray`. `SentInv` and `ReceivedInv`: what each recording has written by the step
it is at, and, for a delivery that has its pointer to write, that the file is there, or in or gone with a
cleaning, whatever the other deliveries do (`MovedMedia`); so `MediaKept`. From it
`ReceiptsBehindStatus`, `FilesWithRows`, `SettingsHold` and the action property `MarksRise`.

**GroupOpsProofs.** `Paced` relates a creation to the pairing and the creation
before it, which may have been of another object in another process. `Remembered` carries the
time between them: an object or a row that was told holds it, or a later one.
`Punctual` (handlers and writes end in the unit of time they began in) is why a write
does not put an earlier time in place of a later one, and `CurrentOnly` why only the object in the
map can create. `GroupComposition` proves `Spec => CooldownSpec`: the requests of
`GroupOps` are, to the cooldown, its own steps, so `RequestsPaced` holds for any number of them.

The requests are proved about in three layers. First the lists: `ResolveEntries` and
`StatusEntries` say that resolving a list names every account of it once, whatever is repeated, and
that the list of statuses names the same. The lists are written with ranks (`Pick`: the k-th entry
comes from the place with k - 1 chosen places before it), not with a recursive operator, and `Ranks`
shows by cardinalities that each rank is of one place; `LeastElement` stands in for induction
(the first place of an account, the least number that a place could be).
Then one request as a record: `Sound` is the invariant of a request in progress, and
each of `Advanced`, `GivenUp`, `Stopped`, `Moved`, `CutShort`, `TurnedDown` and `Begun` says that a
kind of step keeps it. `OrderInv` has the participants asked about and
those to come be the resolved list, in order, from which `BatchApart` has the next batch name nobody
asked about before; `AheadInv` that nothing is known yet of those to come, `ToldInv` that what is
known is true, and `StepInv` what the step of a request says of it: additions never fail as a whole,
a decision that fails has carried out its first list at most. Last the actions, each of which
turns one request into such a record (`Updated`). `GroupInvariance` is `IInv`, and `AskedOnceKept`
and `AnswersTrue` follow from it for all lists, spellings, batch lengths and numbers of requests.

The inductive invariants are also invariants of the runs `bulk_one`, `sessions`, `gate`, `messages`
(`StoreInv`) and `groups`.

**Model-checked only:** liveness under fairness (`StopTerminates`, `JobsSettle`,
`AcceptedSettles`, `StopReturns`, and the fairness of the channel in `ImplementsChannel`), which
the prover does not do. Every invariant and every other action property of a passing run is a
theorem.

## What is not modelled, and why

* Payload and text construction, phone number parsing, pagination and formatting: data no
  property depends on. `db.go` rewrites placeholders in SQL text and passes calls on; the values
  of `config.go` are CONSTANTS; `wagctl` makes one HTTP call and prints the answer.
* The handlers of `internal/api` beyond `auth`, the session quota and the calls the modules start
  from: each translates a request into one call and its result into an answer.
* Of the session, the calls that only ask WhatsApp something (`CheckPhones`, `ListGroups`,
  `ResolveLIDs`), and what is put into a message that is sent; of the groups, reading, links, topics and settings,
  each one call to WhatsApp.
* Of the keys, names, scopes, expiry dates, changes of the rate limit and window
  (`apikey.go:352-358`; the quota's limit does change), and the counts `Get` and `List` show; of the log,
  filters and paging; of the message store, the queries, which only read, and how the keys of files
  are made.
* `deleteSession` returns at once when nothing is being recorded (`store.go:450`): with
  `STORE_MESSAGES` off, turning the last archive off and removing the session leaves its rows and
  files. The module takes the step as the code does, and no property claims that they go.

Read and not made a run: the `README.md` line 331 speaks of additions of 20 at a time and
1.5 s apart, the code adds 5 every 8 s (`group.go:22-23`), so that the five minutes of
the handler end the additions of a long list, which answers `pending` for the rest.

## Plan

| module | composes with | proofs |
|---|---|---|
| `BulkSend` | session states, stop order | safety proved |
| `Webhook` | `EventChannel` (refined) | safety and the refinement's safety part proved |
| `SessionManager` | - | safety proved |
| `ApiKeys`, `AccessLog`, `SessionQuota`, `Gate` | `Gate` composes the three | safety proved |
| `MessageStore` | archive, receipts, media | safety proved |
| `GroupCooldown`, `GroupOps` | `GroupOps` composes requests with the cooldown | safety proved |

What is left: the group cooldown over the four-step `restartPairing` of `SessionManager`, which
`GroupCooldown` has in one.
