------------------------------- MODULE BulkSend -------------------------------
(***************************************************************************)
(* The bulk sender of internal/gateway/bulk.go: jobs are persisted, sent   *)
(* one recipient at a time by one goroutine per job, and resumed after a   *)
(* crash or a restart by a goroutine that re-reads the database.           *)
(*                                                                         *)
(* A run is one goroutine executing bulkRunner.run, together with the      *)
(* BulkJob object it updates: a job has at most a "submit" run, started by *)
(* the request that created it, and a "resume" run, started by             *)
(* resumeInterrupted.  The two own different objects, b.jobs points to one *)
(* of them.                                                                *)
(*                                                                         *)
(* Texts, delays and counters are left out: Sent and Failed are the        *)
(* numbers of results with that status.                                    *)
(***************************************************************************)
EXTENDS Integers, FiniteSets

CONSTANTS
    Jobs,        \* job identifiers, drawn at random by newJobID
    N,           \* recipients of a job
    Sessions,    \* session names
    SessionOf,   \* the session a job sends from
    NoJob,       \* not a job: the resumer is not waiting for one
    AutoResume,  \* the settings of BULK_AUTO_RESUME the process is started with
    MaxStops,    \* bound: process exits (crashes and graceful stops)
    MaxFaults    \* bound: failed database calls

ASSUME BulkAssumption ==
    /\ N \in Nat \ {0}
    /\ SessionOf \in [Jobs -> Sessions]
    /\ NoJob \notin Jobs
    /\ AutoResume \subseteq BOOLEAN /\ AutoResume # {}
    /\ MaxStops \in Nat
    /\ MaxFaults \in Nat

Idx  == 1 .. N
Kinds == {"submit", "resume"}
Runs == Jobs \X Kinds

MsgStatus == {"pending", "sent", "failed"}
JobStatus == {"running", "completed", "interrupted"}

VARIABLES
    proc,      \* "up", "stopping" (sessions disconnected), "quitting" (quit closed), "down"
    sess,      \* what Get and IsReady see of a session: "absent", "offline", "ready"
    dbJob,     \* gw_bulk_jobs.status, "none" when the row does not exist
    dbMsg,     \* gw_bulk_messages.status
    jobs,      \* b.jobs: which run's object the map holds
    pc,        \* where a run is
    todo,      \* the items a run has not finished
    cur,       \* outcome of the attempt in progress
    status,    \* BulkJob.Status of a run's object
    results,   \* BulkJob.Results[i].Status of a run's object
    rpc,       \* where resumeInterrupted is
    heads,     \* the unfinished jobs it has read and not yet handled
    toRead,    \* those whose message rows it has not read yet
    rows,      \* the message rows it has read
    rjob,      \* the job it is waiting to start
    \* bookkeeping of the environment
    stops, faults,
    \* history
    used,      \* job identifiers submitted so far
    sends,     \* how often WhatsApp accepted a message for a recipient
    unsaved,   \* recipients with an attempt whose result was never written
    raced,     \* jobs the resumer read although this process submitted them
    burnt      \* recipients failed because the gateway itself disconnected

procVars   == <<proc, stops>>
dbVars     == <<dbJob, dbMsg, faults>>
runVars    == <<jobs, pc, todo, cur, status, results>>
resumeVars == <<rpc, heads, toRead, rows, rjob>>
history    == <<used, sends, unsaved, raced, burnt>>
vars == <<procVars, sess, dbVars, runVars, resumeVars, history>>

Live(r) == pc[r] \in {"check", "send", "persist", "record", "sleep", "flush"}

\* Items are sent in the order of their index.
First(S) == CHOOSE i \in S : \A k \in S : i <= k
Item(r) == First(todo[r])

AllPending == [i \in Idx |-> "pending"]

\* Mutant: the resume also retries failed recipients.
PendingOf_RetryFailed(res) == {i \in Idx : res[i] # "sent"}

PendingOf(res) == {i \in Idx : res[i] = "pending"}

-------------------------------------------------------------------------------
(***************************************************************************)
(* Database calls.  A call that fails leaves the row alone, its error is   *)
(* only logged; an update of a row that does not exist changes nothing.    *)
(***************************************************************************)

DbCall(ok) ==
    /\ faults' = IF ok THEN faults ELSE faults + 1
    /\ faults' <= MaxFaults

updateJob(j, st, ok) ==
    dbJob' = IF ok /\ dbJob[j] # "none" THEN [dbJob EXCEPT ![j] = st] ELSE dbJob

\* Mutant: only successes are written to the row.
updateMessage_OnlySent(j, i, st, ok) ==
    dbMsg' = IF ok /\ st = "sent" /\ dbJob[j] # "none" THEN [dbMsg EXCEPT ![j][i] = st] ELSE dbMsg

updateMessage(j, i, st, ok) ==
    dbMsg' = IF ok /\ dbJob[j] # "none" THEN [dbMsg EXCEPT ![j][i] = st] ELSE dbMsg

-------------------------------------------------------------------------------
Init ==
    /\ proc = "up"
    /\ sess \in [Sessions -> {"absent", "offline"}]
    /\ dbJob = [j \in Jobs |-> "none"]
    /\ dbMsg = [j \in Jobs |-> AllPending]
    /\ jobs = [j \in Jobs |-> "none"]
    /\ pc = [r \in Runs |-> "idle"]
    /\ todo = [r \in Runs |-> {}]
    /\ cur = [r \in Runs |-> "none"]
    /\ status = [r \in Runs |-> "running"]
    /\ results = [r \in Runs |-> AllPending]
    /\ rpc = "start"
    /\ heads = {} /\ toRead = {}
    /\ rows = [j \in Jobs |-> AllPending]
    /\ rjob = NoJob
    /\ stops = 0 /\ faults = 0
    /\ used = {} /\ unsaved = {} /\ raced = {} /\ burnt = {}
    /\ sends = [j \in Jobs |-> [i \in Idx |-> 0]]

-------------------------------------------------------------------------------
(***************************************************************************)
(* submit: the rows are written, then the object is put in b.jobs and the  *)
(* goroutine started.  A failed saveJob is logged and the job runs from    *)
(* memory alone.                                                           *)
(***************************************************************************)

SubmitSave(j) ==
    LET r == <<j, "submit">> IN
    /\ proc = "up"
    /\ j \notin used
    /\ sess[SessionOf[j]] # "absent"
    /\ used' = used \cup {j}
    /\ \E ok \in BOOLEAN :
        /\ DbCall(ok)
        /\ dbJob' = IF ok THEN [dbJob EXCEPT ![j] = "running"] ELSE dbJob
    /\ pc' = [pc EXCEPT ![r] = "saved"]
    /\ todo' = [todo EXCEPT ![r] = Idx]
    /\ status' = [status EXCEPT ![r] = "running"]
    /\ results' = [results EXCEPT ![r] = AllPending]
    /\ UNCHANGED <<procVars, sess, dbMsg, jobs, cur, resumeVars,
                   sends, unsaved, raced, burnt>>

\* cleanupLocked drops finished jobs older than an hour from the map.
SubmitRegister(j) ==
    LET r == <<j, "submit">> IN
    /\ pc[r] = "saved"
    /\ \E old \in SUBSET {k \in Jobs : jobs[k] # "none" /\ status[<<k, jobs[k]>>] # "running"} :
        jobs' = [k \in Jobs |-> IF k = j THEN "submit"
                                ELSE IF k \in old THEN "none" ELSE jobs[k]]
    /\ pc' = [pc EXCEPT ![r] = "check"]
    /\ UNCHANGED <<procVars, sess, dbVars, todo, cur, status, results,
                   resumeVars, history>>

-------------------------------------------------------------------------------
(***************************************************************************)
(* run: quit is tested, the message is sent, its result written to the     *)
(* database and then to the object, and the next one follows after a pause *)
(* that quit cuts short.                                                   *)
(***************************************************************************)

\* The memory half of finish: the object leaves "running" once.
Finish(r, st) ==
    /\ status' = [status EXCEPT ![r] = IF @ = "running" THEN st ELSE @]
    /\ pc' = [pc EXCEPT ![r] = "flush"]

\* Mutant: a shutdown between two recipients closes the job as completed.
CheckQuit_Completes(r) ==
    /\ pc[r] = "check"
    /\ IF proc = "quitting"
       THEN Finish(r, "completed")
       ELSE pc' = [pc EXCEPT ![r] = "send"] /\ UNCHANGED status
    /\ UNCHANGED <<procVars, sess, dbVars, jobs, todo, cur, results, resumeVars, history>>

CheckQuit(r) ==
    /\ pc[r] = "check"
    /\ IF proc = "quitting"
       THEN Finish(r, "interrupted")
       ELSE pc' = [pc EXCEPT ![r] = "send"] /\ UNCHANGED status
    /\ UNCHANGED <<procVars, sess, dbVars, jobs, todo, cur, results, resumeVars, history>>

\* Get fails without a session, SendText without a connection; with one it may
\* still fail, and a "timeout" is an error for a message WhatsApp accepted.
SendText(r) ==
    /\ pc[r] = "send"
    /\ \E o \in {"sent", "timeout", "failed"} :
        /\ o # "failed" => sess[SessionOf[r[1]]] = "ready"
        /\ cur' = [cur EXCEPT ![r] = o]
        /\ sends' = IF o = "failed" THEN sends
                    ELSE [sends EXCEPT ![r[1]][Item(r)] = @ + 1]
        /\ burnt' = IF o = "failed" /\ proc # "up" THEN burnt \cup {<<r[1], Item(r)>>} ELSE burnt
    /\ pc' = [pc EXCEPT ![r] = "persist"]
    /\ UNCHANGED <<procVars, sess, dbVars, jobs, todo, status, results, resumeVars,
                   used, unsaved, raced>>

\* Mutant: a send that timed out is left pending, to be tried again.
Outcome_TimeoutPending(r) ==
    CASE cur[r] = "sent" -> "sent" [] cur[r] = "timeout" -> "pending" [] OTHER -> "failed"

Outcome(r) == IF cur[r] = "sent" THEN "sent" ELSE "failed"

Persist(r) ==
    /\ pc[r] = "persist"
    /\ \E ok \in BOOLEAN :
        /\ DbCall(ok)
        /\ updateMessage(r[1], Item(r), Outcome(r), ok)
        /\ unsaved' = IF ok /\ dbJob[r[1]] # "none" THEN unsaved
                      ELSE unsaved \cup {<<r[1], Item(r)>>}
    /\ pc' = [pc EXCEPT ![r] = "record"]
    /\ UNCHANGED <<procVars, sess, dbJob, jobs, todo, cur, status, results, resumeVars,
                   used, sends, raced, burnt>>

Record(r) ==
    /\ pc[r] = "record"
    /\ results' = [results EXCEPT ![r][Item(r)] = Outcome(r)]
    /\ todo' = [todo EXCEPT ![r] = @ \ {Item(r)}]
    /\ cur' = [cur EXCEPT ![r] = "none"]
    /\ IF todo[r] = {Item(r)}
       THEN Finish(r, "completed")
       ELSE pc' = [pc EXCEPT ![r] = "sleep"] /\ UNCHANGED status
    /\ UNCHANGED <<procVars, sess, dbVars, jobs, resumeVars, history>>

sleepJitter(r) ==
    /\ pc[r] = "sleep"
    /\ \/ pc' = [pc EXCEPT ![r] = "check"] /\ UNCHANGED status
       \/ proc = "quitting" /\ Finish(r, "interrupted")
    /\ UNCHANGED <<procVars, sess, dbVars, jobs, todo, cur, results, resumeVars, history>>

\* The database half of finish, outside the lock.
FlushJob(r) ==
    /\ pc[r] = "flush"
    /\ \E ok \in BOOLEAN : DbCall(ok) /\ updateJob(r[1], status[r], ok)
    /\ pc' = [pc EXCEPT ![r] = "done"]
    /\ UNCHANGED <<procVars, sess, dbMsg, jobs, todo, cur, status, results, resumeVars, history>>

RunStep(r) ==
    \/ CheckQuit(r) \/ SendText(r) \/ Persist(r) \/ Record(r)
    \/ sleepJitter(r) \/ FlushJob(r)

-------------------------------------------------------------------------------
(***************************************************************************)
(* resumeInterrupted, once per start of the process.                       *)
(***************************************************************************)

markInterrupted ==
    /\ rpc = "start" /\ FALSE \in AutoResume
    /\ \E ok \in BOOLEAN :
        /\ DbCall(ok)
        /\ dbJob' = IF ok THEN [j \in Jobs |-> IF dbJob[j] = "running" THEN "interrupted"
                                               ELSE dbJob[j]]
                    ELSE dbJob
    /\ rpc' = "done"
    /\ UNCHANGED <<procVars, sess, dbMsg, runVars, heads, toRead, rows, rjob, history>>

\* Mutant: the resume selects completed jobs as well.
Unfinished_All == {j \in Jobs : dbJob[j] # "none"}

Unfinished == {j \in Jobs : dbJob[j] \in {"running", "interrupted"}}

LoadHeads ==
    /\ rpc = "start" /\ TRUE \in AutoResume
    /\ heads' = Unfinished
    /\ toRead' = Unfinished
    /\ rpc' = "rows"
    /\ raced' = raced \cup {j \in Unfinished : pc[<<j, "submit">>] # "idle"}
    /\ UNCHANGED <<procVars, sess, dbVars, runVars, rows, rjob, used, sends, unsaved, burnt>>

\* One query per job: other goroutines write between two of them.
LoadRows(j) ==
    /\ rpc = "rows"
    /\ j \in toRead
    /\ rows' = [rows EXCEPT ![j] = dbMsg[j]]
    /\ toRead' = toRead \ {j}
    /\ UNCHANGED <<procVars, sess, dbVars, runVars, rpc, heads, rjob, history>>

LoadFails ==
    /\ \/ rpc = "start" /\ TRUE \in AutoResume
       \/ rpc = "rows" /\ toRead # {}
    /\ faults < MaxFaults
    /\ faults' = faults + 1
    /\ rpc' = "done"
    /\ heads' = {} /\ toRead' = {}
    /\ rows' = [j \in Jobs |-> AllPending]
    /\ UNCHANGED <<procVars, sess, dbJob, dbMsg, runVars, rjob, history>>

\* The loop ends when quit is closed or no job is left.
ResumeEnds ==
    /\ rpc = "rows" /\ toRead = {}
    /\ heads = {} \/ proc = "quitting"
    /\ rpc' = "done"
    /\ heads' = {}
    /\ rows' = [j \in Jobs |-> AllPending]
    /\ UNCHANGED <<procVars, sess, dbVars, runVars, toRead, rjob, history>>

Handled(j) ==
    /\ heads' = heads \ {j}
    /\ rows' = [rows EXCEPT ![j] = AllPending]
    /\ rjob' = NoJob
    /\ rpc' = "rows"
    /\ UNCHANGED toRead

ResumeComplete(j) ==
    /\ rpc = "rows" /\ toRead = {} /\ proc # "quitting"
    /\ j \in heads
    /\ PendingOf(rows[j]) = {}
    /\ \E ok \in BOOLEAN : DbCall(ok) /\ updateJob(j, "completed", ok)
    /\ Handled(j)
    /\ UNCHANGED <<procVars, sess, dbMsg, runVars, history>>

ResumeWait(j) ==
    /\ rpc = "rows" /\ toRead = {} /\ proc # "quitting"
    /\ j \in heads
    /\ PendingOf(rows[j]) # {}
    /\ rjob' = j
    /\ rpc' = "wait"
    /\ UNCHANGED <<procVars, sess, dbVars, runVars, heads, toRead, rows, history>>

\* Mutant: the wait has no deadline and does not look at quit.
waitReady_Forever ==
    /\ rpc = "wait"
    /\ rpc' = IF sess[SessionOf[rjob]] = "ready" THEN "publish" ELSE "wait"
    /\ UNCHANGED <<procVars, sess, dbVars, runVars, heads, toRead, rows, rjob, history>>

\* waitReady polls; without a connection the deadline, or quit, ends the wait.
waitReady ==
    /\ rpc = "wait"
    /\ rpc' = IF sess[SessionOf[rjob]] = "ready" THEN "publish" ELSE "giveup"
    /\ UNCHANGED <<procVars, sess, dbVars, runVars, heads, toRead, rows, rjob, history>>

\* Mutant: a job whose session is not ready is skipped without a word.
ResumeGiveUp_Silent ==
    /\ rpc = "giveup"
    /\ Handled(rjob)
    /\ UNCHANGED <<procVars, sess, dbVars, runVars, history>>

ResumeGiveUp ==
    /\ rpc = "giveup"
    /\ \E ok \in BOOLEAN : DbCall(ok) /\ updateJob(rjob, "interrupted", ok)
    /\ Handled(rjob)
    /\ UNCHANGED <<procVars, sess, dbMsg, runVars, history>>

\* Mutant: the resume starts from the top of the list.
ResumePublish_FromTop ==
    LET r == <<rjob, "resume">> IN
    /\ rpc = "publish"
    /\ jobs' = [jobs EXCEPT ![rjob] = "resume"]
    /\ status' = [status EXCEPT ![r] = "running"]
    /\ results' = [results EXCEPT ![r] = rows[rjob]]
    /\ todo' = [todo EXCEPT ![r] = Idx]
    /\ rpc' = "mark"
    /\ UNCHANGED <<procVars, sess, dbVars, pc, cur, heads, toRead, rows, rjob, history>>

ResumePublish ==
    LET r == <<rjob, "resume">> IN
    /\ rpc = "publish"
    /\ jobs' = [jobs EXCEPT ![rjob] = "resume"]
    /\ status' = [status EXCEPT ![r] = "running"]
    /\ results' = [results EXCEPT ![r] = rows[rjob]]
    /\ todo' = [todo EXCEPT ![r] = PendingOf(rows[rjob])]
    /\ rpc' = "mark"
    /\ UNCHANGED <<procVars, sess, dbVars, pc, cur, heads, toRead, rows, rjob, history>>

ResumeRun ==
    LET r == <<rjob, "resume">> IN
    /\ rpc = "mark"
    /\ \E ok \in BOOLEAN : DbCall(ok) /\ updateJob(rjob, "running", ok)
    /\ pc' = [pc EXCEPT ![r] = "check"]
    /\ Handled(rjob)
    /\ UNCHANGED <<procVars, sess, dbMsg, jobs, todo, cur, status, results, history>>

ResumeStep ==
    \/ markInterrupted \/ LoadHeads \/ LoadFails \/ ResumeEnds
    \/ \E j \in Jobs : LoadRows(j) \/ ResumeComplete(j) \/ ResumeWait(j)
    \/ waitReady \/ ResumeGiveUp \/ ResumePublish \/ ResumeRun

-------------------------------------------------------------------------------
(***************************************************************************)
(* The process and its sessions.                                           *)
(***************************************************************************)

\* Sessions connect, drop, are created and removed while the process is up.
SessionChange(s) ==
    /\ proc = "up"
    /\ \E st \in {"absent", "offline", "ready"} \ {sess[s]} :
        /\ st = "ready" => sess[s] = "offline"
        /\ sess' = [sess EXCEPT ![s] = st]
    /\ UNCHANGED <<procVars, dbVars, runVars, resumeVars, history>>

Disconnected == [s \in Sessions |-> IF sess[s] = "absent" THEN "absent" ELSE "offline"]

\* Manager.Stop disconnects every session before it stops the bulk runner.
StopSessions ==
    /\ proc = "up"
    /\ stops < MaxStops
    /\ stops' = stops + 1
    /\ proc' = "stopping"
    /\ sess' = Disconnected
    /\ UNCHANGED <<dbVars, runVars, resumeVars, history>>

CloseQuit ==
    /\ proc = "stopping"
    /\ proc' = "quitting"
    /\ UNCHANGED <<stops, sess, dbVars, runVars, resumeVars, history>>

MemoryLost ==
    /\ proc' = "down"
    /\ jobs' = [j \in Jobs |-> "none"]
    /\ pc' = [r \in Runs |-> "idle"]
    /\ todo' = [r \in Runs |-> {}]
    /\ cur' = [r \in Runs |-> "none"]
    /\ status' = [r \in Runs |-> "running"]
    /\ results' = [r \in Runs |-> AllPending]
    /\ rpc' = "done"
    /\ heads' = {} /\ toRead' = {}
    /\ rows' = [j \in Jobs |-> AllPending]
    /\ rjob' = NoJob

\* bulkRunner.stop returns when the goroutines it counts have ended.
Exit ==
    /\ proc = "quitting"
    /\ rpc = "done"
    /\ \A r \in Runs : ~Live(r)
    /\ MemoryLost
    /\ UNCHANGED <<stops, sess, dbVars, history>>

Crash ==
    /\ proc # "down"
    /\ stops < MaxStops
    /\ stops' = stops + 1
    /\ MemoryLost
    /\ sess' = Disconnected
    /\ unsaved' = unsaved \cup {<<r[1], Item(r)>> : r \in {q \in Runs : pc[q] = "persist"}}
    /\ UNCHANGED <<dbVars, used, sends, raced, burnt>>

\* Manager.Start restores the sessions and starts the resumer.
Restart ==
    /\ proc = "down"
    /\ proc' = "up"
    /\ rpc' = "start"
    /\ UNCHANGED <<stops, sess, dbVars, runVars, heads, toRead, rows, rjob, history>>

Next ==
    \/ \E j \in Jobs : SubmitSave(j) \/ SubmitRegister(j)
    \/ \E j \in Jobs, k \in Kinds : RunStep(<<j, k>>)
    \/ ResumeStep
    \/ \E s \in Sessions : SessionChange(s)
    \/ StopSessions \/ CloseQuit \/ Exit \/ Crash \/ Restart

Spec == Init /\ [][Next]_vars

(***************************************************************************)
(* The goroutines keep running, the stop proceeds, and the compose files   *)
(* restart the container (restart: unless-stopped).  Nothing obliges a     *)
(* session to connect, a client to submit or the process to stop.          *)
(***************************************************************************)
Fairness ==
    /\ \A j \in Jobs : WF_vars(SubmitRegister(j))
    /\ \A r \in Runs : WF_vars(RunStep(r))
    /\ WF_vars(ResumeStep)
    /\ WF_vars(CloseQuit) /\ WF_vars(Exit) /\ WF_vars(Restart)

FairSpec == Spec /\ Fairness

-------------------------------------------------------------------------------
TypeOK ==
    /\ proc \in {"up", "stopping", "quitting", "down"}
    /\ sess \in [Sessions -> {"absent", "offline", "ready"}]
    /\ dbJob \in [Jobs -> JobStatus \cup {"none"}]
    /\ dbMsg \in [Jobs -> [Idx -> MsgStatus]]
    /\ jobs \in [Jobs -> {"none", "submit", "resume"}]
    /\ pc \in [Runs -> {"idle", "saved", "check", "send", "persist", "record",
                        "sleep", "flush", "done"}]
    /\ todo \in [Runs -> SUBSET Idx]
    /\ cur \in [Runs -> {"none", "sent", "timeout", "failed"}]
    /\ status \in [Runs -> JobStatus]
    /\ results \in [Runs -> [Idx -> MsgStatus]]
    /\ rpc \in {"start", "rows", "wait", "giveup", "publish", "mark", "done"}
    /\ heads \in SUBSET Jobs
    /\ toRead \in SUBSET Jobs
    /\ rows \in [Jobs -> [Idx -> MsgStatus]]
    /\ rjob \in Jobs \cup {NoJob}
    /\ stops \in Nat
    /\ faults \in Nat
    /\ used \in SUBSET Jobs
    /\ sends \in [Jobs -> [Idx -> Nat]]
    /\ unsaved \in SUBSET (Jobs \X Idx)
    /\ raced \in SUBSET Jobs
    /\ burnt \in SUBSET (Jobs \X Idx)

\* A recipient is out of the promise when the result of an attempt never
\* reached its row, or when the resumer took over a job of its own process.
Excused(j, i) == <<j, i>> \in unsaved \/ j \in raced

\* The run has attempted item i and not yet written the outcome.
InFlight(j, i) == \E k \in Kinds :
    pc[<<j, k>>] = "persist" /\ Item(<<j, k>>) = i

(***************************************************************************)
(* No recipient receives a message of a job twice, however often the       *)
(* process dies, restarts and resumes (the promise of resumeInterrupted).  *)
(***************************************************************************)
NoDuplicateSend ==
    \A j \in Jobs, i \in Idx : sends[j][i] > 1 => Excused(j, i)

(***************************************************************************)
(* The resumer's race with submit costs a recipient one message more, and  *)
(* no second one: neither the list of pending recipients it holds while it *)
(* waits for a session, nor two runs that write the same rows, nor the     *)
(* exits and resumes that follow, send a third, unless a result was never  *)
(* written.                                                                *)
(***************************************************************************)
OneExtraAtMost ==
    \A j \in Jobs, i \in Idx : sends[j][i] > 2 => <<j, i>> \in unsaved

\* A recipient whose row says "pending" was not sent to.
PendingNotSent ==
    \A j \in Jobs, i \in Idx :
        dbMsg[j][i] = "pending" /\ sends[j][i] > 0 => Excused(j, i) \/ InFlight(j, i)

\* A job closed as completed has no recipient left out.
CompletedIsAttempted ==
    \A j \in Jobs, i \in Idx :
        dbJob[j] = "completed" /\ dbMsg[j][i] = "pending" => <<j, i>> \in unsaved

(***************************************************************************)
(* What the rows say is true, which makes resuming from them safe: nobody  *)
(* who was sent to is pending, as the comment on BulkJob has it, and in a  *)
(* completed job nobody was forgotten by resume, shutdown or crash.        *)
(***************************************************************************)
RowsTell == PendingNotSent /\ CompletedIsAttempted

\* GET /send/bulk/{id}: the object in memory, else the rows.
View(j) == IF jobs[j] # "none" THEN results[<<j, jobs[j]>>] ELSE dbMsg[j]

(***************************************************************************)
(* What a client has been told of a recipient is not taken back: a result  *)
(* once reported stays, across cleanup, crash, restart and resume.         *)
(***************************************************************************)
ReportedStays ==
    [][\A j \in Jobs, i \in Idx :
        View(j)[i] # "pending" => View(j)'[i] = View(j)[i] \/ Excused(j, i)']_vars

(***************************************************************************)
(* Manager.Stop returns: no run and no wait for a session holds it up.     *)
(***************************************************************************)
StopTerminates == proc = "stopping" ~> proc = "down"

(***************************************************************************)
(* No job is left "running" by a process that died: the runs, the resume   *)
(* or the marking at the next start close it.                              *)
(***************************************************************************)
JobsSettle == \A j \in Jobs : dbJob[j] = "running" ~> dbJob[j] # "running"

(***************************************************************************)
(* README.md: recipients already sent or failed are skipped, so there is   *)
(* no duplicate but for a send whose status was not saved before a crash.  *)
(***************************************************************************)
DocNoDuplicate ==
    \A j \in Jobs, i \in Idx : sends[j][i] > 1 => <<j, i>> \in unsaved

(***************************************************************************)
(* run's comment on a graceful shutdown: the remaining recipients are left *)
(* as pending, so that the job resumes with them.  Only the one in         *)
(* progress when the sessions go down may fail because of it.              *)
(***************************************************************************)
DocShutdownLeavesPending ==
    \A j \in Jobs : Cardinality({i \in Idx : <<j, i>> \in burnt}) <= 1

-------------------------------------------------------------------------------
(***************************************************************************)
(* The inductive invariant behind the properties above.                    *)
(***************************************************************************)

\* A run that still has the recipients in todo before it.
Sending(r) == pc[r] \in {"saved", "check", "send", "persist", "record", "sleep"}

\* A job identifier not handed out yet has left no trace.
UnusedInv ==
    \A j \in Jobs \ used :
        /\ dbJob[j] = "none"
        /\ pc[<<j, "submit">>] = "idle"
        /\ \A i \in Idx : sends[j][i] = 0

\* A job without rows is unknown to the resumer.
RowsInv ==
    \A j \in Jobs : dbJob[j] = "none" =>
        /\ dbMsg[j] = AllPending
        /\ j \notin heads
        /\ pc[<<j, "resume">>] = "idle"

\* The resumer's own control state.
ResumerInv ==
    /\ toRead \subseteq heads
    /\ rpc # "rows" => toRead = {}
    /\ rpc \in {"start", "done"} => heads = {}
    /\ rpc = "start" => \A j \in Jobs : pc[<<j, "resume">>] = "idle"
    /\ \A j \in heads : pc[<<j, "resume">>] = "idle"
    /\ rpc \in {"wait", "giveup", "publish", "mark"} =>
          rjob \in heads /\ PendingOf(rows[rjob]) # {}
    /\ rpc = "mark" => /\ todo[<<rjob, "resume">>] = PendingOf(rows[rjob])
                       /\ status[<<rjob, "resume">>] = "running"

\* Nothing runs in a process that is down.
DownInv ==
    proc = "down" => rpc = "done" /\ \A r \in Runs : pc[r] = "idle"

\* Only a raced job is in two hands.
ExclusiveInv ==
    \A j \in Jobs : j \notin raced /\ pc[<<j, "submit">>] # "idle" =>
        j \notin heads /\ pc[<<j, "resume">>] = "idle"

RunInv ==
    \A j \in Jobs, k \in Kinds :
        /\ Sending(<<j, k>>) => todo[<<j, k>>] # {} /\ status[<<j, k>>] = "running"
        /\ pc[<<j, k>>] \in {"flush", "done"} /\ status[<<j, k>>] = "completed" =>
              todo[<<j, k>>] = {}

\* Whoever holds a recipient as pending has not sent to it.
HeldNotSent ==
    \A j \in Jobs, i \in Idx : ~Excused(j, i) =>
        /\ \A k \in Kinds :
              /\ Sending(<<j, k>>) /\ i \in todo[<<j, k>>]
              /\ ~(pc[<<j, k>>] \in {"persist", "record"} /\ i = Item(<<j, k>>))
              => sends[j][i] = 0
        /\ j \in heads \ toRead /\ rows[j][i] = "pending" => sends[j][i] = 0

\* Whoever holds a recipient as attempted has its row.
NotHeldWritten ==
    \A j \in Jobs, i \in Idx : dbJob[j] # "none" /\ <<j, i>> \notin unsaved =>
        /\ \A k \in Kinds :
              /\ pc[<<j, k>>] # "idle"
              /\ i \notin todo[<<j, k>>] \/ (pc[<<j, k>>] = "record" /\ i = Item(<<j, k>>))
              => dbMsg[j][i] # "pending"
        /\ j \in heads \ toRead /\ rows[j][i] # "pending" => dbMsg[j][i] # "pending"

\* A job in hand is not completed.
OpenInv ==
    \A j \in Jobs \ raced :
        /\ j \in heads => dbJob[j] # "completed"
        /\ \A k \in Kinds :
              pc[<<j, k>>] \notin {"idle", "done"} => dbJob[j] # "completed"

\* A run has an object that shows results: it was started, or is about to be
\* by resumeInterrupted, which has put the object in the map.
Shows(j, k) == pc[<<j, k>>] # "idle" \/ (k = "resume" /\ rpc = "mark" /\ rjob = j)

\* The map holds such an object, and not one that is still being saved.
ShownInv ==
    \A j \in Jobs : jobs[j] # "none" => Shows(j, jobs[j]) /\ pc[<<j, jobs[j]>>] # "saved"

\* What the resumer read and what the objects show of a recipient is what its
\* row says, but for the moment between the write to the row and the object.
AgreeInv ==
    \A j \in Jobs, i \in Idx : ~Excused(j, i) =>
        /\ j \in heads \ toRead => rows[j][i] = dbMsg[j][i]
        /\ \A k \in Kinds : Shows(j, k) =>
              /\ i \in todo[<<j, k>>] => results[<<j, k>>][i] = "pending"
              /\ dbMsg[j][i] = IF pc[<<j, k>>] = "record" /\ i = Item(<<j, k>>)
                               THEN Outcome(<<j, k>>) ELSE results[<<j, k>>][i]

\* The run is still to send to the recipient.
ToSend(r, i) == Sending(r) /\ i \in todo[r] /\ ~(pc[r] \in {"persist", "record"} /\ i = Item(r))

\* The resumer has read that the recipient is to be sent to.
Pending(j, i) == j \in heads \ toRead /\ rows[j][i] = "pending"

\* Of any job, raced or not: the two hands of the process that took it in send
\* once each, and a row that still says "pending" is about to be written.
Hands(j, i) ==
    LET submits == ToSend(<<j, "submit">>, i)
        resumes == ToSend(<<j, "resume">>, i) \/ Pending(j, i)
    IN  /\ sends[j][i] <= 2
        /\ submits \/ resumes => sends[j][i] <= 1
        /\ submits /\ resumes => sends[j][i] = 0
        /\ dbMsg[j][i] = "pending" =>
              /\ sends[j][i] >= 1 => InFlight(j, i)
              /\ sends[j][i] = 2 => \A k \in Kinds : pc[<<j, k>>] = "persist" /\ Item(<<j, k>>) = i

HandsInv == \A j \in Jobs, i \in Idx : <<j, i>> \notin unsaved => Hands(j, i)

SendInv ==
    /\ TypeOK
    /\ UnusedInv /\ RowsInv /\ ResumerInv /\ DownInv /\ ExclusiveInv /\ RunInv
    /\ HeldNotSent /\ NotHeldWritten /\ OpenInv
    /\ NoDuplicateSend /\ PendingNotSent /\ CompletedIsAttempted

IInv == SendInv /\ ShownInv /\ AgreeInv /\ HandsInv
===============================================================================
