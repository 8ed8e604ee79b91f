---------------------------- MODULE BulkSendProofs ----------------------------
(***************************************************************************)
(* Proofs about BulkSend, for every number of jobs and recipients, any     *)
(* number of crashes, stops and failed database calls.  SendInv, which is  *)
(* about what is sent and written, is inductive by itself; ShownInv and    *)
(* AgreeInv, about what a client is shown, and HandsInv, about jobs the    *)
(* resumer raced for, are inductive given SendInv.                         *)
(***************************************************************************)
EXTENDS BulkSend, TLAPS, WellFoundedInduction

(***************************************************************************)
(* A non-empty set of recipients has a first one, so Item(r) is one of the *)
(* items a run has left.                                                   *)
(***************************************************************************)
LEMMA LeastElement ==
    ASSUME NEW S \in SUBSET Nat, S # {}
    PROVE  \E m \in S : \A k \in S : m <= k
<1> DEFINE R == {ss \in Nat \X Nat : ss[1] < ss[2]}
<1>1. R = OpToRel(<, Nat)
  BY DEF OpToRel
<1>2. IsWellFoundedOn(R, Nat)
  BY <1>1, NatLessThanWellFounded
<1> HIDE DEF R
<1>3. PICK m \in S : \A y \in S : ~ (<<y, m>> \in R)
  BY <1>2, WFMin
<1>4. \A y \in S : ~(y < m)
  BY <1>3 DEF R
<1>. QED
  BY <1>4

LEMMA FirstIn ==
    ASSUME NEW S \in SUBSET Idx, S # {}
    PROVE  First(S) \in S
<1>1. S \in SUBSET Nat
  BY BulkAssumption DEF Idx
<1>2. \E m \in S : \A k \in S : m <= k
  BY <1>1, LeastElement
<1>. QED
  BY <1>2 DEF First

LEMMA ItemIn ==
    ASSUME TypeOK, NEW r \in Runs, todo[r] # {}
    PROVE  Item(r) \in todo[r] /\ Item(r) \in Idx
BY FirstIn DEF Item, TypeOK

(***************************************************************************)
(* The statuses of a new job are statuses.                                 *)
(***************************************************************************)
LEMMA PendingType == AllPending \in [Idx -> MsgStatus]
BY DEF AllPending, MsgStatus

(***************************************************************************)
(* A run of a job nobody raced for is the only hand on the job.            *)
(***************************************************************************)
LEMMA SoleHand ==
    ASSUME SendInv, NEW j \in Jobs, NEW k \in Kinds, pc[<<j, k>>] # "idle", j \notin raced
    PROVE  j \notin heads /\ \A k2 \in Kinds : k2 # k => pc[<<j, k2>>] = "idle"
<1>1. ExclusiveInv /\ ResumerInv
  BY DEF SendInv
<1>2. CASE k = "submit"
  BY <1>1, <1>2 DEF ExclusiveInv, Kinds
<1>3. CASE k = "resume"
  BY <1>1, <1>3 DEF ExclusiveInv, ResumerInv, Kinds
<1>. QED
  BY <1>2, <1>3 DEF Kinds

-------------------------------------------------------------------------------
(***************************************************************************)
(* The steps of a run.  Each lemma first says what the step does to the run *)
(* <<j0, k0>> (<1>1), to the other runs (<1>2) and to the shared variables *)
(* (<1>3), then takes the parts of SendInv one by one.  What makes them    *)
(* hold is SoleHand: nobody else works on a job that was not raced for.    *)
(***************************************************************************)
LEMMA CheckQuitInv ==
    ASSUME SendInv, NEW j0 \in Jobs, NEW k0 \in Kinds, CheckQuit(<<j0, k0>>)
    PROVE  SendInv'
<1> DEFINE r0 == <<j0, k0>>
           i0 == Item(r0)
<1>r. r0 \in Runs /\ "submit" \in Kinds /\ "resume" \in Kinds
  BY DEF Runs, Kinds
<1>t. /\ TypeOK /\ UnusedInv /\ RowsInv /\ ResumerInv /\ DownInv /\ ExclusiveInv /\ RunInv
      /\ HeldNotSent /\ NotHeldWritten /\ OpenInv
      /\ NoDuplicateSend /\ PendingNotSent /\ CompletedIsAttempted
      /\ heads \subseteq Jobs
  BY DEF SendInv, TypeOK
<1>1. /\ pc[r0] = "check" /\ todo'[r0] = todo[r0] /\ Item(r0)' = i0
      /\ \/ pc'[r0] = "send" /\ status'[r0] = status[r0]
         \/ pc'[r0] = "flush" /\ (status[r0] = "running" => status'[r0] # "completed")
  BY <1>r, <1>t DEF CheckQuit, Finish, Item, TypeOK
<1>2. \A j \in Jobs, k \in Kinds : ~(j = j0 /\ k = k0) =>
        /\ pc'[<<j, k>>] = pc[<<j, k>>] /\ todo'[<<j, k>>] = todo[<<j, k>>]
        /\ status'[<<j, k>>] = status[<<j, k>>] /\ Item(<<j, k>>)' = Item(<<j, k>>)
  BY <1>t DEF CheckQuit, Finish, TypeOK, Runs, Item
<1>3. UNCHANGED <<proc, used, dbJob, dbMsg, sends, unsaved, raced, heads, toRead, rows, rpc, rjob>>
  BY DEF CheckQuit, Finish, Item, procVars, dbVars, resumeVars, history
<1>i. i0 \in todo[r0] /\ i0 \in Idx
  BY <1>r, <1>t, <1>1, ItemIn DEF RunInv, Sending
<1>p. pc[r0] # "idle" /\ pc'[r0] # "idle"
  BY <1>1
<1>s. j0 \notin raced => j0 \notin heads /\ \A k \in Kinds : k # k0 => pc[<<j0, k>>] = "idle"
  BY <1>1, SoleHand
<1>4. TypeOK'
  <2>0. status \in [Runs -> JobStatus] /\ pc \in [Runs -> {"idle", "saved", "check", "send", "persist", "record", "sleep", "flush", "done"}]
    BY <1>t DEF TypeOK
  <2>1. status' \in [Runs -> JobStatus]
    BY <1>r, <2>0 DEF CheckQuit, Finish, JobStatus
  <2>2. pc' \in [Runs -> {"idle", "saved", "check", "send", "persist", "record", "sleep", "flush", "done"}]
    BY <1>r, <2>0 DEF CheckQuit, Finish
  <2>. QED
    BY <1>r, <1>t, <2>1, <2>2 DEF CheckQuit, TypeOK, procVars, dbVars, resumeVars, history
<1>5. UnusedInv'
  BY <1>r, <1>t, <1>p, <1>2, <1>3 DEF UnusedInv
<1>6. RowsInv'
  BY <1>r, <1>t, <1>1, <1>2, <1>3 DEF RowsInv
<1>7. ResumerInv'
  BY <1>r, <1>t, <1>1, <1>2, <1>3 DEF ResumerInv, PendingOf
<1>8. DownInv'
  BY <1>r, <1>t, <1>p, <1>3 DEF DownInv
<1>9. ExclusiveInv'
  BY <1>r, <1>t, <1>1, <1>2, <1>3 DEF ExclusiveInv
<1>10. RunInv'
  <2> SUFFICES ASSUME NEW j \in Jobs, NEW k \in Kinds
                PROVE  RunInv!(j, k)'
    BY DEF RunInv
  <2>1. RunInv!(j, k)
    BY <1>t DEF RunInv
  <2>2. CASE j = j0 /\ k = k0
    BY <1>1, <1>3, <1>i, <2>1, <2>2 DEF Sending
  <2>3. CASE ~(j = j0 /\ k = k0)
    BY <1>2, <1>3, <2>1, <2>3 DEF Sending
  <2>. QED
    BY <2>2, <2>3
<1>11. HeldNotSent'
  BY <1>r, <1>t, <1>1, <1>2, <1>3 DEF HeldNotSent, Excused, Sending
<1>12. NotHeldWritten'
  BY <1>r, <1>t, <1>1, <1>2, <1>3 DEF NotHeldWritten
<1>13. OpenInv'
  BY <1>r, <1>t, <1>1, <1>2, <1>3 DEF OpenInv
<1>14. NoDuplicateSend'
  BY <1>t, <1>3 DEF NoDuplicateSend, Excused
<1>15. PendingNotSent'
  BY <1>r, <1>t, <1>1, <1>2, <1>3 DEF PendingNotSent, Excused, InFlight
<1>16. CompletedIsAttempted'
  BY <1>t, <1>3 DEF CompletedIsAttempted
<1>. QED
  BY <1>4, <1>5, <1>6, <1>7, <1>8, <1>9, <1>10, <1>11, <1>12, <1>13, <1>14, <1>15, <1>16 DEF SendInv

\* The pause between two recipients ends, or quit cuts it short.
LEMMA sleepJitterInv ==
    ASSUME SendInv, NEW j0 \in Jobs, NEW k0 \in Kinds, sleepJitter(<<j0, k0>>)
    PROVE  SendInv'
<1> DEFINE r0 == <<j0, k0>>
           i0 == Item(r0)
<1>r. r0 \in Runs /\ "submit" \in Kinds /\ "resume" \in Kinds
  BY DEF Runs, Kinds
<1>t. /\ TypeOK /\ UnusedInv /\ RowsInv /\ ResumerInv /\ DownInv /\ ExclusiveInv /\ RunInv
      /\ HeldNotSent /\ NotHeldWritten /\ OpenInv
      /\ NoDuplicateSend /\ PendingNotSent /\ CompletedIsAttempted
      /\ heads \subseteq Jobs
  BY DEF SendInv, TypeOK
<1>1. /\ pc[r0] = "sleep" /\ todo'[r0] = todo[r0] /\ Item(r0)' = i0
      /\ \/ pc'[r0] = "check" /\ status'[r0] = status[r0]
         \/ pc'[r0] = "flush" /\ (status[r0] = "running" => status'[r0] # "completed")
  BY <1>r, <1>t DEF sleepJitter, Finish, Item, TypeOK
<1>2. \A j \in Jobs, k \in Kinds : ~(j = j0 /\ k = k0) =>
        /\ pc'[<<j, k>>] = pc[<<j, k>>] /\ todo'[<<j, k>>] = todo[<<j, k>>]
        /\ status'[<<j, k>>] = status[<<j, k>>] /\ Item(<<j, k>>)' = Item(<<j, k>>)
  BY <1>t DEF sleepJitter, Finish, TypeOK, Runs, Item
<1>3. UNCHANGED <<proc, used, dbJob, dbMsg, sends, unsaved, raced, heads, toRead, rows, rpc, rjob>>
  BY DEF sleepJitter, Finish, Item, procVars, dbVars, resumeVars, history
<1>i. i0 \in todo[r0] /\ i0 \in Idx
  BY <1>r, <1>t, <1>1, ItemIn DEF RunInv, Sending
<1>p. pc[r0] # "idle" /\ pc'[r0] # "idle"
  BY <1>1
<1>s. j0 \notin raced => j0 \notin heads /\ \A k \in Kinds : k # k0 => pc[<<j0, k>>] = "idle"
  BY <1>1, SoleHand
<1>4. TypeOK'
  <2>0. status \in [Runs -> JobStatus] /\ pc \in [Runs -> {"idle", "saved", "check", "send", "persist", "record", "sleep", "flush", "done"}]
    BY <1>t DEF TypeOK
  <2>1. status' \in [Runs -> JobStatus]
    BY <1>r, <2>0 DEF sleepJitter, Finish, JobStatus
  <2>2. pc' \in [Runs -> {"idle", "saved", "check", "send", "persist", "record", "sleep", "flush", "done"}]
    BY <1>r, <2>0 DEF sleepJitter, Finish
  <2>. QED
    BY <1>r, <1>t, <2>1, <2>2 DEF sleepJitter, TypeOK, procVars, dbVars, resumeVars, history
<1>5. UnusedInv'
  BY <1>r, <1>t, <1>p, <1>2, <1>3 DEF UnusedInv
<1>6. RowsInv'
  BY <1>r, <1>t, <1>1, <1>2, <1>3 DEF RowsInv
<1>7. ResumerInv'
  BY <1>r, <1>t, <1>1, <1>2, <1>3 DEF ResumerInv, PendingOf
<1>8. DownInv'
  BY <1>r, <1>t, <1>p, <1>3 DEF DownInv
<1>9. ExclusiveInv'
  BY <1>r, <1>t, <1>1, <1>2, <1>3 DEF ExclusiveInv
<1>10. RunInv'
  <2> SUFFICES ASSUME NEW j \in Jobs, NEW k \in Kinds
                PROVE  RunInv!(j, k)'
    BY DEF RunInv
  <2>1. RunInv!(j, k)
    BY <1>t DEF RunInv
  <2>2. CASE j = j0 /\ k = k0
    BY <1>1, <1>3, <1>i, <2>1, <2>2 DEF Sending
  <2>3. CASE ~(j = j0 /\ k = k0)
    BY <1>2, <1>3, <2>1, <2>3 DEF Sending
  <2>. QED
    BY <2>2, <2>3
<1>11. HeldNotSent'
  BY <1>r, <1>t, <1>1, <1>2, <1>3 DEF HeldNotSent, Excused, Sending
<1>12. NotHeldWritten'
  BY <1>r, <1>t, <1>1, <1>2, <1>3 DEF NotHeldWritten
<1>13. OpenInv'
  BY <1>r, <1>t, <1>1, <1>2, <1>3 DEF OpenInv
<1>14. NoDuplicateSend'
  BY <1>t, <1>3 DEF NoDuplicateSend, Excused
<1>15. PendingNotSent'
  BY <1>r, <1>t, <1>1, <1>2, <1>3 DEF PendingNotSent, Excused, InFlight
<1>16. CompletedIsAttempted'
  BY <1>t, <1>3 DEF CompletedIsAttempted
<1>. QED
  BY <1>4, <1>5, <1>6, <1>7, <1>8, <1>9, <1>10, <1>11, <1>12, <1>13, <1>14, <1>15, <1>16 DEF SendInv

\* The one step that sends: HeldNotSent says nothing was sent before.
LEMMA SendTextInv ==
    ASSUME SendInv, NEW j0 \in Jobs, NEW k0 \in Kinds, SendText(<<j0, k0>>)
    PROVE  SendInv'
<1> DEFINE r0 == <<j0, k0>>
           i0 == Item(r0)
<1>r. r0 \in Runs /\ "submit" \in Kinds /\ "resume" \in Kinds
  BY DEF Runs, Kinds
<1>t. /\ TypeOK /\ UnusedInv /\ RowsInv /\ ResumerInv /\ DownInv /\ ExclusiveInv /\ RunInv
      /\ HeldNotSent /\ NotHeldWritten /\ OpenInv
      /\ NoDuplicateSend /\ PendingNotSent /\ CompletedIsAttempted
      /\ heads \subseteq Jobs
  BY DEF SendInv, TypeOK
<1>1. /\ pc[r0] = "send" /\ pc'[r0] = "persist"
      /\ todo'[r0] = todo[r0] /\ Item(r0)' = i0 /\ status'[r0] = status[r0]
      /\ \/ sends' = sends
         \/ sends' = [sends EXCEPT ![j0][i0] = @ + 1]
  BY <1>r, <1>t DEF SendText, Item, TypeOK
<1>2. \A j \in Jobs, k \in Kinds : ~(j = j0 /\ k = k0) =>
        /\ pc'[<<j, k>>] = pc[<<j, k>>] /\ todo'[<<j, k>>] = todo[<<j, k>>]
        /\ status'[<<j, k>>] = status[<<j, k>>] /\ Item(<<j, k>>)' = Item(<<j, k>>)
  BY <1>t DEF SendText, Item, TypeOK, Runs
<1>3. UNCHANGED <<proc, used, dbJob, dbMsg, unsaved, raced, heads, toRead, rows, rpc, rjob>>
  BY DEF SendText, Item, procVars, dbVars, resumeVars, history
<1>i. i0 \in todo[r0] /\ i0 \in Idx
  BY <1>r, <1>t, <1>1, ItemIn DEF RunInv, Sending
<1>p. pc[r0] # "idle" /\ pc'[r0] # "idle"
  BY <1>1
<1>s. j0 \notin raced => j0 \notin heads /\ \A k \in Kinds : k # k0 => pc[<<j0, k>>] = "idle"
  BY <1>1, SoleHand
<1>m. sends \in [Jobs -> [Idx -> Nat]]
  BY <1>t DEF TypeOK
<1>e. \A j \in Jobs, i \in Idx :
        \/ sends'[j][i] = sends[j][i]
        \/ j = j0 /\ i = i0 /\ sends'[j][i] = sends[j][i] + 1
  BY <1>1, <1>i, <1>m
<1>z. ~Excused(j0, i0) => sends[j0][i0] = 0
  BY <1>t, <1>1, <1>i DEF HeldNotSent, Sending
<1>u. \A j \in Jobs, i \in Idx : sends[j][i] \in Nat
  BY <1>m
<1>4. TypeOK'
  <2>1. sends' \in [Jobs -> [Idx -> Nat]]
    BY <1>1, <1>m, <1>i
  <2>2. burnt' \in SUBSET (Jobs \X Idx)
    BY <1>r, <1>t, <1>i DEF SendText, TypeOK
  <2>3. cur' \in [Runs -> {"none", "sent", "timeout", "failed"}]
    BY <1>r, <1>t DEF SendText, TypeOK
  <2>. QED
    BY <1>r, <1>t, <2>1, <2>2, <2>3 DEF SendText, TypeOK, procVars, dbVars, resumeVars
<1>5. UnusedInv'
  <2>1. j0 \in used
    BY <1>r, <1>t, <1>p DEF UnusedInv, RowsInv, Kinds
  <2>. QED
    <3> SUFFICES ASSUME NEW j \in Jobs \ used
                 PROVE  UnusedInv!(j)'
      BY <1>3 DEF UnusedInv
    <3>1. UnusedInv!(j) /\ j # j0
      BY <1>t, <2>1 DEF UnusedInv
    <3>. QED
      BY <1>r, <1>2, <1>3, <1>e, <3>1
<1>6. RowsInv'
  BY <1>r, <1>t, <1>1, <1>2, <1>3 DEF RowsInv
<1>7. ResumerInv'
  BY <1>r, <1>t, <1>1, <1>2, <1>3 DEF ResumerInv, PendingOf
<1>8. DownInv'
  BY <1>r, <1>t, <1>p, <1>3 DEF DownInv
<1>9. ExclusiveInv'
  BY <1>r, <1>t, <1>1, <1>2, <1>3 DEF ExclusiveInv
<1>10. RunInv'
  <2> SUFFICES ASSUME NEW j \in Jobs, NEW k \in Kinds
                PROVE  RunInv!(j, k)'
    BY DEF RunInv
  <2>1. RunInv!(j, k)
    BY <1>t DEF RunInv
  <2>2. CASE j = j0 /\ k = k0
    BY <1>1, <1>3, <1>i, <2>1, <2>2 DEF Sending
  <2>3. CASE ~(j = j0 /\ k = k0)
    BY <1>2, <1>3, <2>1, <2>3 DEF Sending
  <2>. QED
    BY <2>2, <2>3
<1>11. HeldNotSent'
  <2> SUFFICES ASSUME NEW j \in Jobs, NEW i \in Idx, ~Excused(j, i)'
                PROVE  HeldNotSent!(j, i)!2'
    BY DEF HeldNotSent
  <2>1. HeldNotSent!(j, i)!2 /\ ~Excused(j, i)
    BY <1>t, <1>3 DEF HeldNotSent, Excused
  <2>2. CASE j # j0 \/ i # i0
    BY <1>1, <1>2, <1>e, <1>3, <2>1, <2>2 DEF Sending
  <2>3. CASE j = j0 /\ i = i0
    <3>1. j0 \notin raced
      BY <2>1, <2>3 DEF Excused
    <3>2. j0 \notin heads /\ \A k \in Kinds : k # k0 => pc'[<<j0, k>>] = "idle"
      BY <1>s, <1>2, <3>1
    <3>. QED
      BY <1>1, <1>3, <2>3, <3>2 DEF Sending
  <2>. QED
    BY <2>2, <2>3
<1>12. NotHeldWritten'
  BY <1>r, <1>t, <1>1, <1>2, <1>3 DEF NotHeldWritten
<1>13. OpenInv'
  BY <1>r, <1>t, <1>1, <1>2, <1>3 DEF OpenInv
<1>14. NoDuplicateSend'
  BY <1>t, <1>3, <1>e, <1>z, <1>u DEF NoDuplicateSend, Excused
<1>15. PendingNotSent'
  <2> SUFFICES ASSUME NEW j \in Jobs, NEW i \in Idx,
                              dbMsg'[j][i] = "pending", sends'[j][i] > 0
                PROVE  Excused(j, i)' \/ InFlight(j, i)'
    BY DEF PendingNotSent
  <2>1. CASE j = j0 /\ i = i0
    BY <1>1, <2>1 DEF InFlight
  <2>2. CASE ~(j = j0 /\ i = i0)
    <3>1. Excused(j, i) \/ InFlight(j, i)
      BY <1>t, <1>e, <1>3, <2>2 DEF PendingNotSent
    <3>2. InFlight(j, i) => InFlight(j, i)'
      BY <1>1, <1>2, <2>2 DEF InFlight
    <3>. QED
      BY <1>3, <3>1, <3>2 DEF Excused
  <2>. QED
    BY <2>1, <2>2
<1>16. CompletedIsAttempted'
  BY <1>t, <1>3 DEF CompletedIsAttempted
<1>. QED
  BY <1>4, <1>5, <1>6, <1>7, <1>8, <1>9, <1>10, <1>11, <1>12, <1>13, <1>14, <1>15, <1>16 DEF SendInv

\* The result is written, or remembered as unsaved.
LEMMA PersistInv ==
    ASSUME SendInv, NEW j0 \in Jobs, NEW k0 \in Kinds, Persist(<<j0, k0>>)
    PROVE  SendInv'
<1> DEFINE r0 == <<j0, k0>>
           i0 == Item(r0)
<1>r. r0 \in Runs /\ "submit" \in Kinds /\ "resume" \in Kinds
  BY DEF Runs, Kinds
<1>t. /\ TypeOK /\ UnusedInv /\ RowsInv /\ ResumerInv /\ DownInv /\ ExclusiveInv /\ RunInv
      /\ HeldNotSent /\ NotHeldWritten /\ OpenInv
      /\ NoDuplicateSend /\ PendingNotSent /\ CompletedIsAttempted
      /\ heads \subseteq Jobs
  BY DEF SendInv, TypeOK
<1>1. /\ pc[r0] = "persist" /\ pc'[r0] = "record"
      /\ todo'[r0] = todo[r0] /\ Item(r0)' = i0 /\ status'[r0] = status[r0]
      /\ \/ dbJob[j0] # "none" /\ dbMsg' = [dbMsg EXCEPT ![j0][i0] = Outcome(r0)] /\ unsaved' = unsaved
         \/ dbMsg' = dbMsg /\ unsaved' = unsaved \cup {<<j0, i0>>}
      /\ Outcome(r0) \in {"sent", "failed"}
  BY <1>r, <1>t DEF Persist, updateMessage, DbCall, Outcome, Item, TypeOK
<1>2. \A j \in Jobs, k \in Kinds : ~(j = j0 /\ k = k0) =>
        /\ pc'[<<j, k>>] = pc[<<j, k>>] /\ todo'[<<j, k>>] = todo[<<j, k>>]
        /\ status'[<<j, k>>] = status[<<j, k>>] /\ Item(<<j, k>>)' = Item(<<j, k>>)
  BY <1>t DEF Persist, updateMessage, DbCall, Outcome, Item, TypeOK, Runs
<1>3. UNCHANGED <<proc, used, dbJob, sends, raced, heads, toRead, rows, rpc, rjob>>
  BY DEF Persist, updateMessage, DbCall, Outcome, Item, procVars, dbVars, resumeVars, history
<1>i. i0 \in todo[r0] /\ i0 \in Idx
  BY <1>r, <1>t, <1>1, ItemIn DEF RunInv, Sending
<1>p. pc[r0] # "idle" /\ pc'[r0] # "idle"
  BY <1>1
<1>s. j0 \notin raced => j0 \notin heads /\ \A k \in Kinds : k # k0 => pc[<<j0, k>>] = "idle"
  BY <1>1, SoleHand
<1>m. dbMsg \in [Jobs -> [Idx -> MsgStatus]]
  BY <1>t DEF TypeOK
<1>o. dbMsg'[j0][i0] = Outcome(r0) \/ <<j0, i0>> \in unsaved'
  BY <1>1, <1>i, <1>m
<1>e. \A j \in Jobs, i \in Idx :
        \/ dbMsg'[j][i] = dbMsg[j][i]
        \/ j = j0 /\ i = i0 /\ dbJob[j] # "none" /\ dbMsg'[j][i] \in {"sent", "failed"}
  BY <1>1, <1>i, <1>m
<1>z. \A j \in Jobs, i \in Idx : <<j, i>> \in unsaved => <<j, i>> \in unsaved'
  BY <1>1
<1>u. <<j0, i0>> \in unsaved' \/ dbMsg'[j0][i0] # "pending"
  BY <1>o, <1>1
<1>4. TypeOK'
  <2>1. dbMsg' \in [Jobs -> [Idx -> MsgStatus]]
    BY <1>1, <1>m, <1>i DEF MsgStatus
  <2>2. unsaved' \in SUBSET (Jobs \X Idx)
    <3>1. unsaved \in SUBSET (Jobs \X Idx)
      BY <1>t DEF TypeOK
    <3>. QED
      BY <1>1, <1>i, <3>1
  <2>3. faults' \in Nat
    BY <1>t DEF Persist, DbCall, TypeOK
  <2>. QED
    BY <1>r, <1>t, <2>1, <2>2, <2>3 DEF Persist, TypeOK, procVars, resumeVars
<1>5. UnusedInv'
  BY <1>r, <1>t, <1>p, <1>2, <1>3 DEF UnusedInv
<1>6. RowsInv'
  <2>1. \A j \in Jobs : dbJob[j] = "none" => dbMsg'[j] = dbMsg[j]
    BY <1>1, <1>t DEF TypeOK
  <2>. QED
    BY <1>r, <1>t, <1>p, <1>2, <1>3, <2>1 DEF RowsInv
<1>7. ResumerInv'
  BY <1>r, <1>t, <1>1, <1>2, <1>3 DEF ResumerInv, PendingOf
<1>8. DownInv'
  BY <1>r, <1>t, <1>p, <1>3 DEF DownInv
<1>9. ExclusiveInv'
  BY <1>r, <1>t, <1>1, <1>2, <1>3 DEF ExclusiveInv
<1>10. RunInv'
  <2> SUFFICES ASSUME NEW j \in Jobs, NEW k \in Kinds
                PROVE  RunInv!(j, k)'
    BY DEF RunInv
  <2>1. RunInv!(j, k)
    BY <1>t DEF RunInv
  <2>2. CASE j = j0 /\ k = k0
    BY <1>1, <1>3, <1>i, <2>1, <2>2 DEF Sending
  <2>3. CASE ~(j = j0 /\ k = k0)
    BY <1>2, <1>3, <2>1, <2>3 DEF Sending
  <2>. QED
    BY <2>2, <2>3
<1>11. HeldNotSent'
  <2> SUFFICES ASSUME NEW j \in Jobs, NEW i \in Idx, ~Excused(j, i)'
                PROVE  HeldNotSent!(j, i)!2'
    BY DEF HeldNotSent
  <2>1. HeldNotSent!(j, i)!2
    BY <1>t, <1>3, <1>z DEF HeldNotSent, Excused
  <2>. QED
    BY <1>1, <1>2, <1>3, <2>1 DEF Sending
<1>12. NotHeldWritten'
  <2> SUFFICES ASSUME NEW j \in Jobs, NEW i \in Idx, dbJob'[j] # "none", <<j, i>> \notin unsaved'
                PROVE  NotHeldWritten!(j, i)!2'
    BY DEF NotHeldWritten
  <2>1. NotHeldWritten!(j, i)!2
    BY <1>t, <1>3, <1>z DEF NotHeldWritten
  <2>2. CASE j = j0 /\ i = i0
    BY <1>u, <2>2
  <2>3. CASE ~(j = j0 /\ i = i0)
    BY <1>1, <1>2, <1>3, <1>e, <2>1, <2>3
  <2>. QED
    BY <2>2, <2>3
<1>13. OpenInv'
  BY <1>r, <1>t, <1>1, <1>2, <1>3 DEF OpenInv
<1>14. NoDuplicateSend'
  BY <1>t, <1>3, <1>z DEF NoDuplicateSend, Excused
<1>15. PendingNotSent'
  <2> SUFFICES ASSUME NEW j \in Jobs, NEW i \in Idx,
                              dbMsg'[j][i] = "pending", sends'[j][i] > 0, ~Excused(j, i)'
                PROVE  InFlight(j, i)'
    BY DEF PendingNotSent
  <2>1. ~(j = j0 /\ i = i0)
    BY <1>u DEF Excused
  <2>2. InFlight(j, i)
    BY <1>t, <1>e, <1>3, <1>z, <2>1 DEF PendingNotSent, Excused
  <2>. QED
    BY <1>1, <1>2, <2>1, <2>2 DEF InFlight
<1>16. CompletedIsAttempted'
  BY <1>t, <1>3, <1>z, <1>e, <1>u DEF CompletedIsAttempted
<1>. QED
  BY <1>4, <1>5, <1>6, <1>7, <1>8, <1>9, <1>10, <1>11, <1>12, <1>13, <1>14, <1>15, <1>16 DEF SendInv

\* The object learns the result.
LEMMA RecordInv ==
    ASSUME SendInv, NEW j0 \in Jobs, NEW k0 \in Kinds, Record(<<j0, k0>>)
    PROVE  SendInv'
<1> DEFINE r0 == <<j0, k0>>
           i0 == Item(r0)
<1>r. r0 \in Runs /\ "submit" \in Kinds /\ "resume" \in Kinds
  BY DEF Runs, Kinds
<1>t. /\ TypeOK /\ UnusedInv /\ RowsInv /\ ResumerInv /\ DownInv /\ ExclusiveInv /\ RunInv
      /\ HeldNotSent /\ NotHeldWritten /\ OpenInv
      /\ NoDuplicateSend /\ PendingNotSent /\ CompletedIsAttempted
      /\ heads \subseteq Jobs
  BY DEF SendInv, TypeOK
<1>1. /\ pc[r0] = "record" /\ todo'[r0] = todo[r0] \ {i0}
      /\ \/ pc'[r0] = "sleep" /\ status'[r0] = status[r0] /\ todo[r0] # {i0}
         \/ pc'[r0] = "flush" /\ todo'[r0] = {}
  BY <1>r, <1>t DEF Record, Finish, Outcome, Item, TypeOK
<1>2. \A j \in Jobs, k \in Kinds : ~(j = j0 /\ k = k0) =>
        /\ pc'[<<j, k>>] = pc[<<j, k>>] /\ todo'[<<j, k>>] = todo[<<j, k>>]
        /\ status'[<<j, k>>] = status[<<j, k>>] /\ Item(<<j, k>>)' = Item(<<j, k>>)
  BY <1>t DEF Record, Finish, Outcome, Item, TypeOK, Runs
<1>3. UNCHANGED <<proc, used, dbJob, dbMsg, sends, unsaved, raced, heads, toRead, rows, rpc, rjob>>
  BY DEF Record, Finish, Outcome, Item, procVars, dbVars, resumeVars, history
<1>i. i0 \in todo[r0] /\ i0 \in Idx
  BY <1>r, <1>t, <1>1, ItemIn DEF RunInv, Sending
<1>p. pc[r0] # "idle" /\ pc'[r0] # "idle"
  BY <1>1
<1>s. j0 \notin raced => j0 \notin heads /\ \A k \in Kinds : k # k0 => pc[<<j0, k>>] = "idle"
  BY <1>1, SoleHand
<1>4. TypeOK'
  <2>0. status \in [Runs -> JobStatus] /\ pc \in [Runs -> {"idle", "saved", "check", "send", "persist", "record", "sleep", "flush", "done"}]
    BY <1>t DEF TypeOK
  <2>1. status' \in [Runs -> JobStatus]
    BY <1>r, <2>0 DEF Record, Finish, JobStatus
  <2>2. pc' \in [Runs -> {"idle", "saved", "check", "send", "persist", "record", "sleep", "flush", "done"}]
    BY <1>r, <2>0 DEF Record, Finish
  <2>3. results' \in [Runs -> [Idx -> MsgStatus]]
    <3>1. results \in [Runs -> [Idx -> MsgStatus]]
      BY <1>t DEF TypeOK
    <3>. QED
      BY <1>r, <1>i, <3>1 DEF Record, Outcome, MsgStatus
  <2>. QED
    BY <1>r, <1>t, <2>1, <2>2, <2>3 DEF Record, TypeOK, procVars, dbVars, resumeVars, history
<1>5. UnusedInv'
  BY <1>r, <1>t, <1>p, <1>2, <1>3 DEF UnusedInv
<1>6. RowsInv'
  BY <1>r, <1>t, <1>1, <1>2, <1>3 DEF RowsInv
<1>7. ResumerInv'
  BY <1>r, <1>t, <1>1, <1>2, <1>3 DEF ResumerInv, PendingOf
<1>8. DownInv'
  BY <1>r, <1>t, <1>p, <1>3 DEF DownInv
<1>9. ExclusiveInv'
  BY <1>r, <1>t, <1>1, <1>2, <1>3 DEF ExclusiveInv
<1>10. RunInv'
  <2> SUFFICES ASSUME NEW j \in Jobs, NEW k \in Kinds
                PROVE  RunInv!(j, k)'
    BY DEF RunInv
  <2>1. RunInv!(j, k)
    BY <1>t DEF RunInv
  <2>2. CASE j = j0 /\ k = k0
    BY <1>1, <1>3, <1>i, <2>1, <2>2 DEF Sending
  <2>3. CASE ~(j = j0 /\ k = k0)
    BY <1>2, <1>3, <2>1, <2>3 DEF Sending
  <2>. QED
    BY <2>2, <2>3
<1>11. HeldNotSent'
  BY <1>r, <1>t, <1>1, <1>2, <1>3 DEF HeldNotSent, Excused, Sending
<1>12. NotHeldWritten'
  BY <1>r, <1>t, <1>1, <1>2, <1>3 DEF NotHeldWritten
<1>13. OpenInv'
  BY <1>r, <1>t, <1>1, <1>2, <1>3 DEF OpenInv
<1>14. NoDuplicateSend'
  BY <1>t, <1>3 DEF NoDuplicateSend, Excused
<1>15. PendingNotSent'
  BY <1>r, <1>t, <1>1, <1>2, <1>3 DEF PendingNotSent, Excused, InFlight
<1>16. CompletedIsAttempted'
  BY <1>t, <1>3 DEF CompletedIsAttempted
<1>. QED
  BY <1>4, <1>5, <1>6, <1>7, <1>8, <1>9, <1>10, <1>11, <1>12, <1>13, <1>14, <1>15, <1>16 DEF SendInv

\* The final status is written; OpenInv says the row was not completed.
LEMMA FlushJobInv ==
    ASSUME SendInv, NEW j0 \in Jobs, NEW k0 \in Kinds, FlushJob(<<j0, k0>>)
    PROVE  SendInv'
<1> DEFINE r0 == <<j0, k0>>
           i0 == Item(r0)
<1>r. r0 \in Runs /\ "submit" \in Kinds /\ "resume" \in Kinds
  BY DEF Runs, Kinds
<1>t. /\ TypeOK /\ UnusedInv /\ RowsInv /\ ResumerInv /\ DownInv /\ ExclusiveInv /\ RunInv
      /\ HeldNotSent /\ NotHeldWritten /\ OpenInv
      /\ NoDuplicateSend /\ PendingNotSent /\ CompletedIsAttempted
      /\ heads \subseteq Jobs
  BY DEF SendInv, TypeOK
<1>1. /\ pc[r0] = "flush" /\ pc'[r0] = "done"
      /\ todo'[r0] = todo[r0] /\ Item(r0)' = i0 /\ status'[r0] = status[r0]
      /\ \/ dbJob' = dbJob
         \/ dbJob[j0] # "none" /\ dbJob' = [dbJob EXCEPT ![j0] = status[r0]]
  BY <1>r, <1>t DEF FlushJob, updateJob, DbCall, Item, TypeOK
<1>2. \A j \in Jobs, k \in Kinds : ~(j = j0 /\ k = k0) =>
        /\ pc'[<<j, k>>] = pc[<<j, k>>] /\ todo'[<<j, k>>] = todo[<<j, k>>]
        /\ status'[<<j, k>>] = status[<<j, k>>] /\ Item(<<j, k>>)' = Item(<<j, k>>)
  BY <1>t DEF FlushJob, updateJob, DbCall, Item, TypeOK, Runs
<1>3. UNCHANGED <<proc, used, dbMsg, sends, unsaved, raced, heads, toRead, rows, rpc, rjob>>
  BY DEF FlushJob, updateJob, DbCall, Item, procVars, dbVars, resumeVars, history
<1>p. pc[r0] # "idle" /\ pc'[r0] # "idle"
  BY <1>1
<1>s. j0 \notin raced => j0 \notin heads /\ \A k \in Kinds : k # k0 => pc[<<j0, k>>] = "idle"
  BY <1>1, SoleHand
<1>e. \A j \in Jobs :
        \/ dbJob'[j] = dbJob[j]
        \/ j = j0 /\ dbJob[j] # "none" /\ dbJob'[j] = status[r0]
  BY <1>r, <1>t, <1>1 DEF TypeOK
<1>z. status[r0] # "none" /\ (status[r0] = "completed" => todo[r0] = {})
  BY <1>r, <1>t, <1>1 DEF RunInv, TypeOK, JobStatus
<1>4. TypeOK'
  BY <1>r, <1>t DEF FlushJob, updateJob, DbCall, TypeOK, JobStatus, MsgStatus, procVars,
     dbVars, runVars, resumeVars, history
<1>5. UnusedInv'
  <2>1. j0 \in used
    BY <1>r, <1>t, <1>p DEF UnusedInv, RowsInv, Kinds
  <2>. QED
    <3> SUFFICES ASSUME NEW j \in Jobs \ used
                 PROVE  UnusedInv!(j)'
      BY <1>3 DEF UnusedInv
    <3>1. UnusedInv!(j) /\ j # j0
      BY <1>t, <2>1 DEF UnusedInv
    <3>. QED
      BY <1>r, <1>2, <1>3, <1>e, <3>1
<1>6. RowsInv'
  BY <1>r, <1>t, <1>p, <1>2, <1>3, <1>e, <1>z DEF RowsInv
<1>7. ResumerInv'
  BY <1>r, <1>t, <1>1, <1>2, <1>3 DEF ResumerInv, PendingOf
<1>8. DownInv'
  BY <1>r, <1>t, <1>p, <1>3 DEF DownInv
<1>9. ExclusiveInv'
  BY <1>r, <1>t, <1>1, <1>2, <1>3 DEF ExclusiveInv
<1>10. RunInv'
  <2> SUFFICES ASSUME NEW j \in Jobs, NEW k \in Kinds
                PROVE  RunInv!(j, k)'
    BY DEF RunInv
  <2>1. RunInv!(j, k)
    BY <1>t DEF RunInv
  <2>2. CASE j = j0 /\ k = k0
    BY <1>1, <1>3, <2>1, <2>2 DEF Sending
  <2>3. CASE ~(j = j0 /\ k = k0)
    BY <1>2, <1>3, <2>1, <2>3 DEF Sending
  <2>. QED
    BY <2>2, <2>3
<1>11. HeldNotSent'
  BY <1>r, <1>t, <1>1, <1>2, <1>3 DEF HeldNotSent, Excused, Sending
<1>12. NotHeldWritten'
  <2> SUFFICES ASSUME NEW j \in Jobs, NEW i \in Idx, dbJob'[j] # "none", <<j, i>> \notin unsaved'
                PROVE  NotHeldWritten!(j, i)!2'
    BY DEF NotHeldWritten
  <2>1. NotHeldWritten!(j, i)!2
    BY <1>t, <1>3, <1>e DEF NotHeldWritten
  <2>. QED
    BY <1>1, <1>2, <1>3, <2>1
<1>13. OpenInv'
  <2> SUFFICES ASSUME NEW j \in Jobs \ raced
                PROVE  OpenInv!(j)'
    BY <1>3 DEF OpenInv
  <2>1. OpenInv!(j)
    BY <1>t DEF OpenInv
  <2>2. CASE j # j0
    BY <1>2, <1>3, <1>e, <2>1, <2>2
  <2>3. CASE j = j0
    BY <1>1, <1>2, <1>3, <1>s, <2>3
  <2>. QED
    BY <2>2, <2>3
<1>14. NoDuplicateSend'
  BY <1>t, <1>3 DEF NoDuplicateSend, Excused
<1>15. PendingNotSent'
  BY <1>r, <1>t, <1>1, <1>2, <1>3 DEF PendingNotSent, Excused, InFlight
<1>16. CompletedIsAttempted'
  <2> SUFFICES ASSUME NEW j \in Jobs, NEW i \in Idx, dbJob'[j] = "completed",
                              <<j, i>> \notin unsaved
                PROVE  dbMsg[j][i] # "pending"
    BY <1>3 DEF CompletedIsAttempted
  <2>1. CASE dbJob'[j] = dbJob[j]
    BY <1>t, <2>1 DEF CompletedIsAttempted
  <2>2. CASE dbJob'[j] # dbJob[j]
    <3>1. j = j0 /\ dbJob[j0] # "none" /\ todo[r0] = {}
      BY <1>e, <1>z, <2>2
    <3>. QED
      BY <1>p, <1>t, <3>1 DEF NotHeldWritten
  <2>. QED
    BY <2>1, <2>2
<1>. QED
  BY <1>4, <1>5, <1>6, <1>7, <1>8, <1>9, <1>10, <1>11, <1>12, <1>13, <1>14, <1>15, <1>16 DEF SendInv
-------------------------------------------------------------------------------
(***************************************************************************)
(* The steps of resumeInterrupted: <1>u lists what the step leaves alone, the *)
(* numbered facts what it does, and the parts of the invariant follow.     *)
(***************************************************************************)
LEMMA markInterruptedInv ==
    ASSUME SendInv, markInterrupted
    PROVE  SendInv'
<1>t. /\ TypeOK /\ UnusedInv /\ RowsInv /\ ResumerInv /\ DownInv /\ ExclusiveInv /\ RunInv
      /\ HeldNotSent /\ NotHeldWritten /\ OpenInv
      /\ NoDuplicateSend /\ PendingNotSent /\ CompletedIsAttempted
  BY DEF SendInv
<1>u. UNCHANGED <<proc, used, dbMsg, sends, unsaved, raced, heads, toRead, rows, rjob, pc, todo,
       status>>
  BY DEF markInterrupted, DbCall, procVars, dbVars, runVars, resumeVars, history
<1>k. "submit" \in Kinds /\ "resume" \in Kinds
  BY DEF Kinds
<1>m. dbJob \in [Jobs -> JobStatus \cup {"none"}]
  BY <1>t DEF TypeOK
<1>v. \A r : Item(r)' = Item(r)
  BY <1>u DEF Item
<1>1. rpc = "start" /\ rpc' = "done"
  BY DEF markInterrupted
<1>2. \A j \in Jobs : \/ dbJob'[j] = dbJob[j]
                      \/ dbJob[j] = "running" /\ dbJob'[j] = "interrupted"
  <2>1. dbJob' = dbJob \/ dbJob' = [j \in Jobs |-> IF dbJob[j] = "running" THEN "interrupted"
                                                   ELSE dbJob[j]]
    BY DEF markInterrupted
  <2>. QED
    BY <1>m, <2>1
<1>3. TypeOK'
  <2>1. dbJob' \in [Jobs -> JobStatus \cup {"none"}]
    BY <1>m DEF markInterrupted, JobStatus
  <2>2. faults' \in Nat
    BY <1>t DEF markInterrupted, DbCall, TypeOK
  <2>. QED
    BY <1>t, <2>1, <2>2 DEF markInterrupted, TypeOK, procVars, dbVars, runVars, resumeVars, history
<1>4. UnusedInv'
  BY <1>t, <1>u, <1>k, <1>v, <1>1, <1>2 DEF UnusedInv
<1>5. RowsInv'
  BY <1>t, <1>u, <1>k, <1>v, <1>1, <1>2 DEF RowsInv
<1>6. ResumerInv'
  BY <1>t, <1>u, <1>k, <1>v, <1>1, <1>2 DEF ResumerInv, PendingOf
<1>7. DownInv'
  BY <1>t, <1>u, <1>k, <1>v, <1>1, <1>2 DEF DownInv
<1>8. ExclusiveInv'
  BY <1>t, <1>u, <1>k, <1>v, <1>1, <1>2 DEF ExclusiveInv
<1>9. RunInv'
  BY <1>t, <1>u, <1>k, <1>v, <1>1, <1>2 DEF RunInv, Sending
<1>10. HeldNotSent'
  BY <1>t, <1>u, <1>k, <1>v, <1>1, <1>2 DEF HeldNotSent, Excused, Sending
<1>11. NotHeldWritten'
  BY <1>t, <1>u, <1>k, <1>v, <1>1, <1>2 DEF NotHeldWritten
<1>12. OpenInv'
  BY <1>t, <1>u, <1>k, <1>v, <1>1, <1>2 DEF OpenInv
<1>13. NoDuplicateSend'
  BY <1>t, <1>u, <1>k, <1>v, <1>1, <1>2 DEF NoDuplicateSend, Excused
<1>14. PendingNotSent'
  BY <1>t, <1>u, <1>k, <1>v, <1>1, <1>2 DEF PendingNotSent, Excused, InFlight
<1>15. CompletedIsAttempted'
  BY <1>t, <1>u, <1>k, <1>v, <1>1, <1>2 DEF CompletedIsAttempted
<1>. QED
  BY <1>3, <1>4, <1>5, <1>6, <1>7, <1>8, <1>9, <1>10, <1>11, <1>12, <1>13, <1>14, <1>15 DEF SendInv

\* The resumer selects unfinished jobs; those of this process become raced.
LEMMA LoadHeadsInv ==
    ASSUME SendInv, LoadHeads
    PROVE  SendInv'
<1>t. /\ TypeOK /\ UnusedInv /\ RowsInv /\ ResumerInv /\ DownInv /\ ExclusiveInv /\ RunInv
      /\ HeldNotSent /\ NotHeldWritten /\ OpenInv
      /\ NoDuplicateSend /\ PendingNotSent /\ CompletedIsAttempted
  BY DEF SendInv
<1>u. UNCHANGED <<proc, used, dbJob, dbMsg, sends, unsaved, rows, rjob, pc, todo, status>>
  BY DEF LoadHeads, Unfinished, procVars, dbVars, runVars, resumeVars, history
<1>k. "submit" \in Kinds /\ "resume" \in Kinds
  BY DEF Kinds
<1>v. \A r : Item(r)' = Item(r)
  BY <1>u DEF Item
<1>1. rpc = "start" /\ rpc' = "rows" /\ toRead' = heads' /\ heads' \subseteq Jobs
  BY DEF LoadHeads, Unfinished
<1>2. \A j \in heads' : j \in Jobs /\ dbJob[j] \in {"running", "interrupted"}
  BY DEF LoadHeads, Unfinished
<1>3. \A j \in Jobs : /\ j \in raced => j \in raced'
                      /\ j \in heads' /\ pc[<<j, "submit">>] # "idle" => j \in raced' 
  BY DEF LoadHeads
<1>4. TypeOK'
  BY PendingType, <1>t DEF TypeOK, LoadHeads, Unfinished, JobStatus, MsgStatus, procVars,
     dbVars, runVars, resumeVars, history
<1>5. UnusedInv'
  BY <1>t, <1>u, <1>k, <1>v, <1>1, <1>2, <1>3 DEF UnusedInv
<1>6. RowsInv'
  BY <1>t, <1>u, <1>k, <1>v, <1>1, <1>2, <1>3 DEF RowsInv
<1>7. ResumerInv'
  BY <1>t, <1>u, <1>k, <1>v, <1>1, <1>2, <1>3 DEF ResumerInv, PendingOf
<1>8. DownInv'
  BY <1>t, <1>u, <1>k, <1>v, <1>1, <1>2, <1>3 DEF DownInv
<1>9. ExclusiveInv'
  BY <1>t, <1>u, <1>k, <1>v, <1>1, <1>2, <1>3 DEF ExclusiveInv
<1>10. RunInv'
  BY <1>t, <1>u, <1>k, <1>v, <1>1, <1>2, <1>3 DEF RunInv, Sending
<1>11. HeldNotSent'
  BY <1>t, <1>u, <1>k, <1>v, <1>1, <1>2, <1>3 DEF HeldNotSent, Excused, Sending
<1>12. NotHeldWritten'
  BY <1>t, <1>u, <1>k, <1>v, <1>1, <1>2, <1>3 DEF NotHeldWritten
<1>13. OpenInv'
  BY <1>t, <1>u, <1>k, <1>v, <1>1, <1>2, <1>3 DEF OpenInv
<1>14. NoDuplicateSend'
  BY <1>t, <1>u, <1>k, <1>v, <1>1, <1>2, <1>3 DEF NoDuplicateSend, Excused
<1>15. PendingNotSent'
  BY <1>t, <1>u, <1>k, <1>v, <1>1, <1>2, <1>3 DEF PendingNotSent, Excused, InFlight
<1>16. CompletedIsAttempted'
  BY <1>t, <1>u, <1>k, <1>v, <1>1, <1>2, <1>3 DEF CompletedIsAttempted
<1>. QED
  BY <1>4, <1>5, <1>6, <1>7, <1>8, <1>9, <1>10, <1>11, <1>12, <1>13, <1>14, <1>15, <1>16 DEF SendInv

\* What the rows call pending was not sent: nobody has the job in flight.
LEMMA LoadRowsInv ==
    ASSUME SendInv, NEW j0 \in Jobs, LoadRows(j0)
    PROVE  SendInv'
<1>t. /\ TypeOK /\ UnusedInv /\ RowsInv /\ ResumerInv /\ DownInv /\ ExclusiveInv /\ RunInv
      /\ HeldNotSent /\ NotHeldWritten /\ OpenInv
      /\ NoDuplicateSend /\ PendingNotSent /\ CompletedIsAttempted
  BY DEF SendInv
<1>u. UNCHANGED <<proc, used, dbJob, dbMsg, sends, unsaved, raced, heads, rpc, rjob, pc, todo,
       status>>
  BY DEF LoadRows, procVars, dbVars, runVars, resumeVars, history
<1>k. "submit" \in Kinds /\ "resume" \in Kinds
  BY DEF Kinds
<1>v. \A r : Item(r)' = Item(r)
  BY <1>u DEF Item
<1>1. rpc = "rows" /\ j0 \in toRead /\ j0 \in heads
  BY <1>t DEF LoadRows, ResumerInv
<1>2. toRead' = toRead \ {j0}
  BY DEF LoadRows
<1>3. \A j \in Jobs : rows'[j] = IF j = j0 THEN dbMsg[j0] ELSE rows[j]
  BY <1>t DEF LoadRows, TypeOK
<1>4. \A i \in Idx : ~Excused(j0, i) /\ dbMsg[j0][i] = "pending" => sends[j0][i] = 0
  <2> SUFFICES ASSUME NEW i \in Idx, ~Excused(j0, i), dbMsg[j0][i] = "pending"
               PROVE  sends[j0][i] = 0
    OBVIOUS
  <2>1. \A k \in Kinds : pc[<<j0, k>>] = "idle"
    BY <1>1, SoleHand DEF Excused
  <2>2. ~InFlight(j0, i) /\ sends[j0][i] \in Nat
    BY <1>t, <2>1 DEF InFlight, TypeOK
  <2>. QED
    BY <1>t, <2>2 DEF PendingNotSent
<1>5. TypeOK'
  BY PendingType, <1>t DEF TypeOK, LoadRows, JobStatus, MsgStatus, procVars, dbVars,
     runVars, resumeVars, history
<1>6. UnusedInv'
  BY <1>t, <1>u, <1>k, <1>v, <1>1, <1>2, <1>3, <1>4 DEF UnusedInv
<1>7. RowsInv'
  BY <1>t, <1>u, <1>k, <1>v, <1>1, <1>2, <1>3, <1>4 DEF RowsInv
<1>8. ResumerInv'
  BY <1>t, <1>u, <1>k, <1>v, <1>1, <1>2, <1>3, <1>4 DEF ResumerInv, PendingOf
<1>9. DownInv'
  BY <1>t, <1>u, <1>k, <1>v, <1>1, <1>2, <1>3, <1>4 DEF DownInv
<1>10. ExclusiveInv'
  BY <1>t, <1>u, <1>k, <1>v, <1>1, <1>2, <1>3, <1>4 DEF ExclusiveInv
<1>11. RunInv'
  BY <1>t, <1>u, <1>k, <1>v, <1>1, <1>2, <1>3, <1>4 DEF RunInv, Sending
<1>12. HeldNotSent'
  BY <1>t, <1>u, <1>k, <1>v, <1>1, <1>2, <1>3, <1>4 DEF HeldNotSent, Excused, Sending
<1>13. NotHeldWritten'
  BY <1>t, <1>u, <1>k, <1>v, <1>1, <1>2, <1>3, <1>4 DEF NotHeldWritten
<1>14. OpenInv'
  BY <1>t, <1>u, <1>k, <1>v, <1>1, <1>2, <1>3, <1>4 DEF OpenInv
<1>15. NoDuplicateSend'
  BY <1>t, <1>u, <1>k, <1>v, <1>1, <1>2, <1>3, <1>4 DEF NoDuplicateSend, Excused
<1>16. PendingNotSent'
  BY <1>t, <1>u, <1>k, <1>v, <1>1, <1>2, <1>3, <1>4 DEF PendingNotSent, Excused, InFlight
<1>17. CompletedIsAttempted'
  BY <1>t, <1>u, <1>k, <1>v, <1>1, <1>2, <1>3, <1>4 DEF CompletedIsAttempted
<1>. QED
  BY <1>5, <1>6, <1>7, <1>8, <1>9, <1>10, <1>11, <1>12, <1>13, <1>14, <1>15, <1>16, <1>17 DEF SendInv

\* A query fails and the resumer ends.
LEMMA LoadFailsInv ==
    ASSUME SendInv, LoadFails
    PROVE  SendInv'
<1>t. /\ TypeOK /\ UnusedInv /\ RowsInv /\ ResumerInv /\ DownInv /\ ExclusiveInv /\ RunInv
      /\ HeldNotSent /\ NotHeldWritten /\ OpenInv
      /\ NoDuplicateSend /\ PendingNotSent /\ CompletedIsAttempted
  BY DEF SendInv
<1>u. UNCHANGED <<proc, used, dbJob, dbMsg, sends, unsaved, raced, rjob, pc, todo, status>>
  BY DEF LoadFails, procVars, dbVars, runVars, resumeVars, history
<1>k. "submit" \in Kinds /\ "resume" \in Kinds
  BY DEF Kinds
<1>v. \A r : Item(r)' = Item(r)
  BY <1>u DEF Item
<1>1. rpc \in {"start", "rows"} /\ rpc' = "done" /\ heads' = {} /\ toRead' = {}
  BY DEF LoadFails
<1>2. TypeOK'
  BY PendingType, <1>t DEF TypeOK, LoadFails, JobStatus, MsgStatus, procVars, dbVars,
     runVars, resumeVars, history
<1>3. UnusedInv'
  BY <1>t, <1>u, <1>k, <1>v, <1>1 DEF UnusedInv
<1>4. RowsInv'
  BY <1>t, <1>u, <1>k, <1>v, <1>1 DEF RowsInv
<1>5. ResumerInv'
  BY <1>t, <1>u, <1>k, <1>v, <1>1 DEF ResumerInv, PendingOf
<1>6. DownInv'
  BY <1>t, <1>u, <1>k, <1>v, <1>1 DEF DownInv
<1>7. ExclusiveInv'
  BY <1>t, <1>u, <1>k, <1>v, <1>1 DEF ExclusiveInv
<1>8. RunInv'
  BY <1>t, <1>u, <1>k, <1>v, <1>1 DEF RunInv, Sending
<1>9. HeldNotSent'
  BY <1>t, <1>u, <1>k, <1>v, <1>1 DEF HeldNotSent, Excused, Sending
<1>10. NotHeldWritten'
  BY <1>t, <1>u, <1>k, <1>v, <1>1 DEF NotHeldWritten
<1>11. OpenInv'
  BY <1>t, <1>u, <1>k, <1>v, <1>1 DEF OpenInv
<1>12. NoDuplicateSend'
  BY <1>t, <1>u, <1>k, <1>v, <1>1 DEF NoDuplicateSend, Excused
<1>13. PendingNotSent'
  BY <1>t, <1>u, <1>k, <1>v, <1>1 DEF PendingNotSent, Excused, InFlight
<1>14. CompletedIsAttempted'
  BY <1>t, <1>u, <1>k, <1>v, <1>1 DEF CompletedIsAttempted
<1>. QED
  BY <1>2, <1>3, <1>4, <1>5, <1>6, <1>7, <1>8, <1>9, <1>10, <1>11, <1>12, <1>13, <1>14 DEF SendInv

\* The loop of the resumer ends.
LEMMA ResumeEndsInv ==
    ASSUME SendInv, ResumeEnds
    PROVE  SendInv'
<1>t. /\ TypeOK /\ UnusedInv /\ RowsInv /\ ResumerInv /\ DownInv /\ ExclusiveInv /\ RunInv
      /\ HeldNotSent /\ NotHeldWritten /\ OpenInv
      /\ NoDuplicateSend /\ PendingNotSent /\ CompletedIsAttempted
  BY DEF SendInv
<1>u. UNCHANGED <<proc, used, dbJob, dbMsg, sends, unsaved, raced, toRead, rjob, pc, todo, status>>
  BY DEF ResumeEnds, procVars, dbVars, runVars, resumeVars, history
<1>k. "submit" \in Kinds /\ "resume" \in Kinds
  BY DEF Kinds
<1>v. \A r : Item(r)' = Item(r)
  BY <1>u DEF Item
<1>1. rpc = "rows" /\ toRead = {} /\ rpc' = "done" /\ heads' = {}
  BY DEF ResumeEnds
<1>2. TypeOK'
  BY PendingType, <1>t DEF TypeOK, ResumeEnds, JobStatus, MsgStatus, procVars, dbVars,
     runVars, resumeVars, history
<1>3. UnusedInv'
  BY <1>t, <1>u, <1>k, <1>v, <1>1 DEF UnusedInv
<1>4. RowsInv'
  BY <1>t, <1>u, <1>k, <1>v, <1>1 DEF RowsInv
<1>5. ResumerInv'
  BY <1>t, <1>u, <1>k, <1>v, <1>1 DEF ResumerInv, PendingOf
<1>6. DownInv'
  BY <1>t, <1>u, <1>k, <1>v, <1>1 DEF DownInv
<1>7. ExclusiveInv'
  BY <1>t, <1>u, <1>k, <1>v, <1>1 DEF ExclusiveInv
<1>8. RunInv'
  BY <1>t, <1>u, <1>k, <1>v, <1>1 DEF RunInv, Sending
<1>9. HeldNotSent'
  BY <1>t, <1>u, <1>k, <1>v, <1>1 DEF HeldNotSent, Excused, Sending
<1>10. NotHeldWritten'
  BY <1>t, <1>u, <1>k, <1>v, <1>1 DEF NotHeldWritten
<1>11. OpenInv'
  BY <1>t, <1>u, <1>k, <1>v, <1>1 DEF OpenInv
<1>12. NoDuplicateSend'
  BY <1>t, <1>u, <1>k, <1>v, <1>1 DEF NoDuplicateSend, Excused
<1>13. PendingNotSent'
  BY <1>t, <1>u, <1>k, <1>v, <1>1 DEF PendingNotSent, Excused, InFlight
<1>14. CompletedIsAttempted'
  BY <1>t, <1>u, <1>k, <1>v, <1>1 DEF CompletedIsAttempted
<1>. QED
  BY <1>2, <1>3, <1>4, <1>5, <1>6, <1>7, <1>8, <1>9, <1>10, <1>11, <1>12, <1>13, <1>14 DEF SendInv

\* A job without pending rows is closed.
LEMMA ResumeCompleteInv ==
    ASSUME SendInv, NEW j0 \in Jobs, ResumeComplete(j0)
    PROVE  SendInv'
<1>t. /\ TypeOK /\ UnusedInv /\ RowsInv /\ ResumerInv /\ DownInv /\ ExclusiveInv /\ RunInv
      /\ HeldNotSent /\ NotHeldWritten /\ OpenInv
      /\ NoDuplicateSend /\ PendingNotSent /\ CompletedIsAttempted
  BY DEF SendInv
<1>u. UNCHANGED <<proc, used, dbMsg, sends, unsaved, raced, pc, todo, status>>
  BY DEF ResumeComplete, Handled, updateJob, DbCall, procVars, dbVars, runVars, resumeVars, history
<1>k. "submit" \in Kinds /\ "resume" \in Kinds
  BY DEF Kinds
<1>m. dbJob \in [Jobs -> JobStatus \cup {"none"}] /\ rows \in [Jobs -> [Idx -> MsgStatus]] /\ heads \subseteq Jobs
  BY <1>t DEF TypeOK
<1>v. \A r : Item(r)' = Item(r)
  BY <1>u DEF Item
<1>1. rpc = "rows" /\ toRead = {} /\ j0 \in heads /\ dbJob[j0] # "none"
  BY <1>t DEF ResumeComplete, RowsInv
<1>2. /\ heads' = heads \ {j0} /\ toRead' = {} /\ rpc' = "rows"
      /\ \A j \in Jobs \ {j0} : rows'[j] = rows[j]
  BY <1>m, <1>1 DEF ResumeComplete, Handled
<1>3. \A j \in Jobs : \/ dbJob'[j] = dbJob[j]
                      \/ j = j0 /\ dbJob'[j] = "completed"
  <2>1. dbJob' = dbJob \/ dbJob' = [dbJob EXCEPT ![j0] = "completed"]
    BY DEF ResumeComplete, updateJob
  <2>. QED
    BY <1>m, <2>1
<1>4. \A i \in Idx : <<j0, i>> \notin unsaved => dbMsg[j0][i] # "pending"
  BY <1>t, <1>1 DEF ResumeComplete, PendingOf, NotHeldWritten
<1>5. j0 \notin raced => \A k \in Kinds : pc[<<j0, k>>] = "idle"
  BY <1>1, SoleHand
<1>6. TypeOK'
  <2>1. dbJob' \in [Jobs -> JobStatus \cup {"none"}]
    BY <1>m DEF ResumeComplete, updateJob, JobStatus
  <2>2. rows' \in [Jobs -> [Idx -> MsgStatus]]
    BY <1>m, PendingType DEF ResumeComplete, Handled
  <2>3. faults' \in Nat
    BY <1>t DEF ResumeComplete, DbCall, TypeOK
  <2>. QED
    BY <1>t, <2>1, <2>2, <2>3 DEF ResumeComplete, Handled, TypeOK, procVars, dbVars,
       runVars, resumeVars, history
<1>7. UnusedInv'
  BY <1>t, <1>u, <1>k, <1>v, <1>1, <1>2, <1>3, <1>4, <1>5 DEF UnusedInv
<1>8. RowsInv'
  BY <1>t, <1>u, <1>k, <1>v, <1>1, <1>2, <1>3, <1>4, <1>5 DEF RowsInv
<1>9. ResumerInv'
  BY <1>t, <1>u, <1>k, <1>v, <1>1, <1>2, <1>3, <1>4, <1>5 DEF ResumerInv, PendingOf
<1>10. DownInv'
  BY <1>t, <1>u, <1>k, <1>v, <1>1, <1>2, <1>3, <1>4, <1>5 DEF DownInv
<1>11. ExclusiveInv'
  BY <1>t, <1>u, <1>k, <1>v, <1>1, <1>2, <1>3, <1>4, <1>5 DEF ExclusiveInv
<1>12. RunInv'
  BY <1>t, <1>u, <1>k, <1>v, <1>1, <1>2, <1>3, <1>4, <1>5 DEF RunInv, Sending
<1>13. HeldNotSent'
  BY <1>t, <1>u, <1>k, <1>v, <1>1, <1>2, <1>3, <1>4, <1>5 DEF HeldNotSent, Excused, Sending
<1>14. NotHeldWritten'
  BY <1>t, <1>u, <1>k, <1>v, <1>1, <1>2, <1>3, <1>4, <1>5 DEF NotHeldWritten
<1>15. OpenInv'
  BY <1>t, <1>u, <1>k, <1>v, <1>1, <1>2, <1>3, <1>4, <1>5 DEF OpenInv
<1>16. NoDuplicateSend'
  BY <1>t, <1>u, <1>k, <1>v, <1>1, <1>2, <1>3, <1>4, <1>5 DEF NoDuplicateSend, Excused
<1>17. PendingNotSent'
  BY <1>t, <1>u, <1>k, <1>v, <1>1, <1>2, <1>3, <1>4, <1>5 DEF PendingNotSent, Excused, InFlight
<1>18. CompletedIsAttempted'
  BY <1>t, <1>u, <1>k, <1>v, <1>1, <1>2, <1>3, <1>4, <1>5 DEF CompletedIsAttempted
<1>. QED
  BY <1>6, <1>7, <1>8, <1>9, <1>10, <1>11, <1>12, <1>13, <1>14, <1>15, <1>16, <1>17, <1>18 DEF SendInv

\* The resumer turns to a job with pending rows.
LEMMA ResumeWaitInv ==
    ASSUME SendInv, NEW j0 \in Jobs, ResumeWait(j0)
    PROVE  SendInv'
<1>t. /\ TypeOK /\ UnusedInv /\ RowsInv /\ ResumerInv /\ DownInv /\ ExclusiveInv /\ RunInv
      /\ HeldNotSent /\ NotHeldWritten /\ OpenInv
      /\ NoDuplicateSend /\ PendingNotSent /\ CompletedIsAttempted
  BY DEF SendInv
<1>u. UNCHANGED <<proc, used, dbJob, dbMsg, sends, unsaved, raced, heads, toRead, rows, pc,
       todo, status>>
  BY DEF ResumeWait, procVars, dbVars, runVars, resumeVars, history
<1>k. "submit" \in Kinds /\ "resume" \in Kinds
  BY DEF Kinds
<1>v. \A r : Item(r)' = Item(r)
  BY <1>u DEF Item
<1>1. rpc = "rows" /\ toRead = {} /\ rpc' = "wait" /\ rjob' = j0 /\ j0 \in heads
      /\ PendingOf(rows[j0]) # {}
  BY DEF ResumeWait
<1>2. TypeOK'
  BY PendingType, <1>t DEF TypeOK, ResumeWait, JobStatus, MsgStatus, procVars, dbVars,
     runVars, resumeVars, history
<1>3. UnusedInv'
  BY <1>t, <1>u, <1>k, <1>v, <1>1 DEF UnusedInv
<1>4. RowsInv'
  BY <1>t, <1>u, <1>k, <1>v, <1>1 DEF RowsInv
<1>5. ResumerInv'
  BY <1>t, <1>u, <1>k, <1>v, <1>1 DEF ResumerInv, PendingOf
<1>6. DownInv'
  BY <1>t, <1>u, <1>k, <1>v, <1>1 DEF DownInv
<1>7. ExclusiveInv'
  BY <1>t, <1>u, <1>k, <1>v, <1>1 DEF ExclusiveInv
<1>8. RunInv'
  BY <1>t, <1>u, <1>k, <1>v, <1>1 DEF RunInv, Sending
<1>9. HeldNotSent'
  BY <1>t, <1>u, <1>k, <1>v, <1>1 DEF HeldNotSent, Excused, Sending
<1>10. NotHeldWritten'
  BY <1>t, <1>u, <1>k, <1>v, <1>1 DEF NotHeldWritten
<1>11. OpenInv'
  BY <1>t, <1>u, <1>k, <1>v, <1>1 DEF OpenInv
<1>12. NoDuplicateSend'
  BY <1>t, <1>u, <1>k, <1>v, <1>1 DEF NoDuplicateSend, Excused
<1>13. PendingNotSent'
  BY <1>t, <1>u, <1>k, <1>v, <1>1 DEF PendingNotSent, Excused, InFlight
<1>14. CompletedIsAttempted'
  BY <1>t, <1>u, <1>k, <1>v, <1>1 DEF CompletedIsAttempted
<1>. QED
  BY <1>2, <1>3, <1>4, <1>5, <1>6, <1>7, <1>8, <1>9, <1>10, <1>11, <1>12, <1>13, <1>14 DEF SendInv

\* The wait for the session ends.
LEMMA waitReadyInv ==
    ASSUME SendInv, waitReady
    PROVE  SendInv'
<1>t. /\ TypeOK /\ UnusedInv /\ RowsInv /\ ResumerInv /\ DownInv /\ ExclusiveInv /\ RunInv
      /\ HeldNotSent /\ NotHeldWritten /\ OpenInv
      /\ NoDuplicateSend /\ PendingNotSent /\ CompletedIsAttempted
  BY DEF SendInv
<1>u. UNCHANGED <<proc, used, dbJob, dbMsg, sends, unsaved, raced, heads, toRead, rows, rjob,
       pc, todo, status>>
  BY DEF waitReady, procVars, dbVars, runVars, resumeVars, history
<1>k. "submit" \in Kinds /\ "resume" \in Kinds
  BY DEF Kinds
<1>v. \A r : Item(r)' = Item(r)
  BY <1>u DEF Item
<1>1. rpc = "wait" /\ rpc' \in {"publish", "giveup"}
  BY DEF waitReady
<1>2. TypeOK'
  BY PendingType, <1>t DEF TypeOK, waitReady, JobStatus, MsgStatus, procVars, dbVars,
     runVars, resumeVars, history
<1>3. UnusedInv'
  BY <1>t, <1>u, <1>k, <1>v, <1>1 DEF UnusedInv
<1>4. RowsInv'
  BY <1>t, <1>u, <1>k, <1>v, <1>1 DEF RowsInv
<1>5. ResumerInv'
  BY <1>t, <1>u, <1>k, <1>v, <1>1 DEF ResumerInv, PendingOf
<1>6. DownInv'
  BY <1>t, <1>u, <1>k, <1>v, <1>1 DEF DownInv
<1>7. ExclusiveInv'
  BY <1>t, <1>u, <1>k, <1>v, <1>1 DEF ExclusiveInv
<1>8. RunInv'
  BY <1>t, <1>u, <1>k, <1>v, <1>1 DEF RunInv, Sending
<1>9. HeldNotSent'
  BY <1>t, <1>u, <1>k, <1>v, <1>1 DEF HeldNotSent, Excused, Sending
<1>10. NotHeldWritten'
  BY <1>t, <1>u, <1>k, <1>v, <1>1 DEF NotHeldWritten
<1>11. OpenInv'
  BY <1>t, <1>u, <1>k, <1>v, <1>1 DEF OpenInv
<1>12. NoDuplicateSend'
  BY <1>t, <1>u, <1>k, <1>v, <1>1 DEF NoDuplicateSend, Excused
<1>13. PendingNotSent'
  BY <1>t, <1>u, <1>k, <1>v, <1>1 DEF PendingNotSent, Excused, InFlight
<1>14. CompletedIsAttempted'
  BY <1>t, <1>u, <1>k, <1>v, <1>1 DEF CompletedIsAttempted
<1>. QED
  BY <1>2, <1>3, <1>4, <1>5, <1>6, <1>7, <1>8, <1>9, <1>10, <1>11, <1>12, <1>13, <1>14 DEF SendInv

\* The session did not come back: the job is put off.
LEMMA ResumeGiveUpInv ==
    ASSUME SendInv, ResumeGiveUp
    PROVE  SendInv'
<1>t. /\ TypeOK /\ UnusedInv /\ RowsInv /\ ResumerInv /\ DownInv /\ ExclusiveInv /\ RunInv
      /\ HeldNotSent /\ NotHeldWritten /\ OpenInv
      /\ NoDuplicateSend /\ PendingNotSent /\ CompletedIsAttempted
  BY DEF SendInv
<1>u. UNCHANGED <<proc, used, dbMsg, sends, unsaved, raced, pc, todo, status>>
  BY DEF ResumeGiveUp, Handled, updateJob, DbCall, procVars, dbVars, runVars, resumeVars, history
<1>k. "submit" \in Kinds /\ "resume" \in Kinds
  BY DEF Kinds
<1>m. dbJob \in [Jobs -> JobStatus \cup {"none"}] /\ rows \in [Jobs -> [Idx -> MsgStatus]] /\ heads \subseteq Jobs
  BY <1>t DEF TypeOK
<1>v. \A r : Item(r)' = Item(r)
  BY <1>u DEF Item
<1>1. rpc = "giveup" /\ toRead = {} /\ rjob \in heads /\ rjob \in Jobs /\ dbJob[rjob] # "none"
  BY <1>t DEF ResumeGiveUp, ResumerInv, RowsInv, TypeOK
<1>2. /\ heads' = heads \ {rjob} /\ toRead' = {} /\ rpc' = "rows"
      /\ \A j \in Jobs \ {rjob} : rows'[j] = rows[j]
  BY <1>m, <1>1 DEF ResumeGiveUp, Handled
<1>3. \A j \in Jobs : \/ dbJob'[j] = dbJob[j]
                      \/ j = rjob /\ dbJob'[j] = "interrupted"
  <2>1. dbJob' = dbJob \/ dbJob' = [dbJob EXCEPT ![rjob] = "interrupted"]
    BY DEF ResumeGiveUp, updateJob
  <2>. QED
    BY <1>m, <2>1
<1>4. TypeOK'
  <2>1. dbJob' \in [Jobs -> JobStatus \cup {"none"}]
    BY <1>m DEF ResumeGiveUp, updateJob, JobStatus
  <2>2. rows' \in [Jobs -> [Idx -> MsgStatus]]
    BY <1>m, PendingType DEF ResumeGiveUp, Handled
  <2>3. faults' \in Nat
    BY <1>t DEF ResumeGiveUp, DbCall, TypeOK
  <2>. QED
    BY <1>t, <2>1, <2>2, <2>3 DEF ResumeGiveUp, Handled, TypeOK, procVars, dbVars,
       runVars, resumeVars, history
<1>5. UnusedInv'
  BY <1>t, <1>u, <1>k, <1>v, <1>1, <1>2, <1>3 DEF UnusedInv
<1>6. RowsInv'
  BY <1>t, <1>u, <1>k, <1>v, <1>1, <1>2, <1>3 DEF RowsInv
<1>7. ResumerInv'
  BY <1>t, <1>u, <1>k, <1>v, <1>1, <1>2, <1>3 DEF ResumerInv, PendingOf
<1>8. DownInv'
  BY <1>t, <1>u, <1>k, <1>v, <1>1, <1>2, <1>3 DEF DownInv
<1>9. ExclusiveInv'
  BY <1>t, <1>u, <1>k, <1>v, <1>1, <1>2, <1>3 DEF ExclusiveInv
<1>10. RunInv'
  BY <1>t, <1>u, <1>k, <1>v, <1>1, <1>2, <1>3 DEF RunInv, Sending
<1>11. HeldNotSent'
  BY <1>t, <1>u, <1>k, <1>v, <1>1, <1>2, <1>3 DEF HeldNotSent, Excused, Sending
<1>12. NotHeldWritten'
  BY <1>t, <1>u, <1>k, <1>v, <1>1, <1>2, <1>3 DEF NotHeldWritten
<1>13. OpenInv'
  BY <1>t, <1>u, <1>k, <1>v, <1>1, <1>2, <1>3 DEF OpenInv
<1>14. NoDuplicateSend'
  BY <1>t, <1>u, <1>k, <1>v, <1>1, <1>2, <1>3 DEF NoDuplicateSend, Excused
<1>15. PendingNotSent'
  BY <1>t, <1>u, <1>k, <1>v, <1>1, <1>2, <1>3 DEF PendingNotSent, Excused, InFlight
<1>16. CompletedIsAttempted'
  BY <1>t, <1>u, <1>k, <1>v, <1>1, <1>2, <1>3 DEF CompletedIsAttempted
<1>. QED
  BY <1>4, <1>5, <1>6, <1>7, <1>8, <1>9, <1>10, <1>11, <1>12, <1>13, <1>14, <1>15, <1>16 DEF SendInv

\* The resumed object is put in the map.
LEMMA ResumePublishInv ==
    ASSUME SendInv, ResumePublish
    PROVE  SendInv'
<1>t. /\ TypeOK /\ UnusedInv /\ RowsInv /\ ResumerInv /\ DownInv /\ ExclusiveInv /\ RunInv
      /\ HeldNotSent /\ NotHeldWritten /\ OpenInv
      /\ NoDuplicateSend /\ PendingNotSent /\ CompletedIsAttempted
  BY DEF SendInv
<1>u. UNCHANGED <<proc, used, dbJob, dbMsg, sends, unsaved, raced, heads, toRead, rows, rjob, pc>>
  BY DEF ResumePublish, procVars, dbVars, runVars, resumeVars, history
<1>k. "submit" \in Kinds /\ "resume" \in Kinds
  BY DEF Kinds
<1>m. todo \in [Runs -> SUBSET Idx] /\ status \in [Runs -> JobStatus] /\ results \in [Runs -> [Idx -> MsgStatus]] /\ rows \in [Jobs -> [Idx -> MsgStatus]]
  BY <1>t DEF TypeOK
<1>1. rpc = "publish" /\ toRead = {} /\ rjob \in heads /\ rjob \in Jobs /\ dbJob[rjob] # "none"
  BY <1>t DEF ResumePublish, ResumerInv, RowsInv, TypeOK
<1>2. rpc' = "mark" /\ pc[<<rjob, "resume">>] = "idle" /\ PendingOf(rows[rjob]) # {}
  BY <1>t, <1>1 DEF ResumePublish, ResumerInv
<1>3. todo'[<<rjob, "resume">>] = PendingOf(rows[rjob]) /\ status'[<<rjob, "resume">>] = "running"
  BY <1>t, <1>1 DEF ResumePublish, TypeOK, Runs, Kinds
<1>4. \A j \in Jobs, k \in Kinds : pc[<<j, k>>] # "idle" =>
        /\ todo'[<<j, k>>] = todo[<<j, k>>] /\ status'[<<j, k>>] = status[<<j, k>>]
        /\ Item(<<j, k>>)' = Item(<<j, k>>)
  BY <1>t, <1>2 DEF ResumePublish, TypeOK, Runs, Kinds, Item
<1>5. TypeOK'
  <2>1. <<rjob, "resume">> \in Runs
    BY <1>1, <1>k DEF Runs
  <2>2. todo' \in [Runs -> SUBSET Idx]
    BY <1>m, <1>1, <2>1 DEF ResumePublish, PendingOf
  <2>3. status' \in [Runs -> JobStatus]
    BY <1>m, <2>1 DEF ResumePublish, JobStatus
  <2>4. results' \in [Runs -> [Idx -> MsgStatus]]
    BY <1>m, <1>1, <2>1 DEF ResumePublish
  <2>5. jobs' \in [Jobs -> {"none", "submit", "resume"}]
    BY <1>t, <1>1 DEF ResumePublish, TypeOK
  <2>. QED
    BY <1>t, <2>1, <2>2, <2>3, <2>4, <2>5 DEF ResumePublish, TypeOK, procVars, dbVars,
       runVars, resumeVars, history
<1>6. UnusedInv'
  BY <1>t, <1>u, <1>k, <1>1, <1>2, <1>3, <1>4 DEF UnusedInv
<1>7. RowsInv'
  BY <1>t, <1>u, <1>k, <1>1, <1>2, <1>3, <1>4 DEF RowsInv
<1>8. ResumerInv'
  BY <1>t, <1>u, <1>k, <1>1, <1>2, <1>3, <1>4 DEF ResumerInv, PendingOf
<1>9. DownInv'
  BY <1>t, <1>u, <1>k, <1>1, <1>2, <1>3, <1>4 DEF DownInv
<1>10. ExclusiveInv'
  BY <1>t, <1>u, <1>k, <1>1, <1>2, <1>3, <1>4 DEF ExclusiveInv
<1>11. RunInv'
  BY <1>t, <1>u, <1>k, <1>1, <1>2, <1>3, <1>4 DEF RunInv, Sending
<1>12. HeldNotSent'
  BY <1>t, <1>u, <1>k, <1>1, <1>2, <1>3, <1>4 DEF HeldNotSent, Excused, Sending
<1>13. NotHeldWritten'
  BY <1>t, <1>u, <1>k, <1>1, <1>2, <1>3, <1>4 DEF NotHeldWritten
<1>14. OpenInv'
  BY <1>t, <1>u, <1>k, <1>1, <1>2, <1>3, <1>4 DEF OpenInv
<1>15. NoDuplicateSend'
  BY <1>t, <1>u, <1>k, <1>1, <1>2, <1>3, <1>4 DEF NoDuplicateSend, Excused
<1>16. PendingNotSent'
  BY <1>t, <1>u, <1>k, <1>1, <1>2, <1>3, <1>4 DEF PendingNotSent, Excused, InFlight
<1>17. CompletedIsAttempted'
  BY <1>t, <1>u, <1>k, <1>1, <1>2, <1>3, <1>4 DEF CompletedIsAttempted
<1>. QED
  BY <1>5, <1>6, <1>7, <1>8, <1>9, <1>10, <1>11, <1>12, <1>13, <1>14, <1>15, <1>16, <1>17 DEF SendInv

\* The resumed run starts with what was pending.
LEMMA ResumeRunInv ==
    ASSUME SendInv, ResumeRun
    PROVE  SendInv'
<1>t. /\ TypeOK /\ UnusedInv /\ RowsInv /\ ResumerInv /\ DownInv /\ ExclusiveInv /\ RunInv
      /\ HeldNotSent /\ NotHeldWritten /\ OpenInv
      /\ NoDuplicateSend /\ PendingNotSent /\ CompletedIsAttempted
  BY DEF SendInv
<1>u. UNCHANGED <<proc, used, dbMsg, sends, unsaved, raced, todo, status>>
  BY DEF ResumeRun, Handled, updateJob, DbCall, procVars, dbVars, runVars, resumeVars, history
<1>k. "submit" \in Kinds /\ "resume" \in Kinds
  BY DEF Kinds
<1>m. dbJob \in [Jobs -> JobStatus \cup {"none"}] /\ rows \in [Jobs -> [Idx -> MsgStatus]] /\ heads \subseteq Jobs /\ pc \in [Runs -> {"idle", "saved", "check", "send", "persist", "record", "sleep", "flush", "done"}]
  BY <1>t DEF TypeOK
<1>v. \A r : Item(r)' = Item(r)
  BY <1>u DEF Item
<1>1. rpc = "mark" /\ toRead = {} /\ rjob \in heads /\ rjob \in Jobs /\ dbJob[rjob] # "none"
  BY <1>t DEF ResumeRun, ResumerInv, RowsInv, TypeOK
<1>2. /\ heads' = heads \ {rjob} /\ toRead' = {} /\ rpc' = "rows"
      /\ \A j \in Jobs \ {rjob} : rows'[j] = rows[j]
  BY <1>m, <1>1 DEF ResumeRun, Handled
<1>3. \A j \in Jobs : \/ dbJob'[j] = dbJob[j]
                      \/ j = rjob /\ dbJob'[j] = "running"
  <2>1. dbJob' = dbJob \/ dbJob' = [dbJob EXCEPT ![rjob] = "running"]
    BY DEF ResumeRun, updateJob
  <2>. QED
    BY <1>m, <2>1
<1>4. /\ pc[<<rjob, "resume">>] = "idle" /\ pc'[<<rjob, "resume">>] = "check"
      /\ \A j \in Jobs, k \in Kinds : ~(j = rjob /\ k = "resume") => pc'[<<j, k>>] = pc[<<j, k>>]
  BY <1>t, <1>m, <1>1 DEF ResumeRun, ResumerInv, Runs, Kinds
<1>5. todo[<<rjob, "resume">>] = PendingOf(rows[rjob]) /\ PendingOf(rows[rjob]) # {}
      /\ status[<<rjob, "resume">>] = "running"
  BY <1>t, <1>1 DEF ResumerInv
<1>6. TypeOK'
  <2>1. dbJob' \in [Jobs -> JobStatus \cup {"none"}]
    BY <1>m DEF ResumeRun, updateJob, JobStatus
  <2>2. rows' \in [Jobs -> [Idx -> MsgStatus]]
    BY <1>m, PendingType DEF ResumeRun, Handled
  <2>3. faults' \in Nat
    BY <1>t DEF ResumeRun, DbCall, TypeOK
  <2>4. pc' \in [Runs -> {"idle", "saved", "check", "send", "persist", "record", "sleep", "flush", "done"}]
    BY <1>m, <1>1, <1>k DEF ResumeRun, Runs
  <2>. QED
    BY <1>t, <2>1, <2>2, <2>3, <2>4 DEF ResumeRun, Handled, TypeOK, procVars, dbVars,
       runVars, resumeVars, history
<1>7. UnusedInv'
  <2> SUFFICES ASSUME NEW j \in Jobs \ used
               PROVE  UnusedInv!(j)'
    BY <1>u DEF UnusedInv
  <2>1. UnusedInv!(j) /\ j # rjob
    BY <1>t, <1>1 DEF UnusedInv
  <2>. QED
    BY <1>u, <1>k, <1>3, <1>4, <2>1
<1>8. RowsInv'
  BY <1>t, <1>u, <1>k, <1>v, <1>1, <1>2, <1>3, <1>4, <1>5 DEF RowsInv
<1>9. ResumerInv'
  <2>1. \A j \in heads' : j \in Jobs /\ pc'[<<j, "resume">>] = "idle"
    BY <1>t, <1>m, <1>k, <1>2, <1>4 DEF ResumerInv
  <2>. QED
    BY <1>2, <2>1 DEF ResumerInv
<1>10. DownInv'
  BY <1>t, <1>u, <1>k, <1>v, <1>1, <1>2, <1>3, <1>4, <1>5 DEF DownInv
<1>11. ExclusiveInv'
  BY <1>t, <1>u, <1>k, <1>1, <1>2, <1>4 DEF ExclusiveInv, Kinds
<1>12. RunInv'
  BY <1>t, <1>u, <1>k, <1>v, <1>1, <1>2, <1>3, <1>4, <1>5 DEF RunInv, Sending
<1>13. HeldNotSent'
  <2> SUFFICES ASSUME NEW j \in Jobs, NEW i \in Idx, ~Excused(j, i)
               PROVE  HeldNotSent!(j, i)!2'
    BY <1>u DEF HeldNotSent, Excused
  <2>1. HeldNotSent!(j, i)!2
    BY <1>t DEF HeldNotSent
  <2>2. j = rjob /\ i \in todo[<<rjob, "resume">>] => sends[j][i] = 0
    BY <1>1, <1>5, <2>1 DEF PendingOf
  <2>. QED
    BY <1>u, <1>v, <1>1, <1>2, <1>4, <2>1, <2>2 DEF Sending
<1>14. NotHeldWritten'
  <2> SUFFICES ASSUME NEW j \in Jobs, NEW i \in Idx, dbJob[j] # "none", <<j, i>> \notin unsaved
               PROVE  NotHeldWritten!(j, i)!2'
    BY <1>u, <1>1, <1>3 DEF NotHeldWritten
  <2>1. NotHeldWritten!(j, i)!2
    BY <1>t DEF NotHeldWritten
  <2>2. j = rjob /\ i \notin todo[<<rjob, "resume">>] => dbMsg[j][i] # "pending"
    BY <1>1, <1>5, <2>1 DEF PendingOf
  <2>. QED
    BY <1>u, <1>v, <1>1, <1>2, <1>4, <2>1, <2>2
<1>15. OpenInv'
  BY <1>t, <1>u, <1>k, <1>v, <1>1, <1>2, <1>3, <1>4, <1>5 DEF OpenInv
<1>16. NoDuplicateSend'
  BY <1>t, <1>u, <1>k, <1>v, <1>1, <1>2, <1>3, <1>4, <1>5 DEF NoDuplicateSend, Excused
<1>17. PendingNotSent'
  BY <1>t, <1>u, <1>k, <1>v, <1>1, <1>2, <1>3, <1>4, <1>5 DEF PendingNotSent, Excused, InFlight
<1>18. CompletedIsAttempted'
  BY <1>t, <1>u, <1>k, <1>v, <1>1, <1>2, <1>3, <1>4, <1>5 DEF CompletedIsAttempted
<1>. QED
  BY <1>6, <1>7, <1>8, <1>9, <1>10, <1>11, <1>12, <1>13, <1>14, <1>15, <1>16, <1>17, <1>18 DEF SendInv

-------------------------------------------------------------------------------
(***************************************************************************)
(* A submitted job is new: it has no row, no run and was never sent to.    *)
(***************************************************************************)
LEMMA SubmitSaveInv ==
    ASSUME SendInv, NEW j0 \in Jobs, SubmitSave(j0)
    PROVE  SendInv'
<1>t. /\ TypeOK /\ UnusedInv /\ RowsInv /\ ResumerInv /\ DownInv /\ ExclusiveInv /\ RunInv
      /\ HeldNotSent /\ NotHeldWritten /\ OpenInv
      /\ NoDuplicateSend /\ PendingNotSent /\ CompletedIsAttempted
  BY DEF SendInv
<1>u. UNCHANGED <<proc, dbMsg, sends, unsaved, raced, heads, toRead, rows, rpc, rjob>>
  BY DEF SubmitSave, DbCall, procVars, dbVars, runVars, resumeVars, history
<1>k. "submit" \in Kinds /\ "resume" \in Kinds
  BY DEF Kinds
<1>m. heads \subseteq Jobs /\ dbJob \in [Jobs -> JobStatus \cup {"none"}] /\ pc \in [Runs -> {"idle", "saved", "check", "send", "persist", "record", "sleep", "flush", "done"}] /\ todo \in [Runs -> SUBSET Idx] /\ status \in [Runs -> JobStatus]
  BY <1>t DEF TypeOK
<1>1. /\ j0 \notin used /\ dbJob[j0] = "none" /\ j0 \notin heads
      /\ \A k \in Kinds : pc[<<j0, k>>] = "idle"
      /\ \A i \in Idx : sends[j0][i] = 0
  BY <1>t DEF SubmitSave, UnusedInv, RowsInv, Kinds
<1>2. used' = used \cup {j0} /\ proc = "up"
  BY DEF SubmitSave
<1>3. \A j \in Jobs : \/ dbJob'[j] = dbJob[j]
                      \/ j = j0 /\ dbJob'[j] = "running"
  <2>1. dbJob' = dbJob \/ dbJob' = [dbJob EXCEPT ![j0] = "running"]
    BY DEF SubmitSave
  <2>. QED
    BY <1>m, <2>1
<1>4. /\ pc'[<<j0, "submit">>] = "saved" /\ todo'[<<j0, "submit">>] = Idx
      /\ status'[<<j0, "submit">>] = "running"
  BY <1>m, <1>k DEF SubmitSave, Runs
<1>5. \A j \in Jobs, k \in Kinds : ~(j = j0 /\ k = "submit") =>
        /\ pc'[<<j, k>>] = pc[<<j, k>>] /\ todo'[<<j, k>>] = todo[<<j, k>>]
        /\ status'[<<j, k>>] = status[<<j, k>>] /\ Item(<<j, k>>)' = Item(<<j, k>>)
  BY <1>m DEF SubmitSave, Runs, Item
<1>6. Idx # {}
  BY BulkAssumption DEF Idx
<1>7. TypeOK'
  <2>1. <<j0, "submit">> \in Runs
    BY <1>k DEF Runs
  <2>2. dbJob' \in [Jobs -> JobStatus \cup {"none"}]
    BY <1>m DEF SubmitSave, JobStatus
  <2>3. pc' \in [Runs -> {"idle", "saved", "check", "send", "persist", "record", "sleep", "flush", "done"}]
    BY <1>m, <2>1 DEF SubmitSave
  <2>4. todo' \in [Runs -> SUBSET Idx]
    BY <1>m, <2>1 DEF SubmitSave
  <2>5. status' \in [Runs -> JobStatus]
    BY <1>m, <2>1 DEF SubmitSave, JobStatus
  <2>6. results' \in [Runs -> [Idx -> MsgStatus]]
    BY <1>t, <2>1, PendingType DEF SubmitSave, TypeOK
  <2>7. faults' \in Nat
    BY <1>t DEF SubmitSave, DbCall, TypeOK
  <2>. QED
    BY <1>t, <2>1, <2>2, <2>3, <2>4, <2>5, <2>6, <2>7 DEF SubmitSave, TypeOK, procVars,
       dbVars, runVars, resumeVars, history
<1>8. UnusedInv'
  <2> SUFFICES ASSUME NEW j \in Jobs \ used'
               PROVE  UnusedInv!(j)'
    BY DEF UnusedInv
  <2>1. UnusedInv!(j) /\ j # j0
    BY <1>t, <1>2 DEF UnusedInv
  <2>. QED
    BY <1>u, <1>k, <1>3, <1>5, <2>1
<1>9. RowsInv'
  BY <1>t, <1>u, <1>k, <1>1, <1>2, <1>3, <1>4, <1>5, <1>6 DEF RowsInv
<1>10. ResumerInv'
  <2>1. \A j \in heads : j \in Jobs /\ pc'[<<j, "resume">>] = pc[<<j, "resume">>]
    BY <1>m, <1>k, <1>5
  <2>2. rpc = "start" => \A j \in Jobs : pc'[<<j, "resume">>] = "idle"
    BY <1>t, <1>k, <1>5 DEF ResumerInv
  <2>3. rpc = "mark" => /\ todo'[<<rjob, "resume">>] = todo[<<rjob, "resume">>]
                        /\ status'[<<rjob, "resume">>] = status[<<rjob, "resume">>]
    BY <1>t, <1>m, <1>k, <1>5 DEF ResumerInv
  <2>. QED
    BY <1>t, <1>u, <2>1, <2>2, <2>3 DEF ResumerInv, PendingOf
<1>11. DownInv'
  BY <1>t, <1>u, <1>k, <1>1, <1>2, <1>3, <1>4, <1>5, <1>6 DEF DownInv
<1>12. ExclusiveInv'
  BY <1>t, <1>u, <1>k, <1>1, <1>2, <1>3, <1>4, <1>5, <1>6 DEF ExclusiveInv
<1>13. RunInv'
  <2> SUFFICES ASSUME NEW j \in Jobs, NEW k \in Kinds
               PROVE  RunInv!(j, k)'
    BY DEF RunInv
  <2>1. RunInv!(j, k)
    BY <1>t DEF RunInv
  <2>2. CASE j = j0 /\ k = "submit"
    BY <1>4, <1>6, <2>2 DEF Sending
  <2>3. CASE ~(j = j0 /\ k = "submit")
    BY <1>5, <2>1, <2>3 DEF Sending
  <2>. QED
    BY <2>2, <2>3
<1>14. HeldNotSent'
  BY <1>t, <1>u, <1>k, <1>1, <1>2, <1>3, <1>4, <1>5, <1>6 DEF HeldNotSent, Excused, Sending
<1>15. NotHeldWritten'
  BY <1>t, <1>u, <1>k, <1>1, <1>2, <1>3, <1>4, <1>5, <1>6 DEF NotHeldWritten
<1>16. OpenInv'
  BY <1>t, <1>u, <1>k, <1>1, <1>2, <1>3, <1>4, <1>5, <1>6 DEF OpenInv
<1>17. NoDuplicateSend'
  BY <1>t, <1>u, <1>k, <1>1, <1>2, <1>3, <1>4, <1>5, <1>6 DEF NoDuplicateSend, Excused
<1>18. PendingNotSent'
  BY <1>t, <1>u, <1>k, <1>1, <1>2, <1>3, <1>4, <1>5, <1>6 DEF PendingNotSent, Excused, InFlight
<1>19. CompletedIsAttempted'
  BY <1>t, <1>u, <1>k, <1>1, <1>2, <1>3, <1>4, <1>5, <1>6 DEF CompletedIsAttempted
<1>. QED
  BY <1>7, <1>8, <1>9, <1>10, <1>11, <1>12, <1>13, <1>14, <1>15, <1>16, <1>17, <1>18, <1>19 DEF SendInv

-------------------------------------------------------------------------------
(***************************************************************************)
(* The end of the process and its next start: what was in flight is lost.  *)
(***************************************************************************)
LEMMA ExitInv ==
    ASSUME SendInv, Exit
    PROVE  SendInv'
<1>t. /\ TypeOK /\ UnusedInv /\ RowsInv /\ ResumerInv /\ DownInv /\ ExclusiveInv /\ RunInv
      /\ HeldNotSent /\ NotHeldWritten /\ OpenInv
      /\ NoDuplicateSend /\ PendingNotSent /\ CompletedIsAttempted
  BY DEF SendInv
<1>u. UNCHANGED <<used, dbJob, dbMsg, sends, unsaved, raced>>
  BY DEF Exit, MemoryLost, procVars, dbVars, runVars, resumeVars, history
<1>k. "submit" \in Kinds /\ "resume" \in Kinds
  BY DEF Kinds
<1>1. /\ rpc' = "done" /\ heads' = {} /\ toRead' = {}
      /\ \A j \in Jobs, k \in Kinds : pc'[<<j, k>>] = "idle" /\ pc[<<j, k>>] # "persist"
      /\ \A r \in Runs : pc'[r] = "idle"
  BY DEF Exit, MemoryLost, Live, Runs
<1>2. TypeOK'
  BY PendingType, <1>t DEF TypeOK, Exit, MemoryLost, JobStatus, MsgStatus, procVars,
     dbVars, runVars, resumeVars, history
<1>3. UnusedInv'
  BY <1>t, <1>u, <1>k, <1>1 DEF UnusedInv
<1>4. RowsInv'
  BY <1>t, <1>u, <1>k, <1>1 DEF RowsInv
<1>5. ResumerInv'
  BY <1>t, <1>u, <1>k, <1>1 DEF ResumerInv, PendingOf
<1>6. DownInv'
  BY <1>t, <1>u, <1>k, <1>1 DEF DownInv
<1>7. ExclusiveInv'
  BY <1>t, <1>u, <1>k, <1>1 DEF ExclusiveInv
<1>8. RunInv'
  BY <1>t, <1>u, <1>k, <1>1 DEF RunInv, Sending
<1>9. HeldNotSent'
  BY <1>t, <1>u, <1>k, <1>1 DEF HeldNotSent, Excused, Sending
<1>10. NotHeldWritten'
  BY <1>t, <1>u, <1>k, <1>1 DEF NotHeldWritten
<1>11. OpenInv'
  BY <1>t, <1>u, <1>k, <1>1 DEF OpenInv
<1>12. NoDuplicateSend'
  BY <1>t, <1>u, <1>k, <1>1 DEF NoDuplicateSend, Excused
<1>13. PendingNotSent'
  BY <1>t, <1>u, <1>k, <1>1 DEF PendingNotSent, Excused, InFlight
<1>14. CompletedIsAttempted'
  BY <1>t, <1>u, <1>k, <1>1 DEF CompletedIsAttempted
<1>. QED
  BY <1>2, <1>3, <1>4, <1>5, <1>6, <1>7, <1>8, <1>9, <1>10, <1>11, <1>12, <1>13, <1>14 DEF SendInv

\* A crash: an attempt not yet written joins unsaved.
LEMMA CrashInv ==
    ASSUME SendInv, Crash
    PROVE  SendInv'
<1>t. /\ TypeOK /\ UnusedInv /\ RowsInv /\ ResumerInv /\ DownInv /\ ExclusiveInv /\ RunInv
      /\ HeldNotSent /\ NotHeldWritten /\ OpenInv
      /\ NoDuplicateSend /\ PendingNotSent /\ CompletedIsAttempted
  BY DEF SendInv
<1>u. UNCHANGED <<used, dbJob, dbMsg, sends, raced>>
  BY DEF Crash, MemoryLost, Disconnected, procVars, dbVars, runVars, resumeVars, history
<1>k. "submit" \in Kinds /\ "resume" \in Kinds
  BY DEF Kinds
<1>m. unsaved \in SUBSET (Jobs \X Idx)
  BY <1>t DEF TypeOK
<1>1. /\ rpc' = "done" /\ heads' = {} /\ toRead' = {}
      /\ \A j \in Jobs, k \in Kinds : pc'[<<j, k>>] = "idle"
      /\ \A r \in Runs : pc'[r] = "idle"
  BY DEF Crash, MemoryLost, Runs
<1>2. \A j \in Jobs, i \in Idx : <<j, i>> \in unsaved \/ InFlight(j, i) => <<j, i>> \in unsaved' 
  BY DEF Crash, InFlight, Runs
<1>3. TypeOK'
  <2>1. unsaved' \in SUBSET (Jobs \X Idx)
    <3>1. \A r \in Runs : pc[r] = "persist" => Item(r) \in Idx /\ r[1] \in Jobs
      BY <1>t, ItemIn DEF RunInv, Sending, Runs
    <3>. QED
      BY <1>m, <3>1 DEF Crash
  <2>2. sess' \in [Sessions -> {"absent", "offline", "ready"}]
    BY DEF Crash, Disconnected
  <2>3. AllPending \in [Idx -> MsgStatus]
    BY PendingType
  <2>4. /\ jobs' \in [Jobs -> {"none", "submit", "resume"}] /\ status' \in [Runs -> JobStatus]
    BY DEF Crash, MemoryLost, JobStatus
  <2>. QED
    BY <1>t, <2>1, <2>2, <2>3, <2>4 DEF Crash, MemoryLost, TypeOK, procVars, dbVars,
       runVars, resumeVars, history
<1>4. UnusedInv'
  BY <1>t, <1>u, <1>k, <1>1, <1>2 DEF UnusedInv
<1>5. RowsInv'
  BY <1>t, <1>u, <1>k, <1>1, <1>2 DEF RowsInv
<1>6. ResumerInv'
  BY <1>t, <1>u, <1>k, <1>1, <1>2 DEF ResumerInv, PendingOf
<1>7. DownInv'
  BY <1>t, <1>u, <1>k, <1>1, <1>2 DEF DownInv
<1>8. ExclusiveInv'
  BY <1>t, <1>u, <1>k, <1>1, <1>2 DEF ExclusiveInv
<1>9. RunInv'
  BY <1>t, <1>u, <1>k, <1>1, <1>2 DEF RunInv, Sending
<1>10. HeldNotSent'
  BY <1>t, <1>u, <1>k, <1>1, <1>2 DEF HeldNotSent, Excused, Sending
<1>11. NotHeldWritten'
  BY <1>t, <1>u, <1>k, <1>1, <1>2 DEF NotHeldWritten
<1>12. OpenInv'
  BY <1>t, <1>u, <1>k, <1>1, <1>2 DEF OpenInv
<1>13. NoDuplicateSend'
  BY <1>t, <1>u, <1>k, <1>1, <1>2 DEF NoDuplicateSend, Excused
<1>14. PendingNotSent'
  BY <1>t, <1>u, <1>k, <1>1, <1>2 DEF PendingNotSent, Excused, InFlight
<1>15. CompletedIsAttempted'
  BY <1>t, <1>u, <1>k, <1>1, <1>2 DEF CompletedIsAttempted
<1>. QED
  BY <1>3, <1>4, <1>5, <1>6, <1>7, <1>8, <1>9, <1>10, <1>11, <1>12, <1>13, <1>14, <1>15 DEF SendInv

\* The process starts again.
LEMMA RestartInv ==
    ASSUME SendInv, Restart
    PROVE  SendInv'
<1>t. /\ TypeOK /\ UnusedInv /\ RowsInv /\ ResumerInv /\ DownInv /\ ExclusiveInv /\ RunInv
      /\ HeldNotSent /\ NotHeldWritten /\ OpenInv
      /\ NoDuplicateSend /\ PendingNotSent /\ CompletedIsAttempted
  BY DEF SendInv
<1>u. UNCHANGED <<used, dbJob, dbMsg, sends, unsaved, raced, heads, toRead, rows, rjob, pc,
       todo, status>>
  BY DEF Restart, procVars, dbVars, runVars, resumeVars, history
<1>k. "submit" \in Kinds /\ "resume" \in Kinds
  BY DEF Kinds
<1>v. \A r : Item(r)' = Item(r)
  BY <1>u DEF Item
<1>1. proc = "down" /\ proc' = "up" /\ rpc = "done" /\ rpc' = "start" /\ heads = {}
      /\ \A j \in Jobs, k \in Kinds : pc[<<j, k>>] = "idle"
  BY <1>t DEF Restart, DownInv, ResumerInv, Runs
<1>2. TypeOK'
  BY PendingType, <1>t DEF TypeOK, Restart, JobStatus, MsgStatus, procVars, dbVars,
     runVars, resumeVars, history
<1>3. UnusedInv'
  BY <1>t, <1>u, <1>k, <1>v, <1>1 DEF UnusedInv
<1>4. RowsInv'
  BY <1>t, <1>u, <1>k, <1>v, <1>1 DEF RowsInv
<1>5. ResumerInv'
  BY <1>t, <1>u, <1>k, <1>v, <1>1 DEF ResumerInv, PendingOf
<1>6. DownInv'
  BY <1>t, <1>u, <1>k, <1>v, <1>1 DEF DownInv
<1>7. ExclusiveInv'
  BY <1>t, <1>u, <1>k, <1>v, <1>1 DEF ExclusiveInv
<1>8. RunInv'
  BY <1>t, <1>u, <1>k, <1>v, <1>1 DEF RunInv, Sending
<1>9. HeldNotSent'
  BY <1>t, <1>u, <1>k, <1>v, <1>1 DEF HeldNotSent, Excused, Sending
<1>10. NotHeldWritten'
  BY <1>t, <1>u, <1>k, <1>v, <1>1 DEF NotHeldWritten
<1>11. OpenInv'
  BY <1>t, <1>u, <1>k, <1>v, <1>1 DEF OpenInv
<1>12. NoDuplicateSend'
  BY <1>t, <1>u, <1>k, <1>v, <1>1 DEF NoDuplicateSend, Excused
<1>13. PendingNotSent'
  BY <1>t, <1>u, <1>k, <1>v, <1>1 DEF PendingNotSent, Excused, InFlight
<1>14. CompletedIsAttempted'
  BY <1>t, <1>u, <1>k, <1>v, <1>1 DEF CompletedIsAttempted
<1>. QED
  BY <1>2, <1>3, <1>4, <1>5, <1>6, <1>7, <1>8, <1>9, <1>10, <1>11, <1>12, <1>13, <1>14 DEF SendInv

-------------------------------------------------------------------------------
(***************************************************************************)
(* The goroutine of a submitted job starts.                                *)
(***************************************************************************)
LEMMA SubmitRegisterInv ==
    ASSUME SendInv, NEW j0 \in Jobs, SubmitRegister(j0)
    PROVE  SendInv'
<1>t. /\ TypeOK /\ UnusedInv /\ RowsInv /\ ResumerInv /\ DownInv /\ ExclusiveInv /\ RunInv
      /\ HeldNotSent /\ NotHeldWritten /\ OpenInv
      /\ NoDuplicateSend /\ PendingNotSent /\ CompletedIsAttempted
  BY DEF SendInv
<1>u. UNCHANGED <<proc, used, dbJob, dbMsg, sends, unsaved, raced, heads, toRead, rows, rpc,
       rjob, todo, status>>
  BY DEF SubmitRegister, procVars, dbVars, runVars, resumeVars, history
<1>k. "submit" \in Kinds /\ "resume" \in Kinds
  BY DEF Kinds
<1>m. pc \in [Runs -> {"idle", "saved", "check", "send", "persist", "record", "sleep", "flush", "done"}] /\ heads \subseteq Jobs
  BY <1>t DEF TypeOK
<1>v. \A r : Item(r)' = Item(r)
  BY <1>u DEF Item
<1>1. pc[<<j0, "submit">>] = "saved" /\ pc'[<<j0, "submit">>] = "check" /\ <<j0, "submit">> \in Runs
  BY <1>m, <1>k DEF SubmitRegister, Runs
<1>2. \A j \in Jobs, k \in Kinds : ~(j = j0 /\ k = "submit") => pc'[<<j, k>>] = pc[<<j, k>>]
  BY <1>m DEF SubmitRegister, Runs
<1>3. TypeOK'
  <2>1. pc' \in [Runs -> {"idle", "saved", "check", "send", "persist", "record", "sleep", "flush", "done"}]
    BY <1>m, <1>1 DEF SubmitRegister
  <2>2. jobs' \in [Jobs -> {"none", "submit", "resume"}]
    BY <1>t DEF SubmitRegister, TypeOK
  <2>. QED
    BY <1>t, <2>1, <2>2 DEF SubmitRegister, TypeOK, procVars, dbVars, resumeVars, history
<1>4. UnusedInv'
  BY <1>t, <1>u, <1>k, <1>v, <1>1, <1>2 DEF UnusedInv
<1>5. RowsInv'
  BY <1>t, <1>u, <1>k, <1>v, <1>1, <1>2 DEF RowsInv
<1>6. ResumerInv'
  <2>1. \A j \in Jobs : pc'[<<j, "resume">>] = pc[<<j, "resume">>]
    BY <1>k, <1>2
  <2>. QED
    BY <1>t, <1>u, <1>m, <2>1 DEF ResumerInv, PendingOf
<1>7. DownInv'
  BY <1>t, <1>u, <1>k, <1>v, <1>1, <1>2 DEF DownInv
<1>8. ExclusiveInv'
  BY <1>t, <1>u, <1>k, <1>v, <1>1, <1>2 DEF ExclusiveInv
<1>9. RunInv'
  BY <1>t, <1>u, <1>k, <1>v, <1>1, <1>2 DEF RunInv, Sending
<1>10. HeldNotSent'
  BY <1>t, <1>u, <1>k, <1>v, <1>1, <1>2 DEF HeldNotSent, Excused, Sending
<1>11. NotHeldWritten'
  BY <1>t, <1>u, <1>k, <1>v, <1>1, <1>2 DEF NotHeldWritten
<1>12. OpenInv'
  BY <1>t, <1>u, <1>k, <1>v, <1>1, <1>2 DEF OpenInv
<1>13. NoDuplicateSend'
  BY <1>t, <1>u, <1>k, <1>v, <1>1, <1>2 DEF NoDuplicateSend, Excused
<1>14. PendingNotSent'
  BY <1>t, <1>u, <1>k, <1>v, <1>1, <1>2 DEF PendingNotSent, Excused, InFlight
<1>15. CompletedIsAttempted'
  BY <1>t, <1>u, <1>k, <1>v, <1>1, <1>2 DEF CompletedIsAttempted
<1>. QED
  BY <1>3, <1>4, <1>5, <1>6, <1>7, <1>8, <1>9, <1>10, <1>11, <1>12, <1>13, <1>14, <1>15 DEF SendInv

(***************************************************************************)
(* Steps that touch neither a job nor a run: the invariant reads of proc   *)
(* only whether it is "down".                                              *)
(***************************************************************************)
LEMMA FrameInv ==
    ASSUME SendInv, TypeOK', UNCHANGED <<dbVars, runVars, resumeVars, history>>,
           proc' = "down" => proc = "down"
    PROVE  SendInv'
<1>t. /\ TypeOK /\ UnusedInv /\ RowsInv /\ ResumerInv /\ DownInv /\ ExclusiveInv /\ RunInv
      /\ HeldNotSent /\ NotHeldWritten /\ OpenInv
      /\ NoDuplicateSend /\ PendingNotSent /\ CompletedIsAttempted
  BY DEF SendInv
<1>u. UNCHANGED <<used, dbJob, dbMsg, sends, unsaved, raced, heads, toRead, rows, rpc, rjob, pc,
       todo, status>>
  BY DEF dbVars, runVars, resumeVars, history
<1>v. \A r : Item(r)' = Item(r)
  BY <1>u DEF Item
<1>1. UnusedInv' /\ RowsInv' /\ OpenInv' /\ ExclusiveInv' /\ CompletedIsAttempted'
  BY <1>t, <1>u DEF UnusedInv, RowsInv, OpenInv, ExclusiveInv, CompletedIsAttempted
<1>2. ResumerInv'
  BY <1>t, <1>u DEF ResumerInv, PendingOf
<1>3. DownInv'
  BY <1>t, <1>u DEF DownInv
<1>4. RunInv' /\ HeldNotSent' /\ NotHeldWritten'
  BY <1>t, <1>u, <1>v DEF RunInv, HeldNotSent, NotHeldWritten, Excused, Sending
<1>5. NoDuplicateSend' /\ PendingNotSent'
  BY <1>t, <1>u, <1>v DEF NoDuplicateSend, PendingNotSent, Excused, InFlight
<1>. QED
  BY <1>1, <1>2, <1>3, <1>4, <1>5 DEF SendInv

\* A session connects, drops, is created or removed.
LEMMA SessionChangeInv ==
    ASSUME SendInv, NEW s \in Sessions, SessionChange(s)
    PROVE  SendInv'
<1>1. TypeOK'
  BY DEF SendInv, TypeOK, SessionChange, procVars, dbVars, runVars, resumeVars, history
<1>. QED
  BY <1>1, FrameInv DEF SessionChange, procVars

\* Manager.Stop before bulkRunner.stop has returned.
LEMMA StopSessionsInv ==
    ASSUME SendInv, StopSessions \/ CloseQuit
    PROVE  SendInv'
<1>1. TypeOK'
  BY DEF SendInv, TypeOK, StopSessions, CloseQuit, Disconnected, dbVars, runVars, resumeVars, history
<1>. QED
  BY <1>1, FrameInv DEF StopSessions, CloseQuit

\* Nothing happens.
LEMMA StutterInv ==
    ASSUME SendInv, UNCHANGED vars
    PROVE  SendInv'
<1>1. TypeOK'
  BY DEF SendInv, TypeOK, vars, procVars, dbVars, runVars, resumeVars, history
<1>. QED
  BY <1>1, FrameInv DEF vars, procVars

-------------------------------------------------------------------------------
(***************************************************************************)
(* The invariant holds initially, and every step keeps it.                 *)
(***************************************************************************)
LEMMA InitInv == Init => SendInv
<1> SUFFICES ASSUME Init PROVE SendInv
  OBVIOUS
<1>1. TypeOK
  BY PendingType, BulkAssumption DEF Init, TypeOK, JobStatus
<1>2. \A j \in Jobs, k \in Kinds : pc[<<j, k>>] = "idle"
  BY DEF Init, Runs
<1>3. "submit" \in Kinds /\ "resume" \in Kinds
  BY DEF Kinds
<1>4. UnusedInv /\ RowsInv /\ ExclusiveInv /\ OpenInv
  BY <1>2, <1>3 DEF Init, UnusedInv, RowsInv, ExclusiveInv, OpenInv
<1>5. ResumerInv /\ DownInv
  BY <1>2, <1>3 DEF Init, ResumerInv, DownInv
<1>6. RunInv /\ HeldNotSent /\ NotHeldWritten
  BY <1>2 DEF Init, RunInv, HeldNotSent, NotHeldWritten, Sending
<1>7. NoDuplicateSend /\ PendingNotSent /\ CompletedIsAttempted
  BY DEF Init, NoDuplicateSend, PendingNotSent, CompletedIsAttempted
<1>. QED
  BY <1>1, <1>4, <1>5, <1>6, <1>7 DEF SendInv

\* Every step keeps the invariant.
LEMMA NextInv ==
    ASSUME SendInv, [Next]_vars
    PROVE  SendInv'
<1>1. CASE \E j \in Jobs : SubmitSave(j) \/ SubmitRegister(j)
  BY <1>1, SubmitSaveInv, SubmitRegisterInv
<1>2. CASE \E j \in Jobs, k \in Kinds : RunStep(<<j, k>>)
  BY <1>2, CheckQuitInv, SendTextInv, PersistInv, RecordInv, sleepJitterInv, FlushJobInv DEF RunStep
<1>3. CASE ResumeStep
  <2>1. CASE \E j \in Jobs : LoadRows(j) \/ ResumeComplete(j) \/ ResumeWait(j)
    BY <2>1, LoadRowsInv, ResumeCompleteInv, ResumeWaitInv
  <2>2. CASE \/ markInterrupted \/ LoadHeads \/ LoadFails \/ ResumeEnds
             \/ waitReady \/ ResumeGiveUp \/ ResumePublish \/ ResumeRun
    BY <2>2, markInterruptedInv, LoadHeadsInv, LoadFailsInv, ResumeEndsInv,
       waitReadyInv, ResumeGiveUpInv, ResumePublishInv, ResumeRunInv
  <2>. QED
    BY <1>3, <2>1, <2>2 DEF ResumeStep
<1>4. CASE \E s \in Sessions : SessionChange(s)
  BY <1>4, SessionChangeInv
<1>5. CASE StopSessions \/ CloseQuit \/ Exit \/ Crash \/ Restart
  BY <1>5, StopSessionsInv, ExitInv, CrashInv, RestartInv
<1>6. CASE UNCHANGED vars
  BY <1>6, StutterInv
<1>. QED
  BY <1>1, <1>2, <1>3, <1>4, <1>5, <1>6 DEF Next

-------------------------------------------------------------------------------
(***************************************************************************)
(* What the objects and the resumer's copy show.  A run of a job nobody    *)
(* raced for is the only one whose object shows results.                   *)
(***************************************************************************)
LEMMA SoleShown ==
    ASSUME SendInv, NEW j \in Jobs, NEW k \in Kinds, pc[<<j, k>>] # "idle", j \notin raced
    PROVE  j \notin heads /\ \A k2 \in Kinds : k2 # k => ~Shows(j, k2)
<1>1. j \notin heads /\ \A k2 \in Kinds : k2 # k => pc[<<j, k2>>] = "idle"
  BY SoleHand
<1>2. rpc = "mark" => rjob \in heads
  BY DEF SendInv, ResumerInv
<1>. QED
  BY <1>1, <1>2 DEF Shows

\* The map keeps what it held, or loses it.
LEMMA ShownFrame ==
    ASSUME TypeOK, ShownInv,
           \A j \in Jobs : jobs'[j] = jobs[j] \/ jobs'[j] = "none",
           \A j \in Jobs, k \in Kinds : Shows(j, k) => Shows(j, k)',
           \A j \in Jobs, k \in Kinds : pc'[<<j, k>>] = "saved" => pc[<<j, k>>] = "saved"
    PROVE  ShownInv'
<1> SUFFICES ASSUME NEW j \in Jobs, jobs'[j] # "none"
             PROVE  Shows(j, jobs[j])' /\ pc'[<<j, jobs'[j]>>] # "saved"
  BY DEF ShownInv, Shows
<1>1. jobs'[j] = jobs[j] /\ jobs[j] \in Kinds
  BY DEF TypeOK, Kinds
<1>2. Shows(j, jobs[j]) /\ pc[<<j, jobs[j]>>] # "saved"
  BY <1>1 DEF ShownInv
<1>. QED
  BY <1>1, <1>2 DEF Shows

\* No result is written, and no object is new.
LEMMA AgreeFrame ==
    ASSUME AgreeInv, UNCHANGED <<dbMsg, results, todo>>,
           raced \subseteq raced', unsaved \subseteq unsaved',
           \A j \in Jobs : j \in heads' \ toRead' =>
              rows'[j] = dbMsg[j] \/ (j \in heads \ toRead /\ rows'[j] = rows[j]),
           \A j \in Jobs, k \in Kinds : Shows(j, k)' =>
              /\ Shows(j, k)
              /\ pc'[<<j, k>>] = "record" <=> pc[<<j, k>>] = "record"
              /\ pc[<<j, k>>] = "record" => cur'[<<j, k>>] = cur[<<j, k>>]
    PROVE  AgreeInv'
<1> SUFFICES ASSUME NEW j \in Jobs, NEW i \in Idx, ~Excused(j, i)'
             PROVE  AgreeInv!(j, i)!2'
  BY DEF AgreeInv
<1>1. AgreeInv!(j, i)!2
  BY DEF AgreeInv, Excused
<1>2. j \in heads' \ toRead' => rows'[j][i] = dbMsg'[j][i]
  BY <1>1
<1>3. ASSUME NEW k \in Kinds, Shows(j, k)'
      PROVE  /\ i \in todo'[<<j, k>>] => results'[<<j, k>>][i] = "pending"
             /\ dbMsg'[j][i] = IF pc'[<<j, k>>] = "record" /\ i = Item(<<j, k>>)'
                               THEN Outcome(<<j, k>>)' ELSE results'[<<j, k>>][i]
  <2>1. /\ Shows(j, k) /\ (pc'[<<j, k>>] = "record" <=> pc[<<j, k>>] = "record")
        /\ pc[<<j, k>>] = "record" => cur'[<<j, k>>] = cur[<<j, k>>]
    BY <1>3
  <2>2. Item(<<j, k>>)' = Item(<<j, k>>)
    BY DEF Item
  <2>3. pc[<<j, k>>] = "record" => Outcome(<<j, k>>)' = Outcome(<<j, k>>)
    BY <2>1 DEF Outcome
  <2>. QED
    BY <1>1, <2>1, <2>2, <2>3
<1>. QED
  BY <1>2, <1>3


\* quit is tested between two recipients.
LEMMA CheckQuitShown ==
    ASSUME SendInv, ShownInv, AgreeInv, NEW j0 \in Jobs, NEW k0 \in Kinds, CheckQuit(<<j0, k0>>)
    PROVE  ShownInv' /\ AgreeInv'
<1>t. TypeOK /\ ResumerInv
  BY DEF SendInv
<1>u. UNCHANGED <<dbMsg, results, todo>> /\ raced \subseteq raced' /\ unsaved \subseteq unsaved'
  BY DEF CheckQuit, Finish, procVars, dbVars, runVars, resumeVars, history
<1>1. \A j \in Jobs : jobs'[j] = jobs[j]
  BY DEF CheckQuit, Finish, procVars, dbVars, runVars, resumeVars, history
<1>2. \A j \in Jobs : j \in heads' \ toRead' =>
        rows'[j] = dbMsg[j] \/ (j \in heads \ toRead /\ rows'[j] = rows[j])
  BY <1>t DEF CheckQuit, Finish, TypeOK, procVars, dbVars, runVars, resumeVars, history
<1>p. /\ pc[<<j0, k0>>] = "check" /\ pc'[<<j0, k0>>] \in {"send", "flush"}
      /\ \A j \in Jobs, k \in Kinds : ~(j = j0 /\ k = k0) => pc'[<<j, k>>] = pc[<<j, k>>]
      /\ UNCHANGED <<rpc, rjob, cur>>
  BY <1>t DEF CheckQuit, Finish, TypeOK, Runs, resumeVars
<1>3. \A j \in Jobs, k \in Kinds :
        /\ Shows(j, k)' <=> Shows(j, k)
        /\ pc'[<<j, k>>] = "saved" => pc[<<j, k>>] = "saved"
        /\ pc'[<<j, k>>] = "record" <=> pc[<<j, k>>] = "record"
        /\ pc[<<j, k>>] = "record" => cur'[<<j, k>>] = cur[<<j, k>>]
  BY <1>t, <1>p DEF Shows, TypeOK, Runs, Kinds
<1>4. ShownInv'
  BY <1>t, <1>1, <1>3, ShownFrame
<1>. QED
  BY <1>u, <1>2, <1>3, <1>4, AgreeFrame

\* The outcome of the attempt is still the run's own.
LEMMA SendTextShown ==
    ASSUME SendInv, ShownInv, AgreeInv, NEW j0 \in Jobs, NEW k0 \in Kinds, SendText(<<j0, k0>>)
    PROVE  ShownInv' /\ AgreeInv'
<1>t. TypeOK /\ ResumerInv
  BY DEF SendInv
<1>u. UNCHANGED <<dbMsg, results, todo>> /\ raced \subseteq raced' /\ unsaved \subseteq unsaved'
  BY DEF SendText, procVars, dbVars, runVars, resumeVars, history
<1>1. \A j \in Jobs : jobs'[j] = jobs[j]
  BY DEF SendText, procVars, dbVars, runVars, resumeVars, history
<1>2. \A j \in Jobs : j \in heads' \ toRead' =>
        rows'[j] = dbMsg[j] \/ (j \in heads \ toRead /\ rows'[j] = rows[j])
  BY <1>t DEF SendText, TypeOK, procVars, dbVars, runVars, resumeVars, history
<1>3. \A j \in Jobs, k \in Kinds :
        /\ Shows(j, k)' <=> Shows(j, k)
        /\ pc'[<<j, k>>] = "saved" => pc[<<j, k>>] = "saved"
        /\ pc'[<<j, k>>] = "record" <=> pc[<<j, k>>] = "record"
        /\ pc[<<j, k>>] = "record" => cur'[<<j, k>>] = cur[<<j, k>>]
  BY <1>t DEF SendText, Shows, TypeOK, Runs, Kinds, procVars, dbVars, runVars, resumeVars, history
<1>4. ShownInv'
  BY <1>t, <1>1, <1>3, ShownFrame
<1>. QED
  BY <1>u, <1>2, <1>3, <1>4, AgreeFrame

\* The pause between two recipients.
LEMMA sleepJitterShown ==
    ASSUME SendInv, ShownInv, AgreeInv, NEW j0 \in Jobs, NEW k0 \in Kinds, sleepJitter(<<j0, k0>>)
    PROVE  ShownInv' /\ AgreeInv'
<1>t. TypeOK /\ ResumerInv
  BY DEF SendInv
<1>u. UNCHANGED <<dbMsg, results, todo>> /\ raced \subseteq raced' /\ unsaved \subseteq unsaved'
  BY DEF sleepJitter, Finish, procVars, dbVars, runVars, resumeVars, history
<1>1. \A j \in Jobs : jobs'[j] = jobs[j]
  BY DEF sleepJitter, Finish, procVars, dbVars, runVars, resumeVars, history
<1>2. \A j \in Jobs : j \in heads' \ toRead' =>
        rows'[j] = dbMsg[j] \/ (j \in heads \ toRead /\ rows'[j] = rows[j])
  BY <1>t DEF sleepJitter, Finish, TypeOK, procVars, dbVars, runVars, resumeVars, history
<1>p. /\ pc[<<j0, k0>>] = "sleep" /\ pc'[<<j0, k0>>] \in {"check", "flush"}
      /\ \A j \in Jobs, k \in Kinds : ~(j = j0 /\ k = k0) => pc'[<<j, k>>] = pc[<<j, k>>]
      /\ UNCHANGED <<rpc, rjob, cur>>
  BY <1>t DEF sleepJitter, Finish, TypeOK, Runs, resumeVars
<1>3. \A j \in Jobs, k \in Kinds :
        /\ Shows(j, k)' <=> Shows(j, k)
        /\ pc'[<<j, k>>] = "saved" => pc[<<j, k>>] = "saved"
        /\ pc'[<<j, k>>] = "record" <=> pc[<<j, k>>] = "record"
        /\ pc[<<j, k>>] = "record" => cur'[<<j, k>>] = cur[<<j, k>>]
  BY <1>t, <1>p DEF Shows, TypeOK, Runs, Kinds
<1>4. ShownInv'
  BY <1>t, <1>1, <1>3, ShownFrame
<1>. QED
  BY <1>u, <1>2, <1>3, <1>4, AgreeFrame

\* Only the status of the job is written.
LEMMA FlushJobShown ==
    ASSUME SendInv, ShownInv, AgreeInv, NEW j0 \in Jobs, NEW k0 \in Kinds, FlushJob(<<j0, k0>>)
    PROVE  ShownInv' /\ AgreeInv'
<1>t. TypeOK /\ ResumerInv
  BY DEF SendInv
<1>u. UNCHANGED <<dbMsg, results, todo>> /\ raced \subseteq raced' /\ unsaved \subseteq unsaved'
  BY DEF FlushJob, updateJob, DbCall, procVars, dbVars, runVars, resumeVars, history
<1>1. \A j \in Jobs : jobs'[j] = jobs[j]
  BY DEF FlushJob, updateJob, DbCall, procVars, dbVars, runVars, resumeVars, history
<1>2. \A j \in Jobs : j \in heads' \ toRead' =>
        rows'[j] = dbMsg[j] \/ (j \in heads \ toRead /\ rows'[j] = rows[j])
  BY <1>t DEF FlushJob, updateJob, DbCall, TypeOK, procVars, dbVars, runVars, resumeVars, history
<1>3. \A j \in Jobs, k \in Kinds :
        /\ Shows(j, k)' <=> Shows(j, k)
        /\ pc'[<<j, k>>] = "saved" => pc[<<j, k>>] = "saved"
        /\ pc'[<<j, k>>] = "record" <=> pc[<<j, k>>] = "record"
        /\ pc[<<j, k>>] = "record" => cur'[<<j, k>>] = cur[<<j, k>>]
  BY <1>t DEF FlushJob, updateJob, DbCall, Shows, TypeOK, Runs, Kinds, procVars, dbVars, runVars,
     resumeVars, history
<1>4. ShownInv'
  BY <1>t, <1>1, <1>3, ShownFrame
<1>. QED
  BY <1>u, <1>2, <1>3, <1>4, AgreeFrame

\* The resumer copies the rows of a job.
LEMMA LoadRowsShown ==
    ASSUME SendInv, ShownInv, AgreeInv, NEW j0 \in Jobs, LoadRows(j0)
    PROVE  ShownInv' /\ AgreeInv'
<1>t. TypeOK /\ ResumerInv
  BY DEF SendInv
<1>u. UNCHANGED <<dbMsg, results, todo>> /\ raced \subseteq raced' /\ unsaved \subseteq unsaved'
  BY DEF LoadRows, procVars, dbVars, runVars, resumeVars, history
<1>1. \A j \in Jobs : jobs'[j] = jobs[j]
  BY DEF LoadRows, procVars, dbVars, runVars, resumeVars, history
<1>2. \A j \in Jobs : j \in heads' \ toRead' =>
        rows'[j] = dbMsg[j] \/ (j \in heads \ toRead /\ rows'[j] = rows[j])
  BY <1>t DEF LoadRows, TypeOK, procVars, dbVars, runVars, resumeVars, history
<1>3. \A j \in Jobs, k \in Kinds :
        /\ Shows(j, k)' <=> Shows(j, k)
        /\ pc'[<<j, k>>] = "saved" => pc[<<j, k>>] = "saved"
        /\ pc'[<<j, k>>] = "record" <=> pc[<<j, k>>] = "record"
        /\ pc[<<j, k>>] = "record" => cur'[<<j, k>>] = cur[<<j, k>>]
  BY <1>t DEF LoadRows, Shows, TypeOK, Runs, Kinds, procVars, dbVars, runVars, resumeVars, history
<1>4. ShownInv'
  BY <1>t, <1>1, <1>3, ShownFrame
<1>. QED
  BY <1>u, <1>2, <1>3, <1>4, AgreeFrame

\* The resumer closes a job with nothing left to send.
LEMMA ResumeCompleteShown ==
    ASSUME SendInv, ShownInv, AgreeInv, NEW j0 \in Jobs, ResumeComplete(j0)
    PROVE  ShownInv' /\ AgreeInv'
<1>t. TypeOK /\ ResumerInv
  BY DEF SendInv
<1>u. UNCHANGED <<dbMsg, results, todo>> /\ raced \subseteq raced' /\ unsaved \subseteq unsaved'
  BY DEF ResumeComplete, Handled, procVars, dbVars, runVars, resumeVars, history
<1>1. \A j \in Jobs : jobs'[j] = jobs[j]
  BY DEF ResumeComplete, Handled, procVars, dbVars, runVars, resumeVars, history
<1>2. \A j \in Jobs : j \in heads' \ toRead' =>
        rows'[j] = dbMsg[j] \/ (j \in heads \ toRead /\ rows'[j] = rows[j])
  BY <1>t DEF ResumeComplete, Handled, TypeOK, procVars, dbVars, runVars, resumeVars, history
<1>3. \A j \in Jobs, k \in Kinds :
        /\ Shows(j, k)' <=> Shows(j, k)
        /\ pc'[<<j, k>>] = "saved" => pc[<<j, k>>] = "saved"
        /\ pc'[<<j, k>>] = "record" <=> pc[<<j, k>>] = "record"
        /\ pc[<<j, k>>] = "record" => cur'[<<j, k>>] = cur[<<j, k>>]
  BY <1>t DEF ResumeComplete, Handled, Shows, TypeOK, Runs, Kinds, procVars, dbVars, runVars, resumeVars, history
<1>4. ShownInv'
  BY <1>t, <1>1, <1>3, ShownFrame
<1>. QED
  BY <1>u, <1>2, <1>3, <1>4, AgreeFrame

\* The resumer waits for the session of a job.
LEMMA ResumeWaitShown ==
    ASSUME SendInv, ShownInv, AgreeInv, NEW j0 \in Jobs, ResumeWait(j0)
    PROVE  ShownInv' /\ AgreeInv'
<1>t. TypeOK /\ ResumerInv
  BY DEF SendInv
<1>u. UNCHANGED <<dbMsg, results, todo>> /\ raced \subseteq raced' /\ unsaved \subseteq unsaved'
  BY DEF ResumeWait, procVars, dbVars, runVars, resumeVars, history
<1>1. \A j \in Jobs : jobs'[j] = jobs[j]
  BY DEF ResumeWait, procVars, dbVars, runVars, resumeVars, history
<1>2. \A j \in Jobs : j \in heads' \ toRead' =>
        rows'[j] = dbMsg[j] \/ (j \in heads \ toRead /\ rows'[j] = rows[j])
  BY <1>t DEF ResumeWait, TypeOK, procVars, dbVars, runVars, resumeVars, history
<1>3. \A j \in Jobs, k \in Kinds :
        /\ Shows(j, k)' <=> Shows(j, k)
        /\ pc'[<<j, k>>] = "saved" => pc[<<j, k>>] = "saved"
        /\ pc'[<<j, k>>] = "record" <=> pc[<<j, k>>] = "record"
        /\ pc[<<j, k>>] = "record" => cur'[<<j, k>>] = cur[<<j, k>>]
  BY <1>t DEF ResumeWait, Shows, TypeOK, Runs, Kinds, procVars, dbVars, runVars, resumeVars, history
<1>4. ShownInv'
  BY <1>t, <1>1, <1>3, ShownFrame
<1>. QED
  BY <1>u, <1>2, <1>3, <1>4, AgreeFrame

\* Without BULK_AUTO_RESUME nothing is read.
LEMMA markInterruptedShown ==
    ASSUME SendInv, ShownInv, AgreeInv, markInterrupted
    PROVE  ShownInv' /\ AgreeInv'
<1>t. TypeOK /\ ResumerInv
  BY DEF SendInv
<1>u. UNCHANGED <<dbMsg, results, todo>> /\ raced \subseteq raced' /\ unsaved \subseteq unsaved'
  BY DEF markInterrupted, procVars, dbVars, runVars, resumeVars, history
<1>1. \A j \in Jobs : jobs'[j] = jobs[j]
  BY DEF markInterrupted, procVars, dbVars, runVars, resumeVars, history
<1>2. \A j \in Jobs : j \in heads' \ toRead' =>
        rows'[j] = dbMsg[j] \/ (j \in heads \ toRead /\ rows'[j] = rows[j])
  BY <1>t DEF markInterrupted, TypeOK, procVars, dbVars, runVars, resumeVars, history
<1>3. \A j \in Jobs, k \in Kinds :
        /\ Shows(j, k)' <=> Shows(j, k)
        /\ pc'[<<j, k>>] = "saved" => pc[<<j, k>>] = "saved"
        /\ pc'[<<j, k>>] = "record" <=> pc[<<j, k>>] = "record"
        /\ pc[<<j, k>>] = "record" => cur'[<<j, k>>] = cur[<<j, k>>]
  BY <1>t DEF markInterrupted, Shows, TypeOK, Runs, Kinds, procVars, dbVars, runVars, resumeVars, history
<1>4. ShownInv'
  BY <1>t, <1>1, <1>3, ShownFrame
<1>. QED
  BY <1>u, <1>2, <1>3, <1>4, AgreeFrame

\* The jobs are read, their rows not yet.
LEMMA LoadHeadsShown ==
    ASSUME SendInv, ShownInv, AgreeInv, LoadHeads
    PROVE  ShownInv' /\ AgreeInv'
<1>t. TypeOK /\ ResumerInv
  BY DEF SendInv
<1>u. UNCHANGED <<dbMsg, results, todo>> /\ raced \subseteq raced' /\ unsaved \subseteq unsaved'
  BY DEF LoadHeads, procVars, dbVars, runVars, resumeVars, history
<1>1. \A j \in Jobs : jobs'[j] = jobs[j]
  BY DEF LoadHeads, procVars, dbVars, runVars, resumeVars, history
<1>2. \A j \in Jobs : j \in heads' \ toRead' =>
        rows'[j] = dbMsg[j] \/ (j \in heads \ toRead /\ rows'[j] = rows[j])
  BY <1>t DEF LoadHeads, TypeOK, procVars, dbVars, runVars, resumeVars, history
<1>3. \A j \in Jobs, k \in Kinds :
        /\ Shows(j, k)' <=> Shows(j, k)
        /\ pc'[<<j, k>>] = "saved" => pc[<<j, k>>] = "saved"
        /\ pc'[<<j, k>>] = "record" <=> pc[<<j, k>>] = "record"
        /\ pc[<<j, k>>] = "record" => cur'[<<j, k>>] = cur[<<j, k>>]
  BY <1>t DEF LoadHeads, Shows, TypeOK, Runs, Kinds, procVars, dbVars, runVars, resumeVars, history
<1>4. ShownInv'
  BY <1>t, <1>1, <1>3, ShownFrame
<1>. QED
  BY <1>u, <1>2, <1>3, <1>4, AgreeFrame

\* A failed query ends the resume.
LEMMA LoadFailsShown ==
    ASSUME SendInv, ShownInv, AgreeInv, LoadFails
    PROVE  ShownInv' /\ AgreeInv'
<1>t. TypeOK /\ ResumerInv
  BY DEF SendInv
<1>u. UNCHANGED <<dbMsg, results, todo>> /\ raced \subseteq raced' /\ unsaved \subseteq unsaved'
  BY DEF LoadFails, procVars, dbVars, runVars, resumeVars, history
<1>1. \A j \in Jobs : jobs'[j] = jobs[j]
  BY DEF LoadFails, procVars, dbVars, runVars, resumeVars, history
<1>2. \A j \in Jobs : j \in heads' \ toRead' =>
        rows'[j] = dbMsg[j] \/ (j \in heads \ toRead /\ rows'[j] = rows[j])
  BY <1>t DEF LoadFails, TypeOK, procVars, dbVars, runVars, resumeVars, history
<1>3. \A j \in Jobs, k \in Kinds :
        /\ Shows(j, k)' <=> Shows(j, k)
        /\ pc'[<<j, k>>] = "saved" => pc[<<j, k>>] = "saved"
        /\ pc'[<<j, k>>] = "record" <=> pc[<<j, k>>] = "record"
        /\ pc[<<j, k>>] = "record" => cur'[<<j, k>>] = cur[<<j, k>>]
  BY <1>t DEF LoadFails, Shows, TypeOK, Runs, Kinds, procVars, dbVars, runVars, resumeVars, history
<1>4. ShownInv'
  BY <1>t, <1>1, <1>3, ShownFrame
<1>. QED
  BY <1>u, <1>2, <1>3, <1>4, AgreeFrame

\* The resume ends.
LEMMA ResumeEndsShown ==
    ASSUME SendInv, ShownInv, AgreeInv, ResumeEnds
    PROVE  ShownInv' /\ AgreeInv'
<1>t. TypeOK /\ ResumerInv
  BY DEF SendInv
<1>u. UNCHANGED <<dbMsg, results, todo>> /\ raced \subseteq raced' /\ unsaved \subseteq unsaved'
  BY DEF ResumeEnds, procVars, dbVars, runVars, resumeVars, history
<1>1. \A j \in Jobs : jobs'[j] = jobs[j]
  BY DEF ResumeEnds, procVars, dbVars, runVars, resumeVars, history
<1>2. \A j \in Jobs : j \in heads' \ toRead' =>
        rows'[j] = dbMsg[j] \/ (j \in heads \ toRead /\ rows'[j] = rows[j])
  BY <1>t DEF ResumeEnds, TypeOK, procVars, dbVars, runVars, resumeVars, history
<1>3. \A j \in Jobs, k \in Kinds :
        /\ Shows(j, k)' <=> Shows(j, k)
        /\ pc'[<<j, k>>] = "saved" => pc[<<j, k>>] = "saved"
        /\ pc'[<<j, k>>] = "record" <=> pc[<<j, k>>] = "record"
        /\ pc[<<j, k>>] = "record" => cur'[<<j, k>>] = cur[<<j, k>>]
  BY <1>t DEF ResumeEnds, Shows, TypeOK, Runs, Kinds, procVars, dbVars, runVars, resumeVars, history
<1>4. ShownInv'
  BY <1>t, <1>1, <1>3, ShownFrame
<1>. QED
  BY <1>u, <1>2, <1>3, <1>4, AgreeFrame

\* The session is ready, or the wait is over.
LEMMA waitReadyShown ==
    ASSUME SendInv, ShownInv, AgreeInv, waitReady
    PROVE  ShownInv' /\ AgreeInv'
<1>t. TypeOK /\ ResumerInv
  BY DEF SendInv
<1>u. UNCHANGED <<dbMsg, results, todo>> /\ raced \subseteq raced' /\ unsaved \subseteq unsaved'
  BY DEF waitReady, procVars, dbVars, runVars, resumeVars, history
<1>1. \A j \in Jobs : jobs'[j] = jobs[j]
  BY DEF waitReady, procVars, dbVars, runVars, resumeVars, history
<1>2. \A j \in Jobs : j \in heads' \ toRead' =>
        rows'[j] = dbMsg[j] \/ (j \in heads \ toRead /\ rows'[j] = rows[j])
  BY <1>t DEF waitReady, TypeOK, procVars, dbVars, runVars, resumeVars, history
<1>3. \A j \in Jobs, k \in Kinds :
        /\ Shows(j, k)' <=> Shows(j, k)
        /\ pc'[<<j, k>>] = "saved" => pc[<<j, k>>] = "saved"
        /\ pc'[<<j, k>>] = "record" <=> pc[<<j, k>>] = "record"
        /\ pc[<<j, k>>] = "record" => cur'[<<j, k>>] = cur[<<j, k>>]
  BY <1>t DEF waitReady, Shows, TypeOK, Runs, Kinds, procVars, dbVars, runVars, resumeVars, history
<1>4. ShownInv'
  BY <1>t, <1>1, <1>3, ShownFrame
<1>. QED
  BY <1>u, <1>2, <1>3, <1>4, AgreeFrame

\* A job whose session is not ready is put back.
LEMMA ResumeGiveUpShown ==
    ASSUME SendInv, ShownInv, AgreeInv, ResumeGiveUp
    PROVE  ShownInv' /\ AgreeInv'
<1>t. TypeOK /\ ResumerInv
  BY DEF SendInv
<1>u. UNCHANGED <<dbMsg, results, todo>> /\ raced \subseteq raced' /\ unsaved \subseteq unsaved'
  BY DEF ResumeGiveUp, Handled, procVars, dbVars, runVars, resumeVars, history
<1>1. \A j \in Jobs : jobs'[j] = jobs[j]
  BY DEF ResumeGiveUp, Handled, procVars, dbVars, runVars, resumeVars, history
<1>2. \A j \in Jobs : j \in heads' \ toRead' =>
        rows'[j] = dbMsg[j] \/ (j \in heads \ toRead /\ rows'[j] = rows[j])
  BY <1>t DEF ResumeGiveUp, Handled, TypeOK, procVars, dbVars, runVars, resumeVars, history
<1>3. \A j \in Jobs, k \in Kinds :
        /\ Shows(j, k)' <=> Shows(j, k)
        /\ pc'[<<j, k>>] = "saved" => pc[<<j, k>>] = "saved"
        /\ pc'[<<j, k>>] = "record" <=> pc[<<j, k>>] = "record"
        /\ pc[<<j, k>>] = "record" => cur'[<<j, k>>] = cur[<<j, k>>]
  BY <1>t DEF ResumeGiveUp, Handled, Shows, TypeOK, Runs, Kinds, procVars, dbVars, runVars, resumeVars, history
<1>4. ShownInv'
  BY <1>t, <1>1, <1>3, ShownFrame
<1>. QED
  BY <1>u, <1>2, <1>3, <1>4, AgreeFrame

\* The goroutine takes over the object that was published.
LEMMA ResumeRunShown ==
    ASSUME SendInv, ShownInv, AgreeInv, ResumeRun
    PROVE  ShownInv' /\ AgreeInv'
<1>t. TypeOK /\ ResumerInv
  BY DEF SendInv
<1>u. UNCHANGED <<dbMsg, results, todo>> /\ raced \subseteq raced' /\ unsaved \subseteq unsaved'
  BY DEF ResumeRun, Handled, procVars, dbVars, runVars, resumeVars, history
<1>1. \A j \in Jobs : jobs'[j] = jobs[j]
  BY DEF ResumeRun, Handled, procVars, dbVars, runVars, resumeVars, history
<1>2. \A j \in Jobs : j \in heads' \ toRead' =>
        rows'[j] = dbMsg[j] \/ (j \in heads \ toRead /\ rows'[j] = rows[j])
  BY <1>t DEF ResumeRun, Handled, TypeOK, procVars, dbVars, runVars, resumeVars, history
<1>p. rpc = "mark" /\ rjob \in Jobs /\ pc[<<rjob, "resume">>] = "idle" /\ rpc' = "rows"
      /\ pc' = [pc EXCEPT ![<<rjob, "resume">>] = "check"] /\ UNCHANGED cur
  BY <1>t DEF ResumeRun, Handled, ResumerInv, TypeOK
<1>3. \A j \in Jobs, k \in Kinds :
        /\ Shows(j, k)' <=> Shows(j, k)
        /\ pc'[<<j, k>>] = "saved" => pc[<<j, k>>] = "saved"
        /\ pc'[<<j, k>>] = "record" <=> pc[<<j, k>>] = "record"
        /\ pc[<<j, k>>] = "record" => cur'[<<j, k>>] = cur[<<j, k>>]
  BY <1>t, <1>p DEF Shows, TypeOK, Runs, Kinds
<1>4. ShownInv'
  BY <1>t, <1>1, <1>3, ShownFrame
<1>. QED
  BY <1>u, <1>2, <1>3, <1>4, AgreeFrame

\* A new process starts with an empty memory.
LEMMA RestartShown ==
    ASSUME SendInv, ShownInv, AgreeInv, Restart
    PROVE  ShownInv' /\ AgreeInv'
<1>t. TypeOK /\ ResumerInv /\ DownInv
  BY DEF SendInv
<1>u. UNCHANGED <<dbMsg, results, todo>> /\ raced \subseteq raced' /\ unsaved \subseteq unsaved'
  BY DEF Restart, procVars, dbVars, runVars, resumeVars, history
<1>1. \A j \in Jobs : jobs'[j] = jobs[j]
  BY DEF Restart, procVars, dbVars, runVars, resumeVars, history
<1>2. \A j \in Jobs : j \in heads' \ toRead' =>
        rows'[j] = dbMsg[j] \/ (j \in heads \ toRead /\ rows'[j] = rows[j])
  BY <1>t DEF Restart, TypeOK, procVars, dbVars, runVars, resumeVars, history
<1>p. rpc = "done" /\ rpc' = "start" /\ UNCHANGED <<pc, cur>>
  BY <1>t DEF Restart, DownInv, runVars
<1>3. \A j \in Jobs, k \in Kinds :
        /\ Shows(j, k)' <=> Shows(j, k)
        /\ pc'[<<j, k>>] = "saved" => pc[<<j, k>>] = "saved"
        /\ pc'[<<j, k>>] = "record" <=> pc[<<j, k>>] = "record"
        /\ pc[<<j, k>>] = "record" => cur'[<<j, k>>] = cur[<<j, k>>]
  BY <1>t, <1>p DEF Shows, TypeOK, Runs, Kinds
<1>4. ShownInv'
  BY <1>t, <1>1, <1>3, ShownFrame
<1>. QED
  BY <1>u, <1>2, <1>3, <1>4, AgreeFrame

\* Steps of the process and of its sessions.
LEMMA ProcessShown ==
    ASSUME SendInv, ShownInv, AgreeInv, UNCHANGED <<dbVars, runVars, resumeVars, history>>
    PROVE  ShownInv' /\ AgreeInv'
<1>t. TypeOK /\ ResumerInv
  BY DEF SendInv
<1>u. UNCHANGED <<dbMsg, results, todo>> /\ raced \subseteq raced' /\ unsaved \subseteq unsaved'
  BY DEF dbVars, procVars, dbVars, runVars, resumeVars, history
<1>1. \A j \in Jobs : jobs'[j] = jobs[j]
  BY DEF dbVars, procVars, dbVars, runVars, resumeVars, history
<1>2. \A j \in Jobs : j \in heads' \ toRead' =>
        rows'[j] = dbMsg[j] \/ (j \in heads \ toRead /\ rows'[j] = rows[j])
  BY <1>t DEF dbVars, TypeOK, procVars, dbVars, runVars, resumeVars, history
<1>3. \A j \in Jobs, k \in Kinds :
        /\ Shows(j, k)' <=> Shows(j, k)
        /\ pc'[<<j, k>>] = "saved" => pc[<<j, k>>] = "saved"
        /\ pc'[<<j, k>>] = "record" <=> pc[<<j, k>>] = "record"
        /\ pc[<<j, k>>] = "record" => cur'[<<j, k>>] = cur[<<j, k>>]
  BY <1>t DEF dbVars, Shows, TypeOK, Runs, Kinds, procVars, dbVars, runVars, resumeVars, history
<1>4. ShownInv'
  BY <1>t, <1>1, <1>3, ShownFrame
<1>. QED
  BY <1>u, <1>2, <1>3, <1>4, AgreeFrame

(***************************************************************************)
(* The write to the row: for a moment it is ahead of the object.           *)
(***************************************************************************)
LEMMA PersistShown ==
    ASSUME SendInv, ShownInv, AgreeInv, NEW j0 \in Jobs, NEW k0 \in Kinds, Persist(<<j0, k0>>)
    PROVE  ShownInv' /\ AgreeInv'
<1> DEFINE r0 == <<j0, k0>>
           i0 == Item(r0)
<1>t. TypeOK /\ RunInv /\ r0 \in Runs /\ dbMsg \in [Jobs -> [Idx -> MsgStatus]]
  BY DEF SendInv, TypeOK, Runs
<1>1. /\ pc[r0] = "persist" /\ pc'[r0] = "record"
      /\ \A j \in Jobs, k \in Kinds : ~(j = j0 /\ k = k0) => pc'[<<j, k>>] = pc[<<j, k>>]
      /\ UNCHANGED <<jobs, todo, cur, results, raced, heads, toRead, rows, rpc, rjob>>
  BY <1>t DEF Persist, TypeOK, Runs, resumeVars
<1>2. /\ \/ dbMsg' = [dbMsg EXCEPT ![j0][i0] = Outcome(r0)] /\ unsaved' = unsaved
         \/ dbMsg' = dbMsg /\ unsaved' = unsaved \cup {<<j0, i0>>}
  BY <1>t DEF Persist, updateMessage
<1>3. \A r : Item(r)' = Item(r) /\ Outcome(r)' = Outcome(r)
  BY <1>1 DEF Item, Outcome
<1>4. \A j \in Jobs, k \in Kinds : Shows(j, k)' <=> Shows(j, k)
  BY <1>1 DEF Shows
<1>5. i0 \in Idx
  BY <1>t, <1>1, ItemIn DEF RunInv, Sending
<1>6. ShownInv'
  BY <1>t, <1>1, <1>4, ShownFrame
<1>7. AgreeInv'
  <2> SUFFICES ASSUME NEW j \in Jobs, NEW i \in Idx, ~Excused(j, i)'
               PROVE  AgreeInv!(j, i)!2'
    BY DEF AgreeInv
  <2>1. AgreeInv!(j, i)!2 /\ <<j, i>> \notin unsaved' /\ j \notin raced
    BY <1>1, <1>2 DEF AgreeInv, Excused
  <2>2. CASE j = j0 /\ i = i0
    <3>1. j0 \notin heads /\ \A k \in Kinds : k # k0 => ~Shows(j0, k)
      BY <1>1, <2>1, <2>2, SoleShown
    <3>2. dbMsg'[j0][i0] = Outcome(r0)
      BY <1>t, <1>2, <1>5, <2>1, <2>2
    <3>3. Shows(j0, k0)
      BY <1>1 DEF Shows
    <3>. QED
      BY <1>1, <1>3, <1>4, <2>1, <2>2, <3>1, <3>2, <3>3
  <2>3. CASE ~(j = j0 /\ i = i0)
    <3>1. dbMsg'[j][i] = dbMsg[j][i]
      BY <1>t, <1>2, <1>5, <2>3
    <3>. QED
      BY <1>1, <1>3, <1>4, <2>1, <2>3, <3>1
  <2>. QED
    BY <2>2, <2>3
<1>. QED
  BY <1>6, <1>7

\* The write to the object: it has caught up.
LEMMA RecordShown ==
    ASSUME SendInv, ShownInv, AgreeInv, NEW j0 \in Jobs, NEW k0 \in Kinds, Record(<<j0, k0>>)
    PROVE  ShownInv' /\ AgreeInv'
<1> DEFINE r0 == <<j0, k0>>
           i0 == Item(r0)
<1>t. /\ TypeOK /\ RunInv /\ r0 \in Runs
      /\ results \in [Runs -> [Idx -> MsgStatus]] /\ todo \in [Runs -> SUBSET Idx]
  BY DEF SendInv, TypeOK, Runs
<1>1. /\ pc[r0] = "record" /\ pc'[r0] \in {"flush", "sleep"}
      /\ \A j \in Jobs, k \in Kinds : ~(j = j0 /\ k = k0) => pc'[<<j, k>>] = pc[<<j, k>>]
      /\ UNCHANGED <<jobs, dbMsg, unsaved, raced, heads, toRead, rows, rpc, rjob>>
  BY <1>t DEF Record, Finish, TypeOK, Runs, dbVars, resumeVars, history
<1>2. /\ results' = [results EXCEPT ![r0][i0] = Outcome(r0)]
      /\ todo' = [todo EXCEPT ![r0] = @ \ {i0}]
      /\ cur' = [cur EXCEPT ![r0] = "none"]
  BY DEF Record
<1>3. i0 \in todo[r0] /\ i0 \in Idx
  BY <1>t, <1>1, ItemIn DEF RunInv, Sending
<1>4. \A j \in Jobs, k \in Kinds : ~(j = j0 /\ k = k0) =>
        /\ results'[<<j, k>>] = results[<<j, k>>] /\ todo'[<<j, k>>] = todo[<<j, k>>]
        /\ Item(<<j, k>>)' = Item(<<j, k>>) /\ Outcome(<<j, k>>)' = Outcome(<<j, k>>)
  BY <1>t, <1>2 DEF TypeOK, Runs, Item, Outcome
<1>5. \A j \in Jobs, k \in Kinds : Shows(j, k)' <=> Shows(j, k)
  BY <1>1 DEF Shows
<1>6. ShownInv'
  BY <1>t, <1>1, <1>5, ShownFrame
<1>7. AgreeInv'
  <2> SUFFICES ASSUME NEW j \in Jobs, NEW i \in Idx, ~Excused(j, i)'
               PROVE  AgreeInv!(j, i)!2'
    BY DEF AgreeInv
  <2>1. AgreeInv!(j, i)!2
    BY <1>1 DEF AgreeInv, Excused
  <2>2. Shows(j0, k0)
    BY <1>1 DEF Shows
  <2>3. /\ results'[r0][i0] = Outcome(r0) /\ i0 \notin todo'[r0]
        /\ i # i0 => results'[r0][i] = results[r0][i] /\ (i \in todo'[r0] => i \in todo[r0])
    BY <1>t, <1>2, <1>3
  <2>. QED
    BY <1>1, <1>4, <1>5, <2>1, <2>2, <2>3
<1>. QED
  BY <1>6, <1>7

\* A new job: its rows and its object are pending.
LEMMA SubmitSaveShown ==
    ASSUME SendInv, ShownInv, AgreeInv, NEW j0 \in Jobs, SubmitSave(j0)
    PROVE  ShownInv' /\ AgreeInv' /\ jobs[j0] = "none"
<1> DEFINE r0 == <<j0, "submit">>
<1>t. /\ TypeOK /\ UnusedInv /\ RowsInv /\ ResumerInv /\ r0 \in Runs
      /\ results \in [Runs -> [Idx -> MsgStatus]] /\ todo \in [Runs -> SUBSET Idx]
      /\ pc \in [Runs -> {"idle", "saved", "check", "send", "persist", "record", "sleep", "flush", "done"}]
  BY DEF SendInv, TypeOK, Runs, Kinds
<1>1. j0 \notin heads /\ dbMsg[j0] = AllPending /\ \A k \in Kinds : ~Shows(j0, k)
  BY <1>t DEF SubmitSave, UnusedInv, RowsInv, ResumerInv, Shows, Kinds
<1>2. pc' = [pc EXCEPT ![r0] = "saved"] /\ todo' = [todo EXCEPT ![r0] = Idx]
      /\ results' = [results EXCEPT ![r0] = AllPending]
      /\ UNCHANGED <<jobs, dbMsg, cur, unsaved, raced, heads, toRead, rows, rpc, rjob>>
  BY DEF SubmitSave, resumeVars
<1>3. \A j \in Jobs, k \in Kinds : ~(j = j0 /\ k = "submit") =>
        /\ pc'[<<j, k>>] = pc[<<j, k>>] /\ results'[<<j, k>>] = results[<<j, k>>]
        /\ todo'[<<j, k>>] = todo[<<j, k>>] /\ (Shows(j, k)' <=> Shows(j, k))
        /\ Item(<<j, k>>)' = Item(<<j, k>>) /\ Outcome(<<j, k>>)' = Outcome(<<j, k>>)
  BY <1>t, <1>2 DEF Runs, Item, Outcome, Shows
<1>4. pc'[r0] = "saved" /\ results'[r0] = AllPending
  BY <1>t, <1>2
<1>5. jobs[j0] = "none"
  BY <1>t, <1>1 DEF ShownInv, TypeOK, Kinds
<1>6. ShownInv'
  <2> SUFFICES ASSUME NEW j \in Jobs, jobs'[j] # "none"
               PROVE  Shows(j, jobs[j])' /\ pc'[<<j, jobs'[j]>>] # "saved"
    BY DEF ShownInv, Shows
  <2>1. jobs'[j] = jobs[j] /\ jobs[j] \in Kinds /\ j # j0
    BY <1>t, <1>2, <1>5 DEF TypeOK, Kinds
  <2>. QED
    BY <1>3, <2>1 DEF ShownInv, Shows
<1>7. AgreeInv'
  <2> SUFFICES ASSUME NEW j \in Jobs, NEW i \in Idx, ~Excused(j, i)'
               PROVE  AgreeInv!(j, i)!2'
    BY DEF AgreeInv
  <2>1. AgreeInv!(j, i)!2
    BY <1>2 DEF AgreeInv, Excused
  <2>2. CASE j # j0
    BY <1>2, <1>3, <2>1, <2>2
  <2>3. CASE j = j0
    BY <1>1, <1>2, <1>3, <1>4, <2>3 DEF AllPending
  <2>. QED
    BY <2>2, <2>3
<1>. QED
  BY <1>5, <1>6, <1>7

\* The object of a new job is put in the map, and finished jobs may leave it.
LEMMA SubmitRegisterShown ==
    ASSUME SendInv, ShownInv, AgreeInv, NEW j0 \in Jobs, SubmitRegister(j0)
    PROVE  ShownInv' /\ AgreeInv'
<1>t. TypeOK /\ <<j0, "submit">> \in Runs
      /\ pc \in [Runs -> {"idle", "saved", "check", "send", "persist", "record", "sleep", "flush", "done"}]
  BY DEF SendInv, TypeOK, Runs, Kinds
<1>1. pc[<<j0, "submit">>] = "saved" /\ pc' = [pc EXCEPT ![<<j0, "submit">>] = "check"]
      /\ UNCHANGED <<dbMsg, results, todo, cur, unsaved, raced, heads, toRead, rows, rpc, rjob>>
  BY DEF SubmitRegister, dbVars, resumeVars, history
<1>2. \A j \in Jobs, k \in Kinds :
        /\ Shows(j, k)' <=> Shows(j, k)
        /\ pc'[<<j, k>>] = "saved" => pc[<<j, k>>] = "saved"
        /\ pc'[<<j, k>>] = "record" <=> pc[<<j, k>>] = "record"
  BY <1>t, <1>1 DEF Shows, Runs
<1>3. \A j \in Jobs : (j = j0 /\ jobs'[j] = "submit") \/ jobs'[j] \in {"none", jobs[j]}
  BY DEF SubmitRegister
<1>4. ShownInv'
  <2> SUFFICES ASSUME NEW j \in Jobs, jobs'[j] # "none"
               PROVE  Shows(j, jobs[j])' /\ pc'[<<j, jobs'[j]>>] # "saved"
    BY DEF ShownInv
  <2>1. CASE j = j0 /\ jobs'[j] = "submit"
    BY <1>t, <1>1, <2>1 DEF Shows
  <2>2. CASE jobs'[j] = jobs[j]
    <3>1. jobs[j] \in Kinds
      BY <1>t, <2>2 DEF TypeOK, Kinds
    <3>. QED
      BY <1>2, <2>2, <3>1 DEF ShownInv, Shows
  <2>. QED
    BY <1>3, <2>1, <2>2
<1>. QED
  BY <1>1, <1>2, <1>4, AgreeFrame

\* The resumer puts the object it built from the rows in the map.
LEMMA ResumePublishShown ==
    ASSUME SendInv, ShownInv, AgreeInv, ResumePublish
    PROVE  ShownInv' /\ AgreeInv'
<1> DEFINE r0 == <<rjob, "resume">>
<1>t. /\ TypeOK /\ ResumerInv
      /\ results \in [Runs -> [Idx -> MsgStatus]] /\ todo \in [Runs -> SUBSET Idx]
      /\ jobs \in [Jobs -> {"none", "submit", "resume"}]
  BY DEF SendInv, TypeOK
<1>1. rpc = "publish" /\ rpc' = "mark" /\ rjob \in Jobs /\ rjob \in heads \ toRead /\ pc[r0] = "idle"
      /\ r0 \in Runs
  BY <1>t DEF ResumePublish, ResumerInv, TypeOK, Runs, Kinds
<1>2. /\ jobs' = [jobs EXCEPT ![rjob] = "resume"] /\ results' = [results EXCEPT ![r0] = rows[rjob]]
      /\ todo' = [todo EXCEPT ![r0] = PendingOf(rows[rjob])]
      /\ UNCHANGED <<dbMsg, pc, cur, unsaved, raced, heads, toRead, rows, rjob>>
  BY DEF ResumePublish, dbVars, history
<1>3. \A j \in Jobs, k \in Kinds : ~(j = rjob /\ k = "resume") =>
        /\ results'[<<j, k>>] = results[<<j, k>>] /\ todo'[<<j, k>>] = todo[<<j, k>>]
        /\ (Shows(j, k)' <=> Shows(j, k))
        /\ Item(<<j, k>>)' = Item(<<j, k>>) /\ Outcome(<<j, k>>)' = Outcome(<<j, k>>)
  BY <1>t, <1>1, <1>2 DEF Runs, Item, Outcome, Shows
<1>4. Shows(rjob, "resume")' /\ results'[r0] = rows[rjob] /\ todo'[r0] = PendingOf(rows[rjob])
      /\ pc'[r0] = "idle"
  BY <1>t, <1>1, <1>2 DEF Shows
<1>5. ShownInv'
  <2> SUFFICES ASSUME NEW j \in Jobs, jobs'[j] # "none"
               PROVE  Shows(j, jobs[j])' /\ pc'[<<j, jobs'[j]>>] # "saved"
    BY DEF ShownInv
  <2>1. CASE j = rjob
    BY <1>t, <1>1, <1>2, <1>4, <2>1 DEF Shows
  <2>2. CASE j # rjob
    <3>1. jobs'[j] = jobs[j] /\ jobs[j] \in Kinds
      BY <1>t, <1>2, <2>2 DEF Kinds
    <3>. QED
      BY <1>2, <1>3, <2>2, <3>1 DEF ShownInv, Shows
  <2>. QED
    BY <2>1, <2>2
<1>6. AgreeInv'
  <2> SUFFICES ASSUME NEW j \in Jobs, NEW i \in Idx, ~Excused(j, i)'
               PROVE  AgreeInv!(j, i)!2'
    BY DEF AgreeInv
  <2>1. AgreeInv!(j, i)!2
    BY <1>2 DEF AgreeInv, Excused
  <2>2. /\ j = rjob => results'[r0][i] = dbMsg[j][i]
        /\ j = rjob /\ i \in todo'[r0] => results'[r0][i] = "pending"
    BY <1>1, <1>4, <2>1 DEF PendingOf
  <2>. QED
    BY <1>2, <1>3, <1>4, <2>1, <2>2
<1>. QED
  BY <1>5, <1>6

\* Nothing is shown in a memory that is lost.
LEMMA MemoryLostShown ==
    ASSUME MemoryLost
    PROVE  ShownInv' /\ AgreeInv'
<1>1. /\ heads' = {} /\ rpc' = "done"
      /\ \A j \in Jobs : jobs'[j] = "none"
      /\ \A j \in Jobs, k \in Kinds : pc'[<<j, k>>] = "idle"
  BY DEF MemoryLost, Runs
<1>. QED
  BY <1>1 DEF ShownInv, AgreeInv, Shows

-------------------------------------------------------------------------------
(***************************************************************************)
(* HandsInv.  Most steps do nothing to a recipient (Kept); SendText sends, *)
(* Persist writes, and LoadRows puts a job in one more hand.               *)
(***************************************************************************)

\* A step that sends nothing to a recipient, writes no row of it, and leaves
\* nobody with more to send.
Kept(j, i) ==
    /\ dbMsg'[j][i] = dbMsg[j][i] /\ sends'[j][i] = sends[j][i]
    /\ \A k \in Kinds :
          /\ pc[<<j, k>>] = "persist" /\ Item(<<j, k>>) = i =>
                pc'[<<j, k>>] = "persist" /\ Item(<<j, k>>)' = i
          /\ ToSend(<<j, k>>, i)' => ToSend(<<j, k>>, i) \/ (k = "resume" /\ Pending(j, i))
    /\ Pending(j, i)' => Pending(j, i)

LEMMA KeptHands ==
    ASSUME NEW j \in Jobs, NEW i \in Idx, Hands(j, i), Kept(j, i)
    PROVE  Hands(j, i)'
<1>1. /\ ToSend(<<j, "submit">>, i)' => ToSend(<<j, "submit">>, i)
      /\ ToSend(<<j, "resume">>, i)' => ToSend(<<j, "resume">>, i) \/ Pending(j, i)
      /\ Pending(j, i)' => Pending(j, i)
      /\ InFlight(j, i) => InFlight(j, i)'
      /\ (\A k \in Kinds : pc[<<j, k>>] = "persist" /\ Item(<<j, k>>) = i) =>
            \A k \in Kinds : pc'[<<j, k>>] = "persist" /\ Item(<<j, k>>)' = i
  BY DEF Kept, Kinds, InFlight
<1>2. dbMsg'[j][i] = dbMsg[j][i] /\ sends'[j][i] = sends[j][i]
  BY DEF Kept
<1>. QED
  BY <1>1, <1>2 DEF Hands

\* A step that leaves runs and rows alone, and does not add to what was read.
LEMMA QuietKept ==
    ASSUME UNCHANGED <<dbMsg, sends, pc, todo>>,
           \A j \in Jobs : j \in heads' \ toRead' => j \in heads \ toRead /\ rows'[j] = rows[j]
    PROVE  \A j \in Jobs, i \in Idx : Kept(j, i)
BY DEF Kept, ToSend, Sending, Pending, Item

\* The steps of a run but for the sending and the write of a row.
LEMMA RunKept ==
    ASSUME TypeOK, NEW j0 \in Jobs, NEW k0 \in Kinds,
           \/ CheckQuit(<<j0, k0>>) \/ Record(<<j0, k0>>)
           \/ sleepJitter(<<j0, k0>>) \/ FlushJob(<<j0, k0>>)
    PROVE  (\A j \in Jobs, i \in Idx : Kept(j, i)) /\ unsaved' = unsaved
<1> DEFINE r0 == <<j0, k0>>
<1>t. /\ r0 \in Runs /\ todo \in [Runs -> SUBSET Idx]
      /\ pc \in [Runs -> {"idle", "saved", "check", "send", "persist", "record", "sleep", "flush", "done"}]
  BY DEF TypeOK, Runs
<1>u. UNCHANGED <<dbMsg, sends, unsaved, heads, toRead, rows>>
  BY DEF CheckQuit, Record, sleepJitter, FlushJob, dbVars, resumeVars, history
<1>1. /\ pc[r0] # "persist" /\ pc'[r0] \notin {"persist", "record"}
      /\ Sending(r0)' => Sending(r0)
      /\ \A i \in todo'[r0] : i \in todo[r0] /\ ~(pc[r0] = "record" /\ i = Item(r0))
  BY <1>t DEF CheckQuit, Record, sleepJitter, FlushJob, Finish, Sending
<1>2. \A j \in Jobs, k \in Kinds : ~(j = j0 /\ k = k0) =>
        pc'[<<j, k>>] = pc[<<j, k>>] /\ todo'[<<j, k>>] = todo[<<j, k>>]
  BY <1>t DEF CheckQuit, Record, sleepJitter, FlushJob, Finish, Runs
<1>3. \A i \in Idx : ToSend(r0, i)' => ToSend(r0, i)
  BY <1>1 DEF ToSend
<1>4. \A j \in Jobs, k \in Kinds, i \in Idx : ~(j = j0 /\ k = k0) =>
        (ToSend(<<j, k>>, i)' => ToSend(<<j, k>>, i)) /\ Item(<<j, k>>)' = Item(<<j, k>>)
  BY <1>2 DEF ToSend, Sending, Item
<1>5. \A j \in Jobs, i \in Idx : Pending(j, i)' => Pending(j, i)
  BY <1>u DEF Pending
<1>6. ASSUME NEW j \in Jobs, NEW i \in Idx
      PROVE  Kept(j, i)
  <2>1. ASSUME NEW k \in Kinds
        PROVE  /\ pc[<<j, k>>] = "persist" /\ Item(<<j, k>>) = i =>
                     pc'[<<j, k>>] = "persist" /\ Item(<<j, k>>)' = i
               /\ ToSend(<<j, k>>, i)' => ToSend(<<j, k>>, i)
    <3>1. CASE j = j0 /\ k = k0
      BY <1>1, <1>3, <3>1
    <3>2. CASE ~(j = j0 /\ k = k0)
      BY <1>2, <1>4, <3>2
    <3>. QED
      BY <3>1, <3>2
  <2>. QED
    BY <1>5, <1>u, <2>1 DEF Kept
<1>. QED
  BY <1>6, <1>u

\* One hand sends, and is then about to write.
LEMMA SendTextHands ==
    ASSUME SendInv, HandsInv, NEW j0 \in Jobs, NEW k0 \in Kinds, SendText(<<j0, k0>>)
    PROVE  HandsInv'
<1> DEFINE r0 == <<j0, k0>>
<1> PICK i0 : i0 = Item(r0)
  OBVIOUS
<1>t. /\ r0 \in Runs /\ TypeOK /\ ResumerInv /\ RunInv
      /\ pc \in [Runs -> {"idle", "saved", "check", "send", "persist", "record", "sleep", "flush", "done"}]
      /\ sends \in [Jobs -> [Idx -> Nat]]
  BY DEF SendInv, TypeOK, Runs
<1>u. UNCHANGED <<dbMsg, unsaved, todo, heads, toRead, rows>>
  BY DEF SendText, dbVars, resumeVars
<1>1. pc[r0] = "send" /\ pc' = [pc EXCEPT ![r0] = "persist"]
      /\ sends' \in {sends, [sends EXCEPT ![j0][i0] = @ + 1]}
  BY DEF SendText
<1>i. i0 \in todo[r0] /\ i0 \in Idx
  BY <1>t, <1>1, ItemIn DEF RunInv, Sending
<1>2. \A j \in Jobs, k \in Kinds : Item(<<j, k>>)' = Item(<<j, k>>)
  BY <1>u DEF Item
<1>3. /\ pc'[r0] = "persist"
      /\ \A j \in Jobs, k \in Kinds : ~(j = j0 /\ k = k0) => pc'[<<j, k>>] = pc[<<j, k>>]
  BY <1>t, <1>1 DEF Runs
<1>4. \A j \in Jobs, k \in Kinds, i \in Idx :
        /\ ToSend(<<j, k>>, i)' => ToSend(<<j, k>>, i)
        /\ j = j0 /\ k = k0 => ~ToSend(<<j, k>>, i0)'
  <2>1. \A i \in Idx : (ToSend(r0, i)' => ToSend(r0, i)) /\ ~ToSend(r0, i0)'
    BY <1>u, <1>1, <1>2, <1>3 DEF ToSend, Sending
  <2>2. \A j \in Jobs, k \in Kinds, i \in Idx : ~(j = j0 /\ k = k0) =>
          (ToSend(<<j, k>>, i)' => ToSend(<<j, k>>, i))
    BY <1>u, <1>2, <1>3 DEF ToSend, Sending
  <2>. QED
    BY <2>1, <2>2
<1>5. \A j \in Jobs, i \in Idx : Pending(j, i)' <=> Pending(j, i)
  BY <1>u DEF Pending
<1>6. PICK n \in 0 .. 1 : /\ sends'[j0][i0] = sends[j0][i0] + n
                          /\ \A j \in Jobs, i \in Idx : ~(j = j0 /\ i = i0) => sends'[j][i] = sends[j][i]
  <2>1. CASE sends' = sends
    <3>1. sends'[j0][i0] = sends[j0][i0] + 0
      BY <1>t, <1>i, <2>1
    <3>. QED
      BY <2>1, <3>1
  <2>2. CASE sends' = [sends EXCEPT ![j0][i0] = @ + 1]
    <3>1. sends'[j0][i0] = sends[j0][i0] + 1
      BY <1>t, <1>i, <2>2
    <3>2. \A j \in Jobs, i \in Idx : ~(j = j0 /\ i = i0) => sends'[j][i] = sends[j][i]
      BY <1>t, <1>i, <2>2
    <3>. QED
      BY <3>1, <3>2
  <2>. QED
    BY <1>1, <2>1, <2>2
<1>7. ASSUME NEW j \in Jobs, NEW i \in Idx, ~(j = j0 /\ i = i0)
      PROVE  Kept(j, i)
  <2>1. \A k \in Kinds : pc[<<j, k>>] = "persist" => pc'[<<j, k>>] = "persist"
    BY <1>1, <1>3
  <2>. QED
    BY <1>u, <1>2, <1>4, <1>5, <1>6, <1>7, <2>1 DEF Kept
<1>8. ASSUME <<j0, i0>> \notin unsaved
      PROVE  Hands(j0, i0)'
  <2> PICK s \in Nat : s = sends[j0][i0]
    BY <1>t, <1>i
  <2>0. sends'[j0][i0] = s + n /\ s \in Nat /\ n \in 0 .. 1
    BY <1>6
  <2>1. Hands(j0, i0) /\ ToSend(r0, i0)
    BY <1>i, <1>t, <1>1, <1>8 DEF HandsInv, ToSend, Sending
  <2>2. k0 = "resume" => ~Pending(j0, i0)
    BY <1>t, <1>1 DEF Pending, ResumerInv
  <2>3. s <= 1
    BY <2>1 DEF Hands, Kinds
  <2>4. InFlight(j0, i0)'
    BY <1>2, <1>3 DEF InFlight
  <2>5. ASSUME ToSend(<<j0, "submit">>, i0)' \/ ToSend(<<j0, "resume">>, i0)' \/ Pending(j0, i0)'
        PROVE  s = 0
    <3>1. CASE k0 = "submit"
      <4>1. ToSend(<<j0, "resume">>, i0) \/ Pending(j0, i0)
        BY <1>4, <1>5, <1>i, <2>5, <3>1 DEF Kinds
      <4>. QED
        BY <2>1, <3>1, <4>1 DEF Hands
    <3>2. CASE k0 = "resume"
      <4>1. ToSend(<<j0, "submit">>, i0)
        BY <1>4, <1>5, <1>i, <2>2, <2>5, <3>2 DEF Kinds
      <4>. QED
        BY <2>1, <3>2, <4>1 DEF Hands
    <3>. QED
      BY <3>1, <3>2 DEF Kinds
  <2>6. ~(/\ ToSend(<<j0, "submit">>, i0)'
          /\ ToSend(<<j0, "resume">>, i0)' \/ Pending(j0, i0)')
    BY <1>4, <1>5, <1>i, <2>2 DEF Kinds
  <2>7. ASSUME dbMsg'[j0][i0] = "pending", s + n = 2
        PROVE  \A k \in Kinds : pc'[<<j0, k>>] = "persist" /\ Item(<<j0, k>>)' = i0
    <3>1. s >= 1
      BY <2>0, <2>3, <2>7
    <3>2. InFlight(j0, i0)
      BY <1>u, <2>1, <2>7, <3>1 DEF Hands
    <3>3. PICK k \in Kinds : pc[<<j0, k>>] = "persist" /\ Item(<<j0, k>>) = i0
      BY <3>2 DEF InFlight
    <3>4. k # k0 /\ pc'[<<j0, k>>] = "persist"
      BY <1>1, <1>3, <3>3
    <3>. QED
      BY <1>2, <1>3, <3>3, <3>4 DEF Kinds
  <2>8. /\ s + n <= 2
        /\ s = 0 => s + n <= 1
    BY <2>0, <2>3
  <2>. QED
    BY <2>0, <2>4, <2>5, <2>6, <2>7, <2>8 DEF Hands
<1>9. ASSUME NEW j \in Jobs, NEW i \in Idx, <<j, i>> \notin unsaved'
      PROVE  Hands(j, i)'
  <2>1. CASE j = j0 /\ i = i0
    BY <1>u, <1>8, <1>9, <2>1
  <2>2. CASE ~(j = j0 /\ i = i0)
    BY <1>u, <1>7, <1>9, <2>2, KeptHands DEF HandsInv
  <2>. QED
    BY <2>1, <2>2
<1>. QED
  BY <1>9 DEF HandsInv

\* A row that is written is pending no more; one that is not is excused.
LEMMA PersistHands ==
    ASSUME SendInv, HandsInv, NEW j0 \in Jobs, NEW k0 \in Kinds, Persist(<<j0, k0>>)
    PROVE  HandsInv'
<1> DEFINE r0 == <<j0, k0>>
<1> PICK i0 : i0 = Item(r0)
  OBVIOUS
<1>t. /\ r0 \in Runs /\ TypeOK /\ RunInv
      /\ pc \in [Runs -> {"idle", "saved", "check", "send", "persist", "record", "sleep", "flush", "done"}]
      /\ dbMsg \in [Jobs -> [Idx -> MsgStatus]]
  BY DEF SendInv, TypeOK, Runs
<1>u. UNCHANGED <<sends, todo, heads, toRead, rows>>
  BY DEF Persist, resumeVars
<1>1. pc[r0] = "persist" /\ pc' = [pc EXCEPT ![r0] = "record"]
  BY DEF Persist
<1>i. i0 \in todo[r0] /\ i0 \in Idx
  BY <1>t, <1>1, ItemIn DEF RunInv, Sending
<1>2. \A j \in Jobs, k \in Kinds : Item(<<j, k>>)' = Item(<<j, k>>)
  BY <1>u DEF Item
<1>3. /\ pc'[r0] = "record"
      /\ \A j \in Jobs, k \in Kinds : ~(j = j0 /\ k = k0) => pc'[<<j, k>>] = pc[<<j, k>>]
  BY <1>t, <1>1 DEF Runs
<1>4. \A j \in Jobs, k \in Kinds, i \in Idx : ToSend(<<j, k>>, i)' => ToSend(<<j, k>>, i)
  BY <1>u, <1>1, <1>2, <1>3 DEF ToSend, Sending
<1>5. \A j \in Jobs, i \in Idx : Pending(j, i)' <=> Pending(j, i)
  BY <1>u DEF Pending
<1>6. /\ unsaved \subseteq unsaved'
      /\ \A j \in Jobs, i \in Idx : ~(j = j0 /\ i = i0) => dbMsg'[j][i] = dbMsg[j][i]
      /\ <<j0, i0>> \in unsaved' \/ dbMsg'[j0][i0] # "pending"
  <2>1. PICK ok \in BOOLEAN :
          /\ updateMessage(j0, i0, Outcome(r0), ok)
          /\ unsaved' = IF ok /\ dbJob[j0] # "none" THEN unsaved ELSE unsaved \cup {<<j0, i0>>}
    BY DEF Persist
  <2>2. Outcome(r0) # "pending"
    BY DEF Outcome
  <2>3. CASE ok /\ dbJob[j0] # "none"
    <3>1. dbMsg' = [dbMsg EXCEPT ![j0][i0] = Outcome(r0)] /\ unsaved' = unsaved
      BY <2>1, <2>3 DEF updateMessage
    <3> PICK o : o = Outcome(r0)
      OBVIOUS
    <3>2. dbMsg' = [dbMsg EXCEPT ![j0][i0] = o] /\ o # "pending"
      BY <2>2, <3>1
    <3>. QED
      BY ONLY <1>t, <1>i, <3>1, <3>2
  <2>4. CASE ~(ok /\ dbJob[j0] # "none")
    BY <2>1, <2>4 DEF updateMessage
  <2>. QED
    BY <2>3, <2>4
<1>7. ASSUME NEW j \in Jobs, NEW i \in Idx, ~(j = j0 /\ i = i0)
      PROVE  Kept(j, i)
  <2>1. \A k \in Kinds : pc[<<j, k>>] = "persist" /\ Item(<<j, k>>) = i => pc'[<<j, k>>] = "persist"
    BY <1>3, <1>7
  <2>. QED
    BY <1>u, <1>2, <1>4, <1>5, <1>6, <1>7, <2>1 DEF Kept
<1>8. ASSUME <<j0, i0>> \notin unsaved'
      PROVE  Hands(j0, i0)'
  <2>1. Hands(j0, i0)
    BY <1>6, <1>8, <1>i DEF HandsInv
  <2>2. dbMsg'[j0][i0] # "pending" /\ sends'[j0][i0] = sends[j0][i0]
    BY <1>6, <1>8, <1>u
  <2>. QED
    BY <1>4, <1>5, <1>i, <2>1, <2>2 DEF Hands, Kinds
<1>9. ASSUME NEW j \in Jobs, NEW i \in Idx, <<j, i>> \notin unsaved'
      PROVE  Hands(j, i)'
  <2>1. CASE j = j0 /\ i = i0
    BY <1>8, <1>9, <2>1
  <2>2. CASE ~(j = j0 /\ i = i0)
    BY <1>6, <1>7, <1>9, <2>2, KeptHands DEF HandsInv
  <2>. QED
    BY <2>1, <2>2
<1>. QED
  BY <1>9 DEF HandsInv

\* What the resumer reads as pending was sent to by the submit run at most, which
\* is then no longer to send.
LEMMA LoadRowsHands ==
    ASSUME SendInv, HandsInv, NEW j0 \in Jobs, LoadRows(j0)
    PROVE  HandsInv'
<1>t. TypeOK /\ ResumerInv /\ rows \in [Jobs -> [Idx -> MsgStatus]] /\ sends \in [Jobs -> [Idx -> Nat]]
  BY DEF SendInv, TypeOK
<1>u. UNCHANGED <<dbMsg, sends, unsaved, pc, todo, heads>>
  BY DEF LoadRows, dbVars, runVars, history
<1>1. j0 \in heads /\ pc[<<j0, "resume">>] = "idle" /\ toRead' = toRead \ {j0}
      /\ rows' = [rows EXCEPT ![j0] = dbMsg[j0]]
  BY <1>t DEF LoadRows, ResumerInv
<1>2. \A j \in Jobs, k \in Kinds, i \in Idx : ToSend(<<j, k>>, i)' <=> ToSend(<<j, k>>, i)
  BY <1>u DEF ToSend, Sending, Item
<1>3. \A j \in Jobs, k \in Kinds : Item(<<j, k>>)' = Item(<<j, k>>)
  BY <1>u DEF Item
<1>4. \A j \in Jobs, i \in Idx : Pending(j, i)' =>
        Pending(j, i) \/ (j = j0 /\ dbMsg[j][i] = "pending")
  BY <1>t, <1>u, <1>1 DEF Pending
<1>5. \A j \in Jobs, i \in Idx : InFlight(j, i)' <=> InFlight(j, i)
  BY <1>u, <1>3 DEF InFlight
<1>6. ASSUME NEW i \in Idx, <<j0, i>> \notin unsaved
      PROVE  Hands(j0, i)'
  <2>1. Hands(j0, i) /\ sends[j0][i] \in Nat
    BY <1>6, <1>t DEF HandsInv
  <2>2. ~ToSend(<<j0, "resume">>, i)
    BY <1>1 DEF ToSend, Sending
  <2>3. ASSUME dbMsg[j0][i] = "pending"
        PROVE  /\ sends[j0][i] <= 1
               /\ ToSend(<<j0, "submit">>, i) => sends[j0][i] = 0
    <3>1. sends[j0][i] # 2
      BY <1>1, <2>1, <2>3 DEF Hands, Kinds
    <3>2. sends[j0][i] <= 2
      BY <2>1 DEF Hands
    <3>3. ASSUME ToSend(<<j0, "submit">>, i)
          PROVE  ~InFlight(j0, i)
      BY <1>1, <3>3 DEF ToSend, InFlight, Kinds
    <3>4. sends[j0][i] >= 1 => InFlight(j0, i)
      BY <2>1, <2>3 DEF Hands
    <3>. QED
      BY <2>1, <3>1, <3>2, <3>3, <3>4
  <2>. QED
    BY <1>u, <1>2, <1>3, <1>4, <1>5, <2>1, <2>2, <2>3 DEF Hands, Kinds
<1>7. ASSUME NEW j \in Jobs, NEW i \in Idx, j # j0
      PROVE  Kept(j, i)
  BY <1>u, <1>2, <1>3, <1>4, <1>7 DEF Kept
<1>8. ASSUME NEW j \in Jobs, NEW i \in Idx, <<j, i>> \notin unsaved'
      PROVE  Hands(j, i)'
  <2>1. CASE j = j0
    BY <1>u, <1>6, <1>8, <2>1
  <2>2. CASE j # j0
    BY <1>u, <1>7, <1>8, <2>2, KeptHands DEF HandsInv
  <2>. QED
    BY <2>1, <2>2
<1>. QED
  BY <1>8 DEF HandsInv

\* A new job was sent to nobody, and is in its first hand.
LEMMA SubmitHands ==
    ASSUME SendInv, HandsInv, NEW j0 \in Jobs, SubmitSave(j0) \/ SubmitRegister(j0)
    PROVE  HandsInv'
<1>t. /\ TypeOK /\ UnusedInv /\ todo \in [Runs -> SUBSET Idx]
      /\ pc \in [Runs -> {"idle", "saved", "check", "send", "persist", "record", "sleep", "flush", "done"}]
      /\ <<j0, "submit">> \in Runs
  BY DEF SendInv, TypeOK, Runs, Kinds
<1>u. UNCHANGED <<dbMsg, sends, unsaved, heads, toRead, rows>>
  BY DEF SubmitSave, SubmitRegister, dbVars, resumeVars, history
<1>1. \A j \in Jobs, k \in Kinds : ~(j = j0 /\ k = "submit") =>
        pc'[<<j, k>>] = pc[<<j, k>>] /\ todo'[<<j, k>>] = todo[<<j, k>>]
  BY <1>t DEF SubmitSave, SubmitRegister, Runs
<1>2. \A j \in Jobs, k \in Kinds, i \in Idx : ~(j = j0 /\ k = "submit") =>
        (ToSend(<<j, k>>, i)' => ToSend(<<j, k>>, i)) /\ Item(<<j, k>>)' = Item(<<j, k>>)
  BY <1>1 DEF ToSend, Sending, Item
<1>3. \A j \in Jobs, i \in Idx : Pending(j, i)' => Pending(j, i)
  BY <1>u DEF Pending
<1>4. ASSUME NEW j \in Jobs, NEW i \in Idx, j # j0
      PROVE  Kept(j, i)
  BY <1>u, <1>1, <1>2, <1>3, <1>4 DEF Kept
<1>5. CASE SubmitSave(j0)
  <2>1. \A i \in Idx : sends'[j0][i] = 0
    BY <1>t, <1>u, <1>5 DEF UnusedInv, SubmitSave
  <2>2. \A i \in Idx : Hands(j0, i)'
    BY <2>1 DEF Hands
  <2>. QED
    BY <1>u, <1>4, <2>2, KeptHands DEF HandsInv
<1>6. CASE SubmitRegister(j0)
  <2>1. /\ pc[<<j0, "submit">>] = "saved" /\ pc'[<<j0, "submit">>] = "check" /\ todo' = todo
    BY <1>t, <1>6 DEF SubmitRegister
  <2>2. \A i \in Idx : ToSend(<<j0, "submit">>, i)' => ToSend(<<j0, "submit">>, i)
    BY <2>1 DEF ToSend, Sending
  <2>3. \A i \in Idx : Kept(j0, i)
    BY <1>u, <1>1, <1>2, <1>3, <2>1, <2>2 DEF Kept
  <2>. QED
    BY <1>u, <1>4, <2>3, KeptHands DEF HandsInv
<1>. QED
  BY <1>5, <1>6

\* A job leaves the resumer's hand for that of the run it starts.
LEMMA ResumeStarts ==
    ASSUME SendInv, ResumePublish \/ ResumeRun
    PROVE  \A j \in Jobs, i \in Idx : Kept(j, i)
<1> PICK j0 : j0 = rjob
  OBVIOUS
<1> DEFINE r0 == <<j0, "resume">>
<1>t. /\ TypeOK /\ ResumerInv /\ todo \in [Runs -> SUBSET Idx] /\ rows \in [Jobs -> [Idx -> MsgStatus]]
      /\ pc \in [Runs -> {"idle", "saved", "check", "send", "persist", "record", "sleep", "flush", "done"}]
  BY DEF SendInv, TypeOK
<1>1. j0 \in Jobs /\ j0 \in heads \ toRead /\ pc[r0] = "idle" /\ r0 \in Runs
  BY <1>t DEF ResumePublish, ResumeRun, ResumerInv, TypeOK, Runs, Kinds
<1>u. UNCHANGED <<dbMsg, sends, toRead>>
  BY DEF ResumePublish, ResumeRun, Handled, dbVars, history
<1>2. \A j \in Jobs, k \in Kinds : ~(j = j0 /\ k = "resume") =>
        pc'[<<j, k>>] = pc[<<j, k>>] /\ todo'[<<j, k>>] = todo[<<j, k>>]
  BY <1>t DEF ResumePublish, ResumeRun, Runs
<1>3. \A j \in Jobs, k \in Kinds, i \in Idx : ~(j = j0 /\ k = "resume") =>
        (ToSend(<<j, k>>, i)' => ToSend(<<j, k>>, i)) /\ Item(<<j, k>>)' = Item(<<j, k>>)
  BY <1>2 DEF ToSend, Sending, Item
<1>4. \A j \in Jobs, i \in Idx : Pending(j, i)' => Pending(j, i)
  BY <1>t, <1>u, <1>1 DEF ResumePublish, ResumeRun, Handled, Pending
<1>5. \A i \in Idx : ToSend(r0, i)' => Pending(j0, i)
  <2>1. CASE ResumePublish
    BY <1>1, <2>1 DEF ResumePublish, ToSend, Sending
  <2>2. CASE ResumeRun
    <3>1. todo'[r0] = PendingOf(rows[j0])
      BY <1>t, <2>2 DEF ResumeRun, ResumerInv
    <3>. QED
      BY <1>1, <3>1 DEF ToSend, PendingOf, Pending
  <2>. QED
    BY <2>1, <2>2
<1>6. ASSUME NEW j \in Jobs, NEW i \in Idx, NEW k \in Kinds
      PROVE  /\ pc[<<j, k>>] = "persist" /\ Item(<<j, k>>) = i =>
                   pc'[<<j, k>>] = "persist" /\ Item(<<j, k>>)' = i
             /\ ToSend(<<j, k>>, i)' => ToSend(<<j, k>>, i) \/ (k = "resume" /\ Pending(j, i))
  <2>1. CASE j = j0 /\ k = "resume"
    BY <1>1, <1>5, <2>1
  <2>2. CASE ~(j = j0 /\ k = "resume")
    BY <1>2, <1>3, <2>2
  <2>. QED
    BY <2>1, <2>2
<1>. QED
  BY <1>u, <1>4, <1>6 DEF Kept

\* The other steps of the resumer drop what they have read.
LEMMA ResumeKept ==
    ASSUME SendInv,
           \/ markInterrupted \/ LoadHeads \/ LoadFails \/ ResumeEnds \/ waitReady \/ ResumeGiveUp
           \/ \E j \in Jobs : ResumeComplete(j) \/ ResumeWait(j)
    PROVE  \A j \in Jobs, i \in Idx : Kept(j, i)
<1>t. rows \in [Jobs -> [Idx -> MsgStatus]]
  BY DEF SendInv, TypeOK
<1>1. UNCHANGED <<dbMsg, sends, pc, todo>>
  BY DEF markInterrupted, LoadHeads, LoadFails, ResumeEnds, waitReady, ResumeGiveUp, ResumeComplete,
     ResumeWait, dbVars, runVars, history
<1>2. \A j \in Jobs : j \in heads' \ toRead' => j \in heads \ toRead /\ rows'[j] = rows[j]
  <2>1. CASE markInterrupted \/ waitReady \/ LoadHeads \/ LoadFails \/ ResumeEnds
    BY <2>1 DEF markInterrupted, waitReady, LoadHeads, LoadFails, ResumeEnds
  <2>2. CASE ResumeGiveUp
    BY <1>t, <2>2 DEF ResumeGiveUp, Handled
  <2>3. ASSUME NEW j0 \in Jobs, ResumeComplete(j0) \/ ResumeWait(j0)
        PROVE  \A j \in Jobs : j \in heads' \ toRead' => j \in heads \ toRead /\ rows'[j] = rows[j]
    BY <1>t, <2>3 DEF ResumeComplete, ResumeWait, Handled
  <2>. QED
    BY <2>1, <2>2, <2>3
<1>. QED
  BY <1>1, <1>2, QuietKept

\* An exit waits for the runs, and a crash leaves what they were to write unsaved.
LEMMA ExitHands ==
    ASSUME SendInv, HandsInv, Exit \/ Crash
    PROVE  HandsInv'
<1>1. /\ UNCHANGED <<dbMsg, sends>> /\ heads' = {} /\ unsaved \subseteq unsaved'
      /\ \A r \in Runs : pc'[r] = "idle"
  BY DEF Exit, Crash, MemoryLost, dbVars, history
<1>2. ASSUME NEW j \in Jobs, NEW i \in Idx, InFlight(j, i)
      PROVE  <<j, i>> \in unsaved'
  <2>1. PICK k \in Kinds : pc[<<j, k>>] = "persist" /\ Item(<<j, k>>) = i
    BY <1>2 DEF InFlight
  <2>2. <<j, k>> \in Runs /\ <<j, k>>[1] = j
    BY DEF Runs
  <2>3. ~Exit
    BY <2>1, <2>2 DEF Exit, Live
  <2>. QED
    BY <2>1, <2>2, <2>3 DEF Crash
<1>3. ASSUME NEW j \in Jobs, NEW i \in Idx, <<j, i>> \notin unsaved'
      PROVE  Hands(j, i)'
  <2>1. Hands(j, i) /\ ~InFlight(j, i)
    BY <1>1, <1>2, <1>3 DEF HandsInv
  <2>2. \A k \in Kinds : ~ToSend(<<j, k>>, i)'
    BY <1>1 DEF ToSend, Sending, Runs
  <2>3. ~Pending(j, i)'
    BY <1>1 DEF Pending
  <2>4. sends[j][i] \in Nat
    BY DEF SendInv, TypeOK
  <2>5. /\ sends[j][i] <= 2
        /\ dbMsg[j][i] = "pending" => ~(sends[j][i] >= 1)
    BY <2>1 DEF Hands
  <2>6. dbMsg'[j][i] = dbMsg[j][i] /\ sends'[j][i] = sends[j][i]
    BY <1>1
  <2>7. ~(sends[j][i] >= 1) => ~(sends[j][i] = 2)
    BY <2>4
  <2>. QED
    BY <2>2, <2>3, <2>5, <2>6, <2>7 DEF Hands, Kinds
<1>. QED
  BY <1>3 DEF HandsInv

\* HandsInv holds initially, and every step keeps it.
LEMMA InitHands == Init => HandsInv
<1> SUFFICES ASSUME Init, NEW j \in Jobs, NEW i \in Idx PROVE Hands(j, i)
  BY DEF HandsInv
<1>1. sends[j][i] = 0
  BY DEF Init
<1>. QED
  BY <1>1 DEF Hands

LEMMA NextHands ==
    ASSUME SendInv, HandsInv, [Next]_vars
    PROVE  HandsInv'
<1> DEFINE Quiet == (\A j \in Jobs, i \in Idx : Kept(j, i)) /\ unsaved' = unsaved
<1>t. TypeOK
  BY DEF SendInv
<1>q. Quiet => HandsInv'
  BY KeptHands DEF HandsInv
<1>1. CASE \E j \in Jobs : SubmitSave(j) \/ SubmitRegister(j)
  BY <1>1, SubmitHands
<1>2. CASE \E j \in Jobs, k \in Kinds : RunStep(<<j, k>>)
  <2> PICK j \in Jobs, k \in Kinds : RunStep(<<j, k>>)
    BY <1>2
  <2>1. CASE SendText(<<j, k>>)
    BY <2>1, SendTextHands
  <2>2. CASE Persist(<<j, k>>)
    BY <2>2, PersistHands
  <2>3. CASE CheckQuit(<<j, k>>) \/ Record(<<j, k>>) \/ sleepJitter(<<j, k>>) \/ FlushJob(<<j, k>>)
    BY <1>t, <1>q, <2>3, RunKept
  <2>. QED
    BY <2>1, <2>2, <2>3 DEF RunStep
<1>3. CASE ResumeStep
  <2>1. unsaved' = unsaved
    BY <1>3 DEF ResumeStep, markInterrupted, LoadHeads, LoadRows, LoadFails, ResumeEnds, ResumeComplete,
       ResumeWait, waitReady, ResumeGiveUp, ResumePublish, ResumeRun, history
  <2>2. ASSUME NEW j \in Jobs, LoadRows(j)
        PROVE  HandsInv'
    BY <2>2, LoadRowsHands
  <2>3. CASE ResumePublish \/ ResumeRun
    BY <1>q, <2>1, <2>3, ResumeStarts
  <2>4. CASE \/ markInterrupted \/ LoadHeads \/ LoadFails \/ ResumeEnds \/ waitReady \/ ResumeGiveUp
             \/ \E j \in Jobs : ResumeComplete(j) \/ ResumeWait(j)
    BY <1>q, <2>1, <2>4, ResumeKept
  <2>. QED
    BY <1>3, <2>2, <2>3, <2>4 DEF ResumeStep
<1>4. CASE Exit \/ Crash
  BY <1>4, ExitHands
<1>5. CASE \/ \E s \in Sessions : SessionChange(s)
           \/ StopSessions \/ CloseQuit \/ Restart \/ UNCHANGED vars
  <2>1. UNCHANGED <<dbMsg, sends, pc, todo, heads, toRead, rows, unsaved>>
    BY <1>5 DEF SessionChange, StopSessions, CloseQuit, Restart, vars, dbVars, runVars, resumeVars, history
  <2>. QED
    BY <1>q, <2>1, QuietKept
<1>. QED
  BY <1>1, <1>2, <1>3, <1>4, <1>5 DEF Next

\* The whole invariant holds initially.
LEMMA InitShown == Init => IInv
<1> SUFFICES ASSUME Init PROVE IInv
  OBVIOUS
<1>1. /\ heads = {} /\ rpc = "start"
      /\ \A j \in Jobs : jobs[j] = "none"
      /\ \A j \in Jobs, k \in Kinds : pc[<<j, k>>] = "idle"
  BY DEF Init, Runs
<1>2. ShownInv /\ AgreeInv
  BY <1>1 DEF ShownInv, AgreeInv, Shows
<1>. QED
  BY <1>2, InitInv, InitHands DEF IInv

\* Every step keeps it.
LEMMA NextShown ==
    ASSUME IInv, [Next]_vars
    PROVE  IInv'
<1>t. SendInv /\ ShownInv /\ AgreeInv /\ HandsInv
  BY DEF IInv
<1> SUFFICES ShownInv' /\ AgreeInv'
  BY <1>t, NextInv, NextHands DEF IInv
<1>1. CASE \E j \in Jobs : SubmitSave(j) \/ SubmitRegister(j)
  BY <1>t, <1>1, SubmitSaveShown, SubmitRegisterShown
<1>2. CASE \E j \in Jobs, k \in Kinds : RunStep(<<j, k>>)
  BY <1>t, <1>2, CheckQuitShown, SendTextShown, PersistShown, RecordShown, sleepJitterShown,
     FlushJobShown DEF RunStep
<1>3. CASE ResumeStep
  <2>1. CASE \E j \in Jobs : LoadRows(j) \/ ResumeComplete(j) \/ ResumeWait(j)
    BY <1>t, <2>1, LoadRowsShown, ResumeCompleteShown, ResumeWaitShown
  <2>2. CASE \/ markInterrupted \/ LoadHeads \/ LoadFails \/ ResumeEnds
             \/ waitReady \/ ResumeGiveUp \/ ResumePublish \/ ResumeRun
    BY <1>t, <2>2, markInterruptedShown, LoadHeadsShown, LoadFailsShown, ResumeEndsShown,
       waitReadyShown, ResumeGiveUpShown, ResumePublishShown, ResumeRunShown
  <2>. QED
    BY <1>3, <2>1, <2>2 DEF ResumeStep
<1>4. CASE UNCHANGED <<dbVars, runVars, resumeVars, history>>
  BY <1>t, <1>4, ProcessShown
<1>5. CASE Exit \/ Crash
  BY <1>5, MemoryLostShown DEF Exit, Crash
<1>6. CASE Restart
  BY <1>t, <1>6, RestartShown
<1>7. CASE (\E s \in Sessions : SessionChange(s)) \/ StopSessions \/ CloseQuit \/ UNCHANGED vars
  BY <1>4, <1>7 DEF SessionChange, StopSessions, CloseQuit, vars
<1>. QED
  BY <1>1, <1>2, <1>3, <1>5, <1>6, <1>7 DEF Next

(***************************************************************************)
(* The inductive invariant holds of every behaviour of the bulk sender.    *)
(***************************************************************************)
THEOREM Invariance == Spec => []IInv
<1>1. Init => IInv
  BY InitShown
<1>2. IInv /\ [Next]_vars => IInv'
  BY NextShown
<1>. QED
  BY <1>1, <1>2, PTL DEF Spec

(***************************************************************************)
(* Every variable of the bulk sender keeps its type.                       *)
(***************************************************************************)
THEOREM TypeCorrect == Spec => []TypeOK
<1>1. IInv => TypeOK
  BY DEF IInv, SendInv
<1>. QED
  BY <1>1, Invariance, PTL

(***************************************************************************)
(* However many crashes, stops, resumes and failed database calls: a       *)
(* recipient is sent to once, unless the result of an attempt was never    *)
(* written or the resumer took over a job of its own process.              *)
(***************************************************************************)
THEOREM NeverTwice == Spec => []NoDuplicateSend
<1>1. IInv => NoDuplicateSend
  BY DEF IInv, SendInv
<1>. QED
  BY <1>1, Invariance, PTL

(***************************************************************************)
(* The rows tell the truth to the next resume, and of a completed job.     *)
(***************************************************************************)
THEOREM RowsTellTrue == Spec => []RowsTell
<1>1. IInv => RowsTell
  BY DEF IInv, SendInv, RowsTell
<1>. QED
  BY <1>1, Invariance, PTL

(***************************************************************************)
(* The race between submit and the resumer costs a recipient one message   *)
(* more at most, whatever exits and resumes come after it.                 *)
(***************************************************************************)
THEOREM NeverThrice == Spec => []OneExtraAtMost
<1>1. IInv => OneExtraAtMost
  <2> SUFFICES ASSUME IInv, NEW j \in Jobs, NEW i \in Idx, <<j, i>> \notin unsaved
               PROVE  ~(sends[j][i] > 2)
    BY DEF OneExtraAtMost
  <2>1. Hands(j, i) /\ sends[j][i] \in Nat
    BY DEF IInv, HandsInv, SendInv, TypeOK
  <2>. QED
    BY <2>1 DEF Hands
<1>. QED
  BY <1>1, Invariance, PTL

-------------------------------------------------------------------------------
(***************************************************************************)
(* A result a client can see is in the row already.                        *)
(***************************************************************************)
LEMMA ReportedIsRow ==
    ASSUME IInv, NEW j \in Jobs, NEW i \in Idx, ~Excused(j, i), View(j)[i] # "pending"
    PROVE  /\ dbMsg[j][i] = View(j)[i]
           /\ \A k \in Kinds : Sending(<<j, k>>) /\ pc[<<j, k>>] # "record" => i \notin todo[<<j, k>>]
<1>t. TypeOK /\ RunInv /\ ShownInv /\ AgreeInv
  BY DEF IInv, SendInv
<1>1. \A k \in Kinds : Shows(j, k) =>
        /\ i \in todo[<<j, k>>] => results[<<j, k>>][i] = "pending"
        /\ dbMsg[j][i] = IF pc[<<j, k>>] = "record" /\ i = Item(<<j, k>>)
                         THEN Outcome(<<j, k>>) ELSE results[<<j, k>>][i]
  BY <1>t DEF AgreeInv
<1>2. \A k \in Kinds : pc[<<j, k>>] = "record" =>
        Item(<<j, k>>) \in todo[<<j, k>>] /\ Shows(j, k)
  BY <1>t, ItemIn DEF RunInv, Sending, Shows, Runs
<1>3. dbMsg[j][i] = View(j)[i]
  <2>1. CASE jobs[j] = "none"
    BY <2>1 DEF View
  <2>2. CASE jobs[j] # "none"
    <3>1. jobs[j] \in Kinds /\ Shows(j, jobs[j]) /\ View(j) = results[<<j, jobs[j]>>]
      BY <1>t, <2>2 DEF TypeOK, Kinds, ShownInv, View
    <3>. QED
      BY <1>1, <1>2, <3>1
  <2>. QED
    BY <2>1, <2>2
<1>4. ASSUME NEW k \in Kinds, Sending(<<j, k>>), pc[<<j, k>>] # "record", i \in todo[<<j, k>>]
      PROVE  FALSE
  <2>1. Shows(j, k) /\ results[<<j, k>>][i] = "pending"
    BY <1>1, <1>4 DEF Sending, Shows
  <2>. QED
    BY <1>1, <1>3, <1>4, <2>1
<1>. QED
  BY <1>3, <1>4

\* Rows are written by Persist, and objects enter the map before they record.
LEMMA OtherSteps ==
    ASSUME SendInv, [Next]_vars
    PROVE  \/ \E j0 \in Jobs, k0 \in Kinds : Persist(<<j0, k0>>)
           \/ /\ dbMsg' = dbMsg
              /\ \A j \in Jobs, k \in Kinds : pc'[<<j, k>>] = "record" =>
                    pc[<<j, k>>] = "record" /\ todo'[<<j, k>>] = todo[<<j, k>>]
              /\ \A j \in Jobs : jobs'[j] \in {jobs[j], "none"} \/ pc'[<<j, jobs'[j]>>] # "record"
<1> DEFINE Quiet == /\ dbMsg' = dbMsg
                    /\ \A j \in Jobs, k \in Kinds : pc'[<<j, k>>] = "record" =>
                          pc[<<j, k>>] = "record" /\ todo'[<<j, k>>] = todo[<<j, k>>]
                    /\ \A j \in Jobs : jobs'[j] \in {jobs[j], "none"} \/ pc'[<<j, jobs'[j]>>] # "record"
<1>t. /\ TypeOK /\ ResumerInv
      /\ pc \in [Runs -> {"idle", "saved", "check", "send", "persist", "record", "sleep", "flush", "done"}]
  BY DEF SendInv, TypeOK
<1>1. ASSUME NEW j0 \in Jobs, SubmitSave(j0)
      PROVE  Quiet
  BY <1>t, <1>1 DEF SubmitSave, TypeOK, Runs
<1>2. ASSUME NEW j0 \in Jobs, SubmitRegister(j0)
      PROVE  Quiet
  BY <1>t, <1>2 DEF SubmitRegister, Runs, Kinds, dbVars
<1>3. ASSUME NEW j0 \in Jobs, NEW k0 \in Kinds, \/ CheckQuit(<<j0, k0>>) \/ SendText(<<j0, k0>>)
             \/ sleepJitter(<<j0, k0>>) \/ FlushJob(<<j0, k0>>)
      PROVE  Quiet
  <2>1. /\ pc'[<<j0, k0>>] \in {"flush", "send", "persist", "check", "done"}
        /\ \A j \in Jobs, k \in Kinds : ~(j = j0 /\ k = k0) => pc'[<<j, k>>] = pc[<<j, k>>]
    BY <1>t, <1>3 DEF CheckQuit, SendText, sleepJitter, FlushJob, Finish, Runs
  <2>. QED
    BY <1>3, <2>1 DEF CheckQuit, SendText, sleepJitter, FlushJob, dbVars
<1>4. ASSUME NEW j0 \in Jobs, NEW k0 \in Kinds, Record(<<j0, k0>>)
      PROVE  Quiet
  <2>1. /\ pc'[<<j0, k0>>] \in {"flush", "sleep"}
        /\ \A j \in Jobs, k \in Kinds : ~(j = j0 /\ k = k0) =>
              pc'[<<j, k>>] = pc[<<j, k>>] /\ todo'[<<j, k>>] = todo[<<j, k>>]
    BY <1>t, <1>4 DEF Record, Finish, TypeOK, Runs
  <2>. QED
    BY <1>4, <2>1 DEF Record, dbVars
<1>5. CASE \/ markInterrupted \/ LoadHeads \/ LoadFails \/ ResumeEnds
           \/ \E j \in Jobs : LoadRows(j) \/ ResumeComplete(j) \/ ResumeWait(j)
           \/ waitReady \/ ResumeGiveUp
  BY <1>5 DEF markInterrupted, LoadHeads, LoadFails, ResumeEnds, LoadRows, ResumeComplete,
     ResumeWait, waitReady, ResumeGiveUp, dbVars, runVars
<1>6. CASE ResumePublish
  <2>1. rjob \in Jobs /\ pc[<<rjob, "resume">>] = "idle"
    BY <1>t, <1>6 DEF ResumePublish, ResumerInv, TypeOK
  <2>. QED
    BY <1>t, <1>6, <2>1 DEF ResumePublish, TypeOK, Runs, dbVars
<1>7. CASE ResumeRun
  BY <1>t, <1>7 DEF ResumeRun, Runs
<1>8. CASE \/ \E s \in Sessions : SessionChange(s)
           \/ StopSessions \/ CloseQuit \/ Restart \/ UNCHANGED vars
  BY <1>8 DEF SessionChange, StopSessions, CloseQuit, Restart, vars, dbVars, runVars
<1>9. CASE Exit \/ Crash
  BY <1>9 DEF Exit, Crash, MemoryLost, Runs, dbVars
<1>10. CASE ResumeStep
  BY <1>5, <1>6, <1>7, <1>10 DEF ResumeStep
<1>11. CASE \E j0 \in Jobs, k0 \in Kinds : RunStep(<<j0, k0>>)
  BY <1>3, <1>4, <1>11 DEF RunStep
<1>. QED
  BY <1>1, <1>2, <1>8, <1>9, <1>10, <1>11 DEF Next

\* Nothing that excuses a recipient is forgotten.
LEMMA ExcusesStay ==
    ASSUME [Next]_vars
    PROVE  unsaved \subseteq unsaved' /\ raced \subseteq raced'
<1> DEFINE Stay == unsaved \subseteq unsaved' /\ raced \subseteq raced'
<1>1. ASSUME NEW j \in Jobs, SubmitSave(j) \/ SubmitRegister(j)
      PROVE  Stay
  BY <1>1 DEF SubmitSave, SubmitRegister, history
<1>2. ASSUME NEW j \in Jobs, NEW k \in Kinds, RunStep(<<j, k>>)
      PROVE  Stay
  <2>1. CASE Persist(<<j, k>>)
    BY <2>1 DEF Persist
  <2>2. CASE ~Persist(<<j, k>>)
    BY <1>2, <2>2 DEF RunStep, CheckQuit, SendText, Record, sleepJitter, FlushJob, history
  <2>. QED
    BY <2>1, <2>2
<1>3. CASE ResumeStep
  <2>1. CASE LoadHeads
    BY <2>1 DEF LoadHeads
  <2>2. CASE ~LoadHeads
    BY <1>3, <2>2 DEF ResumeStep, markInterrupted, LoadRows, LoadFails, ResumeEnds, ResumeComplete,
       ResumeWait, waitReady, ResumeGiveUp, ResumePublish, ResumeRun, history
  <2>. QED
    BY <2>1, <2>2
<1>4. CASE \/ \E s \in Sessions : SessionChange(s)
           \/ StopSessions \/ CloseQuit \/ Exit \/ Crash \/ Restart \/ UNCHANGED vars
  BY <1>4 DEF SessionChange, StopSessions, CloseQuit, Exit, Crash, Restart, vars, history
<1>. QED
  BY <1>1, <1>2, <1>3, <1>4 DEF Next

\* No step takes back what it reported.
LEMMA StepKeepsReported ==
    ASSUME IInv, IInv', [Next]_vars, NEW j \in Jobs, NEW i \in Idx,
           View(j)[i] # "pending", ~Excused(j, i)'
    PROVE  View(j)'[i] = View(j)[i]
<1>t. /\ TypeOK /\ RunInv /\ ShownInv /\ AgreeInv /\ SendInv
      /\ TypeOK' /\ RunInv' /\ ShownInv' /\ AgreeInv'
  BY DEF IInv, SendInv
<1>1. ~Excused(j, i)
  BY <1>t, ExcusesStay DEF Excused
<1>2. /\ dbMsg[j][i] = View(j)[i]
      /\ \A k \in Kinds : Sending(<<j, k>>) /\ pc[<<j, k>>] # "record" => i \notin todo[<<j, k>>]
  BY <1>1, ReportedIsRow
<1>3. /\ dbMsg'[j][i] = dbMsg[j][i]
      /\ \A k \in Kinds : jobs'[j] = k /\ pc'[<<j, k>>] = "record" /\ i = Item(<<j, k>>)' =>
            jobs[j] = k /\ pc[<<j, k>>] = "record" /\ i \in todo[<<j, k>>]
  <2>1. ASSUME NEW k \in Kinds, pc'[<<j, k>>] = "record", i = Item(<<j, k>>)'
        PROVE  i \in todo'[<<j, k>>]
    <3>1. todo'[<<j, k>>] # {} /\ todo'[<<j, k>>] \in SUBSET Idx
      <4>1. <<j, k>> \in Runs /\ todo' \in [Runs -> SUBSET Idx]
        BY <1>t DEF Runs, TypeOK
      <4>2. Sending(<<j, k>>)'
        BY <2>1 DEF Sending
      <4>3. todo'[<<j, k>>] # {}
        BY <1>t, <4>2 DEF RunInv
      <4>. QED
        BY <4>1, <4>3
    <3>. QED
      BY <2>1, <3>1, FirstIn DEF Item
  <2>2. CASE \E j0 \in Jobs, k0 \in Kinds : Persist(<<j0, k0>>)
    <3>1. PICK j0 \in Jobs, k0 \in Kinds : Persist(<<j0, k0>>)
      BY <2>2
    <3>2. /\ pc[<<j0, k0>>] = "persist" /\ pc' = [pc EXCEPT ![<<j0, k0>>] = "record"]
          /\ UNCHANGED <<jobs, todo, results>>
          /\ dbMsg' \in {dbMsg, [dbMsg EXCEPT ![j0][Item(<<j0, k0>>)] = Outcome(<<j0, k0>>)]}
      BY <3>1 DEF Persist, updateMessage
    <3>3. Item(<<j0, k0>>) \in todo[<<j0, k0>>]
      BY <1>t, <3>2, ItemIn DEF RunInv, Sending, Runs
    <3>4. ~(j = j0 /\ i = Item(<<j0, k0>>)) /\ (j = j0 => i \notin todo[<<j0, k0>>])
      BY <1>2, <3>2, <3>3 DEF Sending
    <3>5. dbMsg \in [Jobs -> [Idx -> MsgStatus]]
          /\ pc \in [Runs -> {"idle", "saved", "check", "send", "persist", "record", "sleep", "flush", "done"}]
      BY <1>t DEF TypeOK
    <3>6. dbMsg'[j][i] = dbMsg[j][i]
      <4> DEFINE i0 == Item(<<j0, k0>>)
                 o  == Outcome(<<j0, k0>>)
      <4>1. i0 = Item(<<j0, k0>>) /\ o = Outcome(<<j0, k0>>)
        OBVIOUS
      <4> HIDE DEF i0, o
      <4>. QED
        BY <3>2, <3>4, <3>5, <4>1
    <3>7. ASSUME NEW k \in Kinds, jobs'[j] = k, pc'[<<j, k>>] = "record", i = Item(<<j, k>>)'
          PROVE  jobs[j] = k /\ pc[<<j, k>>] = "record" /\ i \in todo[<<j, k>>]
      <4>1. i \in todo[<<j, k>>] /\ Item(<<j, k>>)' = Item(<<j, k>>)
        BY <2>1, <3>2, <3>7 DEF Item
      <4>2. ~(j = j0 /\ k = k0)
        BY <3>4, <4>1
      <4>. QED
        BY <3>2, <3>5, <3>7, <4>1, <4>2 DEF Runs
    <3>. QED
      BY <3>6, <3>7
  <2>3. CASE ~\E j0 \in Jobs, k0 \in Kinds : Persist(<<j0, k0>>)
    <3>1. /\ dbMsg' = dbMsg
          /\ \A k \in Kinds : pc'[<<j, k>>] = "record" =>
                    pc[<<j, k>>] = "record" /\ todo'[<<j, k>>] = todo[<<j, k>>]
          /\ jobs'[j] \in {jobs[j], "none"} \/ pc'[<<j, jobs'[j]>>] # "record"
      BY <1>t, <2>3, OtherSteps
    <3>. QED
      BY <2>1, <3>1 DEF Kinds
  <2>. QED
    BY <2>2, <2>3
<1>4. CASE jobs'[j] = "none"
  BY <1>2, <1>3, <1>4 DEF View
<1>5. CASE jobs'[j] # "none"
  <2>0. jobs'[j] \in Kinds
    BY <1>t, <1>5 DEF TypeOK, Kinds
  <2> PICK k \in Kinds : k = jobs'[j]
    BY <2>0
  <2>1. k = jobs'[j] /\ View(j)' = results'[<<j, k>>] /\ Shows(j, k)'
    BY <1>t, <1>5 DEF View, ShownInv, Shows
  <2>2. ~(pc'[<<j, k>>] = "record" /\ i = Item(<<j, k>>)')
    <3> SUFFICES ASSUME pc'[<<j, k>>] = "record", i = Item(<<j, k>>)'
                 PROVE  FALSE
      OBVIOUS
    <3>1. jobs[j] = k /\ pc[<<j, k>>] = "record" /\ i \in todo[<<j, k>>]
      BY <1>3, <2>1
    <3>2. Shows(j, k) /\ View(j) = results[<<j, k>>]
      BY <2>1, <3>1 DEF Shows, View, Kinds
    <3>. QED
      BY <1>t, <1>1, <2>1, <3>1, <3>2 DEF AgreeInv
  <2>3. dbMsg'[j][i] = results'[<<j, k>>][i]
    BY <1>t, <2>1, <2>2 DEF AgreeInv, Shows
  <2>. QED
    BY <1>2, <1>3, <2>1, <2>3
<1>. QED
  BY <1>4, <1>5

(***************************************************************************)
(* What a client was told of a recipient stays, across cleanup, crash,     *)
(* restart and resume, for any number of jobs and recipients.              *)
(***************************************************************************)
THEOREM ReportedForGood == Spec => ReportedStays
<1>1. IInv /\ IInv' /\ [Next]_vars =>
        [\A j \in Jobs, i \in Idx :
           View(j)[i] # "pending" => View(j)'[i] = View(j)[i] \/ Excused(j, i)']_vars
  BY StepKeepsReported
<1>2. Spec => []IInv
  BY Invariance
<1>. QED
  BY <1>1, <1>2, PTL DEF Spec, ReportedStays
===============================================================================
