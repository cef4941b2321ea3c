---------------------------- MODULE QueueStatements ----------------------------
(***************************************************************************)
(* The transactions on the rows of one document, statement by statement.   *)
(* JobQueue takes each database function as one step; here a session (a    *)
(* connection of some worker or of the API) runs one transaction at a      *)
(* time, other sessions run between its statements, and it may roll back.  *)
(*                                                                         *)
(* Postgres is external and runs at READ COMMITTED.  A row has a committed *)
(* value and, while a session has written it or locked it, a new one that  *)
(* only this session sees; a statement sees what is committed when it      *)
(* starts and what its own transaction wrote, and waits for a row that     *)
(* another session locked unless it says "skip locked".  A commit makes    *)
(* all new values of the session visible at once.                          *)
(*                                                                         *)
(* One action is one statement that can wait, or reads what others write,  *)
(* with those that follow it and touch only rows the session has locked.   *)
(* The lease, the attempts and the review items of JobQueue are left out:  *)
(* a running job has an owner (OwnedJobsAreLive), which may be any         *)
(* session, and its lease may have expired.  So are the lock of the audit  *)
(* chain, which most transactions take last, and the repairs that change   *)
(* no run and job together.  A statement that waits sees what is committed *)
(* when it goes on; a claim takes one job.                                 *)
(***************************************************************************)
EXTENDS StatusTables

CONSTANTS
    Runs,       \* pipeline run rows of the document, created on demand
    Sessions,   \* database sessions
    NoSession, NoRun

ASSUME NoSessionAssumption == NoSession \notin Sessions
ASSUME NoRunAssumption     == NoRun \notin Runs
ASSUME SlotAssumption      == "ocr" \notin Sessions /\ "metadata" \notin Sessions

VARIABLES
    run, job, inv,              \* the committed rows
    newRun, newJob, newInv,     \* the rows as their lock holder sees them
    runLock, jobLock, invLock,  \* who holds the lock of a row
    docLock,                    \* pg_advisory_xact_lock of the document
    pc,                         \* the statement a session runs next
    target                      \* the run its statements are about

committed == <<run, job, inv>>
runRows   == <<newRun, runLock>>
jobRows   == <<newJob, jobLock>>
invRow    == <<newInv, invLock>>
vars      == <<committed, runRows, jobRows, invRow, docLock, pc, target>>

(* The jobs of a run: those it was created with, and the metadata job the
   backfill of a session inserts later.                                    *)
Created  == {"ocr", "metadata"}
Slots    == Created \cup Sessions
Jobs     == Runs \X Slots
OcrJob(r)  == <<r, "ocr">>
JobsOf(r)  == {r} \X Slots
MetadataJobsOf(r) == {r} \X (Slots \ {"ocr"})

Holders == Sessions \cup {NoSession}
Steps ==
    {"idle", "create_insert", "create_inventory", "claim_run", "mirror",
     "stage_succeeded", "read_remaining", "StageAdvanced", "Succeeded",
     "stage_failed", "Failed", "failed_mirror", "cancel_siblings", "failed",
     "LeaseReleased", "backfill_select", "vision_select", "vision_inventory",
     "repair_mirror", "commit"}

InventoryRow == [lastRun: Runs \cup {NoRun}, status: RunStatuses \cup {"none"}]

TypeOK ==
    /\ run \in [Runs -> RunStatuses \cup {"none"}]
    /\ newRun \in [Runs -> RunStatuses \cup {"none"}]
    /\ job \in [Jobs -> JobStatuses \cup {"none"}]
    /\ newJob \in [Jobs -> JobStatuses \cup {"none"}]
    /\ inv \in InventoryRow /\ newInv \in InventoryRow
    /\ runLock \in [Runs -> Holders] /\ jobLock \in [Jobs -> Holders]
    /\ invLock \in Holders /\ docLock \in Holders
    /\ pc \in [Sessions -> Steps]
    /\ target \in [Sessions -> Runs \cup {NoRun}]

-----------------------------------------------------------------------------
(* READ COMMITTED. *)

SeenRun(s, r) == IF runLock[r] = s THEN newRun[r] ELSE run[r]
SeenJob(s, j) == IF jobLock[j] = s THEN newJob[j] ELSE job[j]
SeenInv(s)    == IF invLock = s THEN newInv ELSE inv

Lockable(holder, s) == holder \in {NoSession, s}

WriteRun(s, r, status) ==
    /\ newRun' = [newRun EXCEPT ![r] = status]
    /\ runLock' = [runLock EXCEPT ![r] = s]

WriteJobs(s, J, status) ==
    /\ newJob' = [j \in Jobs |-> IF j \in J THEN status ELSE newJob[j]]
    /\ jobLock' = [j \in Jobs |-> IF j \in J THEN s ELSE jobLock[j]]

WriteInv(s, row) == newInv' = row /\ invLock' = s

Goto(s, step) ==
    /\ pc' = [pc EXCEPT ![s] = step]
    /\ UNCHANGED target

GotoFor(s, step, r) ==
    /\ pc' = [pc EXCEPT ![s] = step]
    /\ target' = [target EXCEPT ![s] = r]

Release(s) ==
    /\ runLock' = [r \in Runs |-> IF runLock[r] = s THEN NoSession ELSE runLock[r]]
    /\ jobLock' = [j \in Jobs |-> IF jobLock[j] = s THEN NoSession ELSE jobLock[j]]
    /\ invLock' = IF invLock = s THEN NoSession ELSE invLock
    /\ docLock' = IF docLock = s THEN NoSession ELSE docLock
    /\ GotoFor(s, "idle", NoRun)

Commit(s) ==
    /\ pc[s] \in {"commit", "failed"}
    /\ run' = [r \in Runs |-> SeenRun(s, r)]
    /\ job' = [j \in Jobs |-> SeenJob(s, j)]
    /\ inv' = SeenInv(s)
    /\ UNCHANGED <<newRun, newJob, newInv>>
    /\ Release(s)

(* An error, a lost connection, or Postgres breaking a deadlock. *)
Rollback(s) ==
    /\ pc[s] # "idle"
    /\ newRun' = [r \in Runs |-> IF runLock[r] = s THEN run[r] ELSE newRun[r]]
    /\ newJob' = [j \in Jobs |-> IF jobLock[j] = s THEN job[j] ELSE newJob[j]]
    /\ newInv' = IF invLock = s THEN inv ELSE newInv
    /\ UNCHANGED committed
    /\ Release(s)

-----------------------------------------------------------------------------
(* Statements shared by the transactions. *)

Moves(s, r, event) ==
    /\ SeenRun(s, r) \in RunFrom(event)
    /\ RequiresNoRunningJob(event) => \A j \in JobsOf(r) : SeenJob(s, j) # "running"

(* transition_runs_tx: waits only for a row it is to change. *)
Transition(s, event) ==
    LET r == target[s]
    IN  IF Moves(s, r, event)
        THEN Lockable(runLock[r], s) /\ WriteRun(s, r, RunTo(event))
        ELSE UNCHANGED runRows

(* mirror_run_status_tx. *)
Mirror(s) ==
    LET r == target[s]
    IN  IF SeenInv(s).lastRun = r
        THEN /\ Lockable(invLock, s)
             /\ WriteInv(s, [SeenInv(s) EXCEPT !.status = SeenRun(s, r)])
        ELSE UNCHANGED invRow

MirrorStep(s) ==
    /\ \/ pc[s] \in {"mirror", "repair_mirror"} /\ Goto(s, "commit")
       \/ pc[s] = "failed_mirror" /\ Goto(s, "cancel_siblings")
    /\ Mirror(s)
    /\ UNCHANGED <<committed, runRows, jobRows, docLock>>

(* set_inventory_stage_status_tx. *)
StageStatus(s) ==
    /\ Lockable(invLock, s)
    /\ \/ /\ pc[s] = "stage_succeeded" /\ Goto(s, "read_remaining")
          /\ WriteInv(s, [SeenInv(s) EXCEPT !.lastRun = target[s]])
       \/ /\ pc[s] = "stage_failed" /\ Goto(s, "Failed")
          /\ WriteInv(s, [lastRun |-> target[s], status |-> "failed"])
    /\ UNCHANGED <<committed, runRows, jobRows, docLock>>

(* The run follows its job. *)
TransitionStep(s) ==
    /\ \/ pc[s] = "claim_run" /\ Transition(s, "Claimed") /\ Goto(s, "mirror")
       \/ /\ pc[s] \in {"StageAdvanced", "Succeeded", "LeaseReleased"}
          /\ Transition(s, pc[s]) /\ Goto(s, "mirror")
       \/ pc[s] = "Failed" /\ Transition(s, "Failed") /\ Goto(s, "failed_mirror")
    /\ UNCHANGED <<committed, jobRows, invRow, docLock>>

-----------------------------------------------------------------------------
(* create_run_with_jobs. *)

LockDocument(s, step) ==
    /\ pc[s] = "idle" /\ docLock = NoSession
    /\ docLock' = s
    /\ Goto(s, step)
    /\ UNCHANGED <<committed, runRows, jobRows, invRow>>

Active(status) == status \in ActiveRunStatuses

(* The insert waits for every run row an open transaction has written: under
   pipeline_runs_one_active_per_document_idx it may conflict or cease to.  *)
KeyInFlight(s) == \E q \in Runs : ~Lockable(runLock[q], s)

CreateInsert(s) ==
    /\ pc[s] = "create_insert"
    /\ ~KeyInFlight(s)
    /\ IF \E q \in Runs : Active(run[q])
       THEN Goto(s, "commit") /\ UNCHANGED <<runRows, jobRows>>
       ELSE \E r \in Runs, S \in (SUBSET Created) \ {{}} :
               /\ run[r] = "none" /\ runLock[r] = NoSession
               /\ WriteRun(s, r, "queued")
               /\ WriteJobs(s, {r} \X S, "queued")
               /\ GotoFor(s, "create_inventory", r)
    /\ UNCHANGED <<committed, invRow, docLock>>

CreateInventory(s) ==
    /\ pc[s] = "create_inventory"
    /\ Lockable(invLock, s)
    /\ WriteInv(s, [lastRun |-> target[s], status |-> "queued"])
    /\ Goto(s, "commit")
    /\ UNCHANGED <<committed, runRows, jobRows, docLock>>

-----------------------------------------------------------------------------
(* claim_jobs.  A job whose attempts are exhausted is failed first, in the
   same transaction.                                                       *)

(* Mutant: an earlier stage holds its successor back only while it runs. *)
EarlierStagesNotRunning(s, j) ==
    j # OcrJob(j[1]) => SeenJob(s, OcrJob(j[1])) # "running"

(* CLAIM_STAGE_ORDER_GUARD. *)
EarlierStagesResolved(s, j) ==
    j # OcrJob(j[1]) => SeenJob(s, OcrJob(j[1])) \notin ActiveJobStatuses \cup {"failed"}

ClaimJob(s) ==
    /\ pc[s] \in {"idle", "failed"}
    /\ \E j \in Jobs :
          /\ SeenJob(s, j) \in {"queued", "running"} /\ jobLock[j] = NoSession
          /\ EarlierStagesResolved(s, j)
          /\ WriteJobs(s, {j}, "running")
          /\ GotoFor(s, "claim_run", j[1])
    /\ UNCHANGED <<committed, runRows, invRow, docLock>>

-----------------------------------------------------------------------------
(* complete_job, fail_job and release_job_lease_for_cooldown: the update of
   the owned job comes first.  fail_exhausted_stale_jobs_tx starts like the
   permanent failure.                                                      *)
EndJob(s, status, step) ==
    /\ pc[s] = "idle"
    /\ \E j \in Jobs :
          /\ job[j] = "running" /\ jobLock[j] = NoSession
          /\ WriteJobs(s, {j}, status)
          /\ GotoFor(s, step, j[1])
    /\ UNCHANGED <<committed, runRows, invRow, docLock>>

CompleteJob(s) == EndJob(s, "succeeded", "stage_succeeded")
RetryJob(s)    == EndJob(s, "queued", "commit")
FailJob(s)     == EndJob(s, "failed", "stage_failed")
ReleaseJob(s)  == EndJob(s, "queued", "LeaseReleased")

(* Mutant: a job that is still queued does not count. *)
ReadRunning(s) ==
    /\ pc[s] = "read_remaining"
    /\ Goto(s, IF \E j \in JobsOf(target[s]) : SeenJob(s, j) = "running"
               THEN "StageAdvanced" ELSE "Succeeded")
    /\ UNCHANGED <<committed, runRows, jobRows, invRow, docLock>>

(* no_remaining_jobs_tx, the read on which settle_run_after_stage_tx decides
   what becomes of the run.                                                *)
ReadRemaining(s) ==
    /\ pc[s] = "read_remaining"
    /\ Goto(s, IF \E j \in JobsOf(target[s]) : SeenJob(s, j) \in ActiveJobStatuses
               THEN "StageAdvanced" ELSE "Succeeded")
    /\ UNCHANGED <<committed, runRows, jobRows, invRow, docLock>>

(* cancel_active_run_jobs_tx. *)
CancelSiblings(s) ==
    /\ pc[s] = "cancel_siblings"
    /\ LET siblings == {j \in JobsOf(target[s]) : SeenJob(s, j) \in ActiveJobStatuses}
       IN  /\ \A j \in siblings : Lockable(jobLock[j], s)
           /\ WriteJobs(s, siblings, "cancelled")
    /\ Goto(s, "failed")
    /\ UNCHANGED <<committed, runRows, invRow, docLock>>

-----------------------------------------------------------------------------
(* backfill_metadata_stage_for_ocr_only_runs. *)

(* Mutant: a run that has a metadata job is given another. *)
OcrRuns ==
    {r \in Runs :
        /\ Active(run[r]) \/ run[r] = "succeeded"
        /\ job[OcrJob(r)] # "none"
        /\ Active(run[r]) \/ \A q \in Runs : ~Active(run[q])}

(* Mutant: a run is reopened beside another that is active. *)
OcrOnlyRuns ==
    {r \in Runs :
        /\ Active(run[r]) \/ run[r] = "succeeded"
        /\ job[OcrJob(r)] # "none"
        /\ \A j \in MetadataJobsOf(r) : job[j] = "none"}

BackfillCandidates ==
    {r \in Runs :
        /\ Active(run[r]) \/ run[r] = "succeeded"
        /\ job[OcrJob(r)] # "none"
        /\ \A j \in MetadataJobsOf(r) : job[j] = "none"
        /\ Active(run[r]) \/ \A q \in Runs : ~Active(run[q])}

BeginBackfill(s) == BackfillCandidates # {} /\ LockDocument(s, "backfill_select")

(* The target is read again behind the document lock and locked, unless
   somebody holds it; its metadata job is inserted, and it is reopened if it
   had succeeded. *)
BackfillSelect(s) ==
    /\ pc[s] = "backfill_select"
    /\ IF BackfillCandidates = {}
       THEN Goto(s, "commit") /\ UNCHANGED <<runRows, jobRows>>
       ELSE \E r \in BackfillCandidates :
               IF runLock[r] # NoSession
               THEN Goto(s, "commit") /\ UNCHANGED <<runRows, jobRows>>
               ELSE /\ WriteRun(s, r, IF run[r] \in RunFrom("MetadataBackfilled")
                                      THEN RunTo("MetadataBackfilled") ELSE run[r])
                    /\ WriteJobs(s, {<<r, s>>}, "queued")
                    /\ GotoFor(s, "repair_mirror", r)
    /\ UNCHANGED <<committed, invRow, docLock>>

-----------------------------------------------------------------------------
(* requeue_vision_crashed_jobs. *)

CrashedRuns ==
    {r \in Runs : /\ run[r] = "failed" /\ job[OcrJob(r)] = "failed"
                  /\ \A q \in Runs : ~Active(run[q])}

BeginRequeue(s) == CrashedRuns # {} /\ LockDocument(s, "vision_select")

VisionSelect(s) ==
    /\ pc[s] = "vision_select"
    /\ IF CrashedRuns = {}
       THEN Goto(s, "commit") /\ UNCHANGED <<runRows, jobRows>>
       ELSE \E r \in CrashedRuns :
               LET requeued == {OcrJob(r)} \cup {j \in JobsOf(r) : job[j] = "cancelled"}
               IN  /\ runLock[r] = NoSession /\ \A j \in requeued : jobLock[j] = NoSession
                   /\ WriteRun(s, r, RunTo("VisionCrashRequeued"))
                   /\ WriteJobs(s, requeued, "queued")
                   /\ GotoFor(s, "vision_inventory", r)
    /\ UNCHANGED <<committed, invRow, docLock>>

(* The row is locked if its ocr_status, which is left out here, is failed. *)
VisionInventory(s) ==
    /\ pc[s] = "vision_inventory"
    /\ \/ Lockable(invLock, s) /\ WriteInv(s, SeenInv(s))
       \/ UNCHANGED invRow
    /\ Goto(s, "repair_mirror")
    /\ UNCHANGED <<committed, runRows, jobRows, docLock>>

-----------------------------------------------------------------------------
Init ==
    /\ run = [r \in Runs |-> "none"] /\ newRun = run
    /\ job = [j \in Jobs |-> "none"] /\ newJob = job
    /\ inv = [lastRun |-> NoRun, status |-> "none"] /\ newInv = inv
    /\ runLock = [r \in Runs |-> NoSession]
    /\ jobLock = [j \in Jobs |-> NoSession]
    /\ invLock = NoSession /\ docLock = NoSession
    /\ pc = [s \in Sessions |-> "idle"]
    /\ target = [s \in Sessions |-> NoRun]

BeginOrRead(s) ==
    \/ LockDocument(s, "create_insert") \/ BeginBackfill(s) \/ BeginRequeue(s)
    \/ ClaimJob(s) \/ CompleteJob(s) \/ RetryJob(s) \/ FailJob(s) \/ ReleaseJob(s)

Continue(s) ==
    \/ CreateInsert(s) \/ CreateInventory(s) \/ BackfillSelect(s)
    \/ VisionSelect(s) \/ VisionInventory(s)
    \/ StageStatus(s) \/ ReadRemaining(s) \/ TransitionStep(s) \/ MirrorStep(s)
    \/ CancelSiblings(s)

Next == \E s \in Sessions : BeginOrRead(s) \/ Continue(s) \/ Commit(s) \/ Rollback(s)

Spec == Init /\ [][Next]_vars

-----------------------------------------------------------------------------
(* What is committed. *)

(* The value a row has for its lock holder differs from the committed one
   only while somebody holds the lock.                                     *)
UnlockedRowsClean ==
    /\ \A r \in Runs : runLock[r] = NoSession => newRun[r] = run[r]
    /\ \A j \in Jobs : jobLock[j] = NoSession => newJob[j] = job[j]
    /\ invLock = NoSession => newInv = inv

UnbornRunHasNoJobs ==
    \A r \in Runs : run[r] = "none" => \A j \in JobsOf(r) : job[j] = "none"

StageOrder ==
    \A r \in Runs : \A j \in MetadataJobsOf(r) :
        job[j] = "running" => job[OcrJob(r)] \notin ActiveJobStatuses

(* However many replicas backfill at once, a run gets one metadata job. *)
OneMetadataJob ==
    \A r \in Runs : \A j, k \in MetadataJobsOf(r) :
        job[j] # "none" /\ job[k] # "none" => j = k

(* The document lock keeps creations and reopenings apart. *)
OneActiveRun == \A q, r \in Runs : Active(run[q]) /\ Active(run[r]) => q = r

BadgeFollowsRun ==
    inv.status = IF inv.lastRun = NoRun THEN "none" ELSE run[inv.lastRun]

(* A run never stays active, and in the way of others, with nothing to do. *)
ActiveRunHasWork ==
    \A r \in Runs : Active(run[r]) => \E j \in JobsOf(r) : job[j] \in ActiveJobStatuses

(* A settled run keeps a job that still waits or runs only if it succeeded
   and the job is one a backfill inserted while the last stage of the run was
   being settled: no failed run does, although the backfill inserts and
   fail_job cancels jobs that the other does not see.  The exception is one
   startup_repairs.rs does not expect: it leaves an active run alone because
   the completion of its OCR stage "will flip the run back to `queued`". *)
OnlyBackfilledWorkStrands ==
    \A r \in Runs, k \in Slots :
        run[r] \in TerminalRunStatuses /\ job[<<r, k>>] \in ActiveJobStatuses
        => k \in Sessions /\ run[r] = "succeeded"

CommittedOK ==
    /\ UnlockedRowsClean /\ UnbornRunHasNoJobs /\ StageOrder
    /\ OneMetadataJob /\ OneActiveRun /\ BadgeFollowsRun /\ ActiveRunHasWork
    /\ OnlyBackfilledWorkStrands

-----------------------------------------------------------------------------
(* What a session in the middle of its transaction relies on. *)

HoldsJob(s, r) == \E j \in JobsOf(r) : jobLock[j] = s
NoneActive(s, r, S) == \A k \in S : SeenJob(s, <<r, k>>) \notin ActiveJobStatuses

HoldsNothing(s) ==
    /\ \A r \in Runs : runLock[r] # s
    /\ \A j \in Jobs : jobLock[j] # s
    /\ invLock # s

SelectSteps   == {"create_insert", "backfill_select", "vision_select"}
WriteSteps    == {"create_inventory", "vision_inventory", "repair_mirror"}
DocumentSteps == SelectSteps \cup WriteSteps
JobSteps      == Steps \ (DocumentSteps \cup {"idle", "commit"})

KnowsItsLocks(s) ==
    /\ pc[s] \in SelectSteps \cup {"idle"} => HoldsNothing(s)
    /\ pc[s] \in DocumentSteps => docLock = s
    /\ docLock = s => pc[s] \in DocumentSteps \cup {"commit"}
    /\ pc[s] \in WriteSteps => target[s] \in Runs /\ runLock[target[s]] = s
    /\ pc[s] = "create_inventory" => run[target[s]] = "none"

(* claim_jobs, complete_job, fail_job and the cooldown release take no
   document lock.  What they lock belongs to runs of which they hold an
   active job, the earlier stage of a run included.                        *)
JobTransaction(s) == docLock # s =>
    /\ \A j \in Jobs : jobLock[j] = s => job[j] \in ActiveJobStatuses
    /\ \A r \in Runs : runLock[r] = s => Active(run[r]) /\ HoldsJob(s, r)
    /\ pc[s] \in JobSteps => target[s] \in Runs /\ HoldsJob(s, target[s])
    /\ \A r \in Runs : \A j \in MetadataJobsOf(r) : jobLock[j] = s =>
          /\ job[OcrJob(r)] \in ActiveJobStatuses => jobLock[OcrJob(r)] = s
          /\ newJob[j] = "running" => SeenJob(s, OcrJob(r)) \notin ActiveJobStatuses

(* A creation or repair holds the document lock and writes one run: one that
   is active and stays so, or one that becomes active while none is.       *)
DocumentTransaction(s) == docLock = s =>
    /\ \A j \in Jobs : jobLock[j] = s => runLock[j[1]] = s /\ newJob[j] = "queued"
    /\ \A r \in Runs : runLock[r] = s =>
          /\ target[s] = r /\ HoldsJob(s, r)
          /\ \/ /\ Active(run[r]) /\ newRun[r] = run[r]
                /\ pc[s] \in {"repair_mirror", "commit"}
             \/ /\ run[r] \in {"none", "succeeded", "failed"} /\ newRun[r] = "queued"
                /\ \A q \in Runs : ~Active(run[q])
          /\ \A j \in JobsOf(r) : jobLock[j] = s =>
                \/ run[r] = "none" /\ j[2] \in Created
                \/ run[r] = "failed" /\ job[j] \in {"failed", "cancelled"}
                \/ (Active(run[r]) \/ run[r] = "succeeded") /\ j = <<r, s>>
          /\ Active(run[r]) \/ run[r] = "succeeded" =>
                \A j \in MetadataJobsOf(r) : job[j] = "none"

(* What is decided about a run stays right until it is committed, up to the
   job a backfill inserts in between.                                      *)
SettlesWhatIsDone(s) ==
    /\ \A r \in Runs : runLock[r] = s =>
          /\ newRun[r] \in ActiveRunStatuses \cup {"succeeded", "failed"}
          /\ newRun[r] = "succeeded" => NoneActive(s, r, Created)
          /\ newRun[r] = "failed" =>
                \/ target[s] = r /\ pc[s] \in {"failed_mirror", "cancel_siblings"}
                \/ NoneActive(s, r, Slots)
    /\ pc[s] = "Succeeded" => NoneActive(s, target[s], Created)
    /\ \A j \in Jobs : docLock # s /\ jobLock[j] = s /\ newJob[j] \in ActiveJobStatuses
          => job[j] \in ActiveJobStatuses

(* A session that ends a job leaves the run another one, or settles it. *)
Unsettled == {"stage_succeeded", "read_remaining", "Succeeded", "stage_failed", "Failed"}

LeavesNoIdleRun(s) == docLock # s =>
    /\ \A r \in Runs : HoldsJob(s, r) =>
          \/ \E j \in JobsOf(r) : SeenJob(s, j) \in ActiveJobStatuses
          \/ ~Active(SeenRun(s, r))
          \/ target[s] = r /\ pc[s] \in Unsettled
    /\ pc[s] \in {"failed_mirror", "cancel_siblings"} => ~Active(SeenRun(s, target[s]))

BeforeMirror == {"create_inventory", "mirror", "failed_mirror", "vision_inventory", "repair_mirror"}
BadgeOpen    == BeforeMirror \cup {"read_remaining", "StageAdvanced", "Succeeded", "Failed"}

(* The badge a session writes is the status of the run it points at, once
   the session has mirrored; and it points at a run the session works on.  *)
KeepsBadge(s) ==
    /\ invLock = s =>
          /\ \/ newInv.lastRun = inv.lastRun
             \/ newInv.lastRun \in Runs /\ docLock # s /\ HoldsJob(s, newInv.lastRun)
             \/ /\ newInv.lastRun \in Runs /\ runLock[newInv.lastRun] = s
                /\ run[newInv.lastRun] = "none"
          /\ pc[s] \notin BadgeOpen \/ newInv.lastRun # target[s] =>
                newInv.status = IF newInv.lastRun = NoRun THEN "none"
                                ELSE SeenRun(s, newInv.lastRun)
    /\ \A r \in Runs :
          /\ runLock[r] = s /\ newRun[r] # run[r] /\ inv.lastRun = r
          /\ ~(target[s] = r /\ pc[s] \in BeforeMirror)
          => invLock = s

SessionOK(s) ==
    /\ KnowsItsLocks(s) /\ JobTransaction(s) /\ DocumentTransaction(s)
    /\ SettlesWhatIsDone(s) /\ LeavesNoIdleRun(s) /\ KeepsBadge(s)

(* The committed rows are consistent with one another, and every session in
   the middle of a transaction still finds what it decided on, whatever the
   other sessions committed in between: one metadata job however many
   replicas backfill, one active run, which has work to do, the stages in order
   and the badge of the inventory equal to the status of its run. *)
StatementsConsistent == TypeOK /\ CommittedOK /\ \A s \in Sessions : SessionOK(s)

-----------------------------------------------------------------------------
(* Waiting. *)

NeedsRun(s) ==
    \/ pc[s] = "claim_run" /\ Moves(s, target[s], "Claimed")
    \/ /\ pc[s] \in {"StageAdvanced", "Succeeded", "LeaseReleased", "Failed"}
       /\ Moves(s, target[s], pc[s])

NeedsInv(s) ==
    \/ /\ pc[s] \in {"mirror", "repair_mirror", "failed_mirror"}
       /\ SeenInv(s).lastRun = target[s]
    \/ pc[s] \in {"stage_succeeded", "stage_failed", "create_inventory", "vision_inventory"}

(* The next statement of s needs a row that t has locked.  Only a session
   that holds nothing waits for the document lock, so it is left out.      *)
WaitsFor(s, t) ==
    /\ s # t
    /\ \/ NeedsRun(s) /\ runLock[target[s]] = t
       \/ NeedsInv(s) /\ invLock = t
       \/ pc[s] = "create_insert" /\ \E q \in Runs : runLock[q] = t
       \/ /\ pc[s] = "cancel_siblings"
          /\ \E j \in JobsOf(target[s]) : SeenJob(s, j) \in ActiveJobStatuses /\ jobLock[j] = t

(* Claims, completions, failures and creations never wait for one another in
   a circle over the rows of a document, although claim_jobs locks the run
   before the inventory row and complete_job and fail_job the other way round:
   every circle goes through a repair that is about to mirror the run it
   changed, and Postgres breaks it. *)
NoWaitCycle ==
    \A C \in (SUBSET Sessions) \ {{}} :
        (\A s \in C : \E t \in C : WaitsFor(s, t)) => \E s \in C : pc[s] = "repair_mirror"

-----------------------------------------------------------------------------
(* The abstract specification. *)

Phase(r) == IF Active(run[r]) THEN "active" ELSE run[r]

Lifecycle == INSTANCE RunLifecycle WITH
    Docs <- {"document"}, RunDoc <- [r \in Runs |-> "document"],
    phase <- [r \in Runs |-> Phase(r)]

(* Every commit starts, ends or reopens one run the way RunLifecycle allows,
   or leaves all runs in their phase; no other statement is seen outside. *)
CommitsImplementLifecycle == Lifecycle!Spec
=============================================================================
