------------------------------ MODULE JobQueue ------------------------------
(***************************************************************************)
(* The Postgres-backed pipeline of Paperless Archivist: pipeline runs,     *)
(* their stage jobs, the inventory row of each document and the review     *)
(* items of a job (archivist-db), together with the worker tasks that hold *)
(* a job's lease (archivist-worker).                                       *)
(*                                                                         *)
(* db is what the database holds; every database function of the source is *)
(* one transaction and here one step.  An operator that takes a database d *)
(* and returns one is a part of a transaction, so that a transaction is    *)
(* the composition of its statements, in their order.                      *)
(*                                                                         *)
(* Time is abstract: a lease is live or expired, run_after is due or not,  *)
(* and either may run out at any moment.  claim_jobs takes a batch of up   *)
(* to `limit' jobs; a batch is the uninterrupted sequence of its single    *)
(* claims, so one Claim takes one job.                                     *)
(***************************************************************************)
EXTENDS StatusTables, Naturals

CONSTANTS
    Docs,              \* documents
    Runs,              \* pipeline run rows, created on demand
    RunDoc,            \* the document of a run
    Workers,           \* worker processes, identified by their lease_owner
    Generations,       \* tasks one process may run for one job at a time
    NoWorker, NoRun,
    MaxReviews,        \* bound: review items created in a behaviour
    MaxAttempts,       \* jobs.max_attempts of a new job
    InfraCeiling,      \* retry ceiling of an infrastructure failure
    MaxInterventions   \* bound: cooldown releases, operator and startup repairs

ASSUME RunDocAssumption      == RunDoc \in [Runs -> Docs]
ASSUME NullAssumption        == NoWorker \notin Workers /\ NoRun \notin Runs
ASSUME MaxReviewsAssumption  == MaxReviews \in Nat
ASSUME MaxAttemptsAssumption == MaxAttempts \in Nat \ {0}
ASSUME CeilingAssumption     == InfraCeiling \in Nat

VARIABLES
    db,             \* the rows: runs, jobs, inventory, reviews
    tasks,          \* the job tasks of the worker processes
    interventions   \* how many bounded interventions happened

vars == <<db, tasks, interventions>>

Stages    == {"ocr", "metadata"}
Jobs      == Runs \X Stages
ReviewIds == 1..MaxReviews
TaskIds   == Workers \X Jobs \X Generations

RunOf(j)      == j[1]
StageOf(j)    == j[2]
JobDoc(j)     == RunDoc[j[1]]
JobsOf(r)     == {r} \X Stages
Earlier(s)    == IF s = "metadata" THEN {"ocr"} ELSE {}
WorkerOf(t)   == t[1]
JobOf(t)      == t[2]

JobRow ==
    [status: JobStatuses \cup {"none"}, owner: Workers \cup {NoWorker},
     lease: {"none", "live", "expired"}, attempts: Nat, budget: Nat, due: BOOLEAN]
InventoryRow ==
    [lastRun: Runs \cup {NoRun}, status: RunStatuses \cup {"none"},
     stage: [Stages -> JobStatuses \cup {"missing", "rejected"}]]
NoReviewRow == [status |-> "none", job |-> <<>>]
ReviewRow   == [status: ReviewStatuses, job: Jobs] \cup {NoReviewRow}
TaskState ==
    [pc: {"idle", "working", "reviewing", "reviewed", "aborted"}, attempts: Nat, budget: Nat]

Database ==
    [runs: [Runs -> RunStatuses \cup {"none"}], jobs: [Jobs -> JobRow],
     inventory: [Docs -> InventoryRow], reviews: [ReviewIds -> ReviewRow]]

NoJobRow == [status |-> "none", owner |-> NoWorker, lease |-> "none",
             attempts |-> 0, budget |-> MaxAttempts, due |-> TRUE]
Idle     == [pc |-> "idle", attempts |-> 0, budget |-> MaxAttempts]

TypeOK ==
    /\ db \in Database
    /\ tasks \in [TaskIds -> TaskState]
    /\ interventions \in Nat

-----------------------------------------------------------------------------
(* Statements shared by the transactions. *)

HasRunningJob(d, r) == \E j \in JobsOf(r) : d.jobs[j].status = "running"
HasActiveJob(d, r)  == \E j \in JobsOf(r) : d.jobs[j].status \in ActiveJobStatuses

(* transition_runs_tx, the only writer of a run status: it moves the runs of
   R that are in a status the event may leave and ignores the others.      *)
TransitionRuns(R, event, d) ==
    [d EXCEPT !.runs = [r \in Runs |->
        IF /\ r \in R
           /\ d.runs[r] \in RunFrom(event)
           /\ RequiresNoRunningJob(event) => ~HasRunningJob(d, r)
        THEN RunTo(event) ELSE d.runs[r]]]

(* mirror_run_status_tx: only rows whose last run is in R. *)
MirrorRunStatus(R, d) ==
    [d EXCEPT !.inventory = [x \in Docs |->
        IF d.inventory[x].lastRun \in R
        THEN [d.inventory[x] EXCEPT !.status = d.runs[d.inventory[x].lastRun]]
        ELSE d.inventory[x]]]

(* set_inventory_stage_status_tx. *)
SetInventoryStage(j, status, d) ==
    [d EXCEPT !.inventory[JobDoc(j)] =
        [lastRun |-> RunOf(j),
         status  |-> IF status = "failed" THEN "failed" ELSE @.status,
         stage   |-> [@.stage EXCEPT ![StageOf(j)] = status]]]

(* A job row leaves its owner: the lease columns are cleared. *)
Unleased(row, status) ==
    [row EXCEPT !.status = status, !.owner = NoWorker, !.lease = "none"]

SetJob(j, row, d) == [d EXCEPT !.jobs[j] = row]

(* Mutant: only jobs that somebody works on are cancelled. *)
CancelRunningJobs(r, K, d) ==
    [d EXCEPT !.jobs = [j \in Jobs |->
        IF j \in JobsOf(r) \ K /\ d.jobs[j].status \in {"running", "waiting_review"}
        THEN Unleased(d.jobs[j], "cancelled") ELSE d.jobs[j]]]

(* cancel_active_run_jobs_tx, keeping the jobs in K. *)
CancelActiveJobs(r, K, d) ==
    [d EXCEPT !.jobs = [j \in Jobs |->
        IF j \in JobsOf(r) \ K /\ d.jobs[j].status \in ActiveJobStatuses
        THEN Unleased(d.jobs[j], "cancelled") ELSE d.jobs[j]]]

(* apply_permanent_job_failure_tx, of a job row just marked failed. *)
PermanentFailure(j, d) ==
    CancelActiveJobs(RunOf(j), {j},
        MirrorRunStatus({RunOf(j)},
            TransitionRuns({RunOf(j)}, "Failed",
                SetInventoryStage(j, "failed", d))))

(* Mutant: only a running job keeps the run open. *)
SettleIgnoringQueued(r, d) ==
    MirrorRunStatus({r},
        TransitionRuns({r}, IF HasRunningJob(d, r) THEN "StageAdvanced" ELSE "Succeeded", d))

(* settle_run_after_stage_tx. *)
SettleRunAfterStage(r, d) ==
    MirrorRunStatus({r},
        TransitionRuns({r}, IF HasActiveJob(d, r) THEN "StageAdvanced" ELSE "Succeeded", d))

-----------------------------------------------------------------------------
(* prepare_run_with_jobs_on_tx: one active run per document. *)

NoActiveRun(d, x) == \A r \in Runs : RunDoc[r] = x => d.runs[r] \notin ActiveRunStatuses

InsertRun(r, S, d) ==
    [d EXCEPT
        !.runs[r] = "queued",
        !.jobs    = [j \in Jobs |-> IF j \in {r} \X S
                                   THEN [NoJobRow EXCEPT !.status = "queued"]
                                   ELSE d.jobs[j]],
        !.inventory[RunDoc[r]] = [@ EXCEPT !.lastRun = r, !.status = "queued"]]

CreateRun(r, S) ==
    /\ db.runs[r] = "none"
    /\ NoActiveRun(db, RunDoc[r])
    /\ db' = InsertRun(r, S, db)
    /\ UNCHANGED <<tasks, interventions>>

-----------------------------------------------------------------------------
(* claim_jobs. *)

(* Mutant: a predecessor that waits for a review does not block. *)
EarlierStagesIdle(d, j) ==
    \A s \in Earlier(StageOf(j)) :
        d.jobs[<<RunOf(j), s>>].status \notin {"queued", "running", "failed"}

(* CLAIM_STAGE_ORDER_GUARD. *)
EarlierStagesResolved(d, j) ==
    \A s \in Earlier(StageOf(j)) :
        d.jobs[<<RunOf(j), s>>].status \notin ActiveJobStatuses \cup {"failed"}

ExpiredJobs(d) == {j \in Jobs : d.jobs[j].status = "running" /\ d.jobs[j].lease = "expired"}

(* fail_exhausted_stale_jobs_tx. *)
ExhaustedJobs(d) == {j \in ExpiredJobs(d) : d.jobs[j].attempts >= d.jobs[j].budget}

(* Mutant: the exhausted job keeps its lease columns. *)
FailExhaustedKeepsLease(j, d) == PermanentFailure(j, [d EXCEPT !.jobs[j].status = "failed"])

FailExhausted(j, d) == PermanentFailure(j, SetJob(j, Unleased(d.jobs[j], "failed"), d))

(* Mutant: the last attempt is never reclaimed. *)
StaleCandidatesOffByOne(d) ==
    {j \in ExpiredJobs(d) : d.jobs[j].attempts + 1 < d.jobs[j].budget /\ EarlierStagesResolved(d, j)}

(* The passes StaleLease and then Queued; the pass Retry only reorders the
   queued jobs, and any queued job may come first here. *)
StaleCandidates(d) ==
    {j \in ExpiredJobs(d) : d.jobs[j].attempts < d.jobs[j].budget /\ EarlierStagesResolved(d, j)}
QueuedCandidates(d) ==
    {j \in Jobs : d.jobs[j].status = "queued" /\ d.jobs[j].due /\ EarlierStagesResolved(d, j)}
Candidates(d) == IF StaleCandidates(d) # {} THEN StaleCandidates(d) ELSE QueuedCandidates(d)

Leased(row, w) ==
    [row EXCEPT !.status = "running", !.owner = w, !.lease = "live", !.attempts = @ + 1]

ClaimJob(j, w, d) ==
    MirrorRunStatus({RunOf(j)},
        TransitionRuns({RunOf(j)}, "Claimed", SetJob(j, Leased(d.jobs[j], w), d)))

(* The task spawned for a claimed job carries the attempts of the claim.
   Nothing keeps a process from claiming a job one of its own tasks still
   works on; Generations bounds how many such tasks a job has at a time. *)
SpawnTask(w, j, d) ==
    \E g \in Generations :
        /\ tasks[<<w, j, g>>].pc = "idle"
        /\ tasks' = [tasks EXCEPT ![<<w, j, g>>] =
                        [pc |-> "working", attempts |-> d.jobs[j].attempts,
                         budget |-> d.jobs[j].budget]]

(* The claim itself, in the database d that the exhausted jobs left. *)
ClaimIn(w, d) ==
    IF Candidates(d) = {}
    THEN db' = d /\ UNCHANGED tasks
    ELSE \E j \in Candidates(d) :
            /\ db' = ClaimJob(j, w, d)
            /\ SpawnTask(w, j, ClaimJob(j, w, d))

Claim(w) ==
    /\ ExhaustedJobs(db) \cup Candidates(db) # {}
    /\ IF ExhaustedJobs(db) = {}
       THEN ClaimIn(w, db)
       ELSE \E x \in ExhaustedJobs(db) : ClaimIn(w, FailExhausted(x, db))
    /\ UNCHANGED interventions

-----------------------------------------------------------------------------
(* The task of a claimed job.  Every write is fenced on lease_owner, and a
   task that finds its fence down stops.                                   *)

(* Mutant: the lease fence is dropped. *)
OwnsAlways(t)  == TRUE

Owns(t)        == db.jobs[JobOf(t)].owner = WorkerOf(t)
HoldsLease(t, S) == Owns(t) /\ db.jobs[JobOf(t)].status \in S
EndTask(t)     == tasks' = [tasks EXCEPT ![t] = Idle]
MoveTask(t, pc) == tasks' = [tasks EXCEPT ![t].pc = pc]

(* bump_job_lease, between two units of work; renewing a live lease changes
   nothing here. *)
Heartbeat(t) ==
    /\ tasks[t].pc = "working"
    /\ IF HoldsLease(t, {"running"})
       THEN /\ db.jobs[JobOf(t)].lease = "expired"
            /\ db' = [db EXCEPT !.jobs[JobOf(t)].lease = "live"]
            /\ UNCHANGED tasks
       ELSE EndTask(t) /\ UNCHANGED db
    /\ UNCHANGED interventions

(* complete_job: the fence is the owner alone, whatever the job's status. *)
CompleteJob(j, d) ==
    SettleRunAfterStage(RunOf(j),
        SetInventoryStage(j, "succeeded", SetJob(j, Unleased(d.jobs[j], "succeeded"), d)))

Complete(t) ==
    /\ tasks[t].pc = "working"
    /\ db' = IF Owns(t) THEN CompleteJob(JobOf(t), db) ELSE db
    /\ EndTask(t)
    /\ UNCHANGED interventions

(* fail_job: the retry decision uses the attempts the task was claimed with,
   not the row's. *)
Retries(t, retryable, ceiling) ==
    /\ retryable
    /\ tasks[t].attempts < (IF ceiling > tasks[t].budget THEN ceiling ELSE tasks[t].budget)

FailJob(t, retry, d) ==
    LET j == JobOf(t)
    IN  IF retry
        THEN SetJob(j, [Unleased(d.jobs[j], "queued") EXCEPT !.due = FALSE], d)
        ELSE PermanentFailure(j, SetJob(j, Unleased(d.jobs[j], "failed"), d))

(* The error path of the task, and the watchdog's own fail_job (always
   retryable, no raised ceiling) once it has aborted the task. *)
Fail(t) ==
    /\ \E retryable \in BOOLEAN, ceiling \in {0, InfraCeiling} :
          /\ \/ tasks[t].pc \in {"working", "reviewing", "reviewed"}
             \/ tasks[t].pc = "aborted" /\ retryable /\ ceiling = 0
          /\ db' = IF Owns(t) THEN FailJob(t, Retries(t, retryable, ceiling), db) ELSE db
    /\ EndTask(t)
    /\ UNCHANGED interventions

(* Mutant: the inventory row is not mirrored. *)
ReleaseWithoutMirror(j, d) ==
    TransitionRuns({RunOf(j)}, "LeaseReleased",
        SetJob(j, [Unleased(d.jobs[j], "queued") EXCEPT
                     !.due = FALSE, !.attempts = IF @ > 0 THEN @ - 1 ELSE 0], d))

(* release_job_lease_for_cooldown. *)
ReleaseJob(j, d) ==
    MirrorRunStatus({RunOf(j)},
        TransitionRuns({RunOf(j)}, "LeaseReleased",
            SetJob(j, [Unleased(d.jobs[j], "queued") EXCEPT
                         !.due = FALSE, !.attempts = IF @ > 0 THEN @ - 1 ELSE 0], d)))

ReleaseForCooldown(t) ==
    /\ tasks[t].pc = "working"
    /\ interventions < MaxInterventions
    /\ db' = IF HoldsLease(t, {"running"}) THEN ReleaseJob(JobOf(t), db) ELSE db
    /\ EndTask(t)
    /\ interventions' = interventions + 1

(* create_review_item; the metadata stage may create several in a row, each
   in a transaction of its own.  The job keeps its lease_owner.  The task is
   "reviewing" while further items are to follow, "reviewed" after the last. *)
InsertReview(i, j, d) ==
    MirrorRunStatus({RunOf(j)},
        SetInventoryStage(j, "waiting_review",
            TransitionRuns({RunOf(j)}, "AwaitingReview",
                [d EXCEPT !.jobs[j].status = "waiting_review",
                          !.reviews[i] = [status |-> "pending", job |-> j]])))

NextReview(i) ==
    /\ db.reviews[i].status = "none"
    /\ \A k \in 1..(i - 1) : db.reviews[k].status # "none"

CreateReview(t) ==
    /\ tasks[t].pc \in {"working", "reviewing"}
    /\ IF HoldsLease(t, {"running", "waiting_review"})
       THEN \E i \in ReviewIds :
                /\ NextReview(i)
                /\ db' = InsertReview(i, JobOf(t), db)
                /\ \/ MoveTask(t, "reviewed")
                   \/ StageOf(JobOf(t)) = "metadata" /\ MoveTask(t, "reviewing")
       ELSE EndTask(t) /\ UNCHANGED db
    /\ UNCHANGED interventions

FinishReviews(t) ==
    /\ tasks[t].pc = "reviewed"
    /\ EndTask(t)
    /\ UNCHANGED <<db, interventions>>

(* watch_job_lease: the lease ran out while the probe still finds this owner.
   The task is aborted now and fail_job runs afterwards. *)
WatchdogAborts(t) ==
    /\ tasks[t].pc \in {"working", "reviewing", "reviewed"}
    /\ HoldsLease(t, {"running", "waiting_review"})
    /\ db.jobs[JobOf(t)].lease = "expired"
    /\ MoveTask(t, "aborted")
    /\ UNCHANGED <<db, interventions>>

(* A process dies with its tasks (OOM kill, drain deadline); the one that
   replaces it shares nothing with it but, here, its name. *)
Crash(w) ==
    /\ \E t \in TaskIds : WorkerOf(t) = w /\ tasks[t].pc # "idle"
    /\ tasks' = [t \in TaskIds |-> IF WorkerOf(t) = w THEN Idle ELSE tasks[t]]
    /\ UNCHANGED <<db, interventions>>

(* fail_job itself failed (database unreachable): the task ends and the row
   keeps its lease. *)
EndUnrecorded(t) ==
    /\ tasks[t].pc # "idle"
    /\ EndTask(t)
    /\ UNCHANGED <<db, interventions>>

(* now() passes lease_until, now() passes run_after. *)
LeaseExpires(j) ==
    /\ db.jobs[j].lease = "live"
    /\ db' = [db EXCEPT !.jobs[j].lease = "expired"]
    /\ UNCHANGED <<tasks, interventions>>

BackoffElapses(j) ==
    /\ db.jobs[j].status = "queued" /\ ~db.jobs[j].due
    /\ db' = [db EXCEPT !.jobs[j].due = TRUE]
    /\ UNCHANGED <<tasks, interventions>>

-----------------------------------------------------------------------------
(* Review items.  "approved" stands for approved and edited, which no
   transition tells apart. *)

ReviewsOf(d, j) == {i \in ReviewIds : d.reviews[i].status # "none" /\ d.reviews[i].job = j}
SetReview(i, status, d) == [d EXCEPT !.reviews[i].status = status]

(* finalize_review_aggregate_tx: the job leaves waiting_review once all its
   items are decided, as succeeded if any was applied. *)
FinalizeAggregate(j, d) ==
    IF \/ d.jobs[j].status # "waiting_review"
       \/ \E i \in ReviewsOf(d, j) : d.reviews[i].status \in OpenReviewStatuses
    THEN d
    ELSE IF \E i \in ReviewsOf(d, j) : d.reviews[i].status = "applied"
         THEN CompleteJob(j, d)
         ELSE MirrorRunStatus({RunOf(j)},
                  TransitionRuns({RunOf(j)}, "Rejected",
                      CancelActiveJobs(RunOf(j), {},
                          SetInventoryStage(j, "rejected",
                              SetJob(j, Unleased(d.jobs[j], "cancelled"), d)))))

(* review_decision. *)
Approve(i) ==
    /\ db.reviews[i].status = "pending"
    /\ db' = SetReview(i, "approved", db)
    /\ UNCHANGED <<tasks, interventions>>

Reject(i) ==
    /\ db.reviews[i].status = "pending"
    /\ db' = FinalizeAggregate(db.reviews[i].job, SetReview(i, "rejected", db))
    /\ UNCHANGED <<tasks, interventions>>

(* claim_review_for_apply after a human decision, and
   claim_pending_review_for_autopilot_drain. *)
ClaimReview(i) ==
    /\ db.reviews[i].status \in {"approved", "pending"}
    /\ db' = SetReview(i, "applying", db)
    /\ UNCHANGED <<tasks, interventions>>

(* settle_review_applied. *)
SettleApplied(i) ==
    /\ db.reviews[i].status = "applying"
    /\ db' = FinalizeAggregate(db.reviews[i].job, SetReview(i, "applied", db))
    /\ UNCHANGED <<tasks, interventions>>

(* revert_review_from_applying, mark_review_apply_conflict, and the stale
   sweep reset_stale_applying_reviews, which also takes an approval nobody
   claimed. *)
RevertReview(i) ==
    /\ db.reviews[i].status \in {"applying", "approved"}
    /\ db' = SetReview(i, "pending", db)
    /\ UNCHANGED <<tasks, interventions>>

(* retry_review_with_overrides: every pending sibling is rejected and a new
   metadata run replaces the one that closes; the transaction rolls back when
   a sibling is being applied or a run of the document stays active. *)
CloseForRetry(j, d) ==
    FinalizeAggregate(j,
        [d EXCEPT !.reviews = [i \in ReviewIds |->
            IF i \in ReviewsOf(d, j) /\ d.reviews[i].status = "pending"
            THEN [d.reviews[i] EXCEPT !.status = "rejected"] ELSE d.reviews[i]]])

RetryReview(i, r) ==
    LET j == db.reviews[i].job
        closed == CloseForRetry(j, db)
    IN  /\ db.reviews[i].status = "pending"
        /\ StageOf(j) = "metadata"
        /\ \A k \in ReviewsOf(db, j) : db.reviews[k].status \notin {"approved", "applying"}
        /\ RunDoc[r] = JobDoc(j) /\ closed.runs[r] = "none"
        /\ NoActiveRun(closed, JobDoc(j))
        /\ db' = InsertRun(r, {"metadata"}, closed)
        /\ UNCHANGED <<tasks, interventions>>

-----------------------------------------------------------------------------
(* Operator recovery and startup repairs. *)

Intervene == interventions < MaxInterventions /\ interventions' = interventions + 1

(* recover_stale_leases: which leases expired long enough ago is open. *)
RecoverStaleLeases(X) ==
    LET R == {RunOf(j) : j \in X}
    IN  /\ Intervene
        /\ X # {} /\ X \subseteq ExpiredJobs(db)
        /\ db' = MirrorRunStatus(R,
                     TransitionRuns(R, "StaleLeaseRequeued",
                         [db EXCEPT !.jobs = [j \in Jobs |->
                             IF j \in X THEN [Unleased(db.jobs[j], "queued") EXCEPT !.due = TRUE]
                             ELSE db.jobs[j]]]))
        /\ UNCHANGED tasks

(* Mutant: a newer active run of the document is not looked for. *)
VisionCrashedAnyway(r) ==
    /\ db.runs[r] = "failed"
    /\ db.jobs[<<r, "ocr">>].status = "failed"
    /\ db.jobs[<<r, "ocr">>].budget = MaxAttempts

(* requeue_vision_crashed_jobs, of one document: whether the error was a
   vision crash is open; a job is lifted once, which raises its budget. *)
VisionCrashed(r) ==
    /\ db.runs[r] = "failed"
    /\ db.jobs[<<r, "ocr">>].status = "failed"
    /\ db.jobs[<<r, "ocr">>].budget = MaxAttempts
    /\ NoActiveRun(db, RunDoc[r])

(* Mutant: the siblings that the failure cancelled stay cancelled. *)
LiftOcrOnly(r, d) ==
    [d EXCEPT
        !.jobs[<<r, "ocr">>] = [Unleased(@, "queued") EXCEPT !.due = TRUE, !.budget = @ + 1],
        !.inventory[RunDoc[r]].stage["ocr"] = IF @ = "failed" THEN "queued" ELSE @]

LiftVisionCrash(r, d) ==
    LET ocr == <<r, "ocr">>
    IN  [d EXCEPT
           !.jobs = [j \in Jobs |->
               CASE j = ocr -> [Unleased(d.jobs[j], "queued") EXCEPT
                                  !.due = TRUE, !.budget = @ + 1]
                 [] j \in JobsOf(r) \ {ocr} /\ d.jobs[j].status = "cancelled" ->
                        [Unleased(d.jobs[j], "queued") EXCEPT !.due = TRUE]
                 [] OTHER -> d.jobs[j]],
           !.inventory[RunDoc[r]].stage["ocr"] = IF @ = "failed" THEN "queued" ELSE @]

RequeueVisionCrash(r) ==
    /\ Intervene
    /\ VisionCrashed(r)
    /\ db' = MirrorRunStatus({r},
                 TransitionRuns({r}, "VisionCrashRequeued", LiftVisionCrash(r, db)))
    /\ UNCHANGED tasks

(* backfill_metadata_stage_for_ocr_only_runs, of one document: its active
   run, or without one a succeeded run, gets the missing metadata job. *)
OcrOnly(r) ==
    /\ db.jobs[<<r, "ocr">>].status # "none"
    /\ db.jobs[<<r, "metadata">>].status = "none"
    /\ \/ db.runs[r] \in ActiveRunStatuses
       \/ db.runs[r] = "succeeded" /\ NoActiveRun(db, RunDoc[r])

BackfillMetadata(r) ==
    /\ Intervene
    /\ OcrOnly(r)
    /\ db' = MirrorRunStatus({r},
                 SetJob(<<r, "metadata">>, [NoJobRow EXCEPT !.status = "queued"],
                     TransitionRuns({r}, "MetadataBackfilled", db)))
    /\ UNCHANGED tasks

(* reset_stuck_running_pipeline_runs. *)
StuckRunning(d, S, T) ==
    {r \in Runs : /\ d.runs[r] = "running"
                  /\ S # {} => \E j \in JobsOf(r) : d.jobs[j].status \in S
                  /\ \A j \in JobsOf(r) : d.jobs[j].status \notin T}

ResetStuckRuns ==
    LET requeue == StuckRunning(db, {"queued", "waiting_review"}, {})
        queued  == TransitionRuns(requeue, "StuckRunningRequeued", db)
        finish  == StuckRunning(queued, {}, ActiveJobStatuses \cup {"failed"})
    IN  /\ Intervene
        /\ requeue \cup finish # {}
        /\ db' = MirrorRunStatus(requeue \cup finish,
                     TransitionRuns(finish, "StuckRunningSucceeded", queued))
        /\ UNCHANGED tasks

-----------------------------------------------------------------------------
Init ==
    /\ db = [runs      |-> [r \in Runs |-> "none"],
             jobs      |-> [j \in Jobs |-> NoJobRow],
             inventory |-> [x \in Docs |->
                 [lastRun |-> NoRun, status |-> "none", stage |-> [s \in Stages |-> "missing"]]],
             reviews   |-> [i \in ReviewIds |-> NoReviewRow]]
    /\ tasks = [t \in TaskIds |-> Idle]
    /\ interventions = 0

TaskEnds(t) ==
    \/ Complete(t) \/ Fail(t) \/ ReleaseForCooldown(t)
    \/ CreateReview(t) \/ FinishReviews(t) \/ WatchdogAborts(t) \/ EndUnrecorded(t)

ReviewStep(i) ==
    \/ Approve(i) \/ Reject(i) \/ ClaimReview(i) \/ SettleApplied(i) \/ RevertReview(i)
    \/ \E r \in Runs : RetryReview(i, r)

Recovery ==
    \/ \E X \in SUBSET Jobs : RecoverStaleLeases(X)
    \/ \E r \in Runs : RequeueVisionCrash(r) \/ BackfillMetadata(r)
    \/ ResetStuckRuns

Next ==
    \/ \E r \in Runs, S \in (SUBSET Stages) \ {{}} : CreateRun(r, S)
    \/ \E w \in Workers : Claim(w) \/ Crash(w)
    \/ \E t \in TaskIds : Heartbeat(t) \/ TaskEnds(t)
    \/ \E j \in Jobs : LeaseExpires(j) \/ BackoffElapses(j)
    \/ \E i \in ReviewIds : ReviewStep(i)
    \/ Recovery

Spec == Init /\ [][Next]_vars

(* The claim loop of some worker keeps polling, a task that was started does
   not run forever (the watchdog aborts one that hangs), and time passes.   *)
Fairness ==
    /\ WF_vars(\E w \in Workers : Claim(w))
    /\ \A t \in TaskIds : WF_vars(TaskEnds(t))
    /\ \A j \in Jobs : WF_vars(LeaseExpires(j)) /\ WF_vars(BackoffElapses(j))

FairSpec == Spec /\ Fairness

-----------------------------------------------------------------------------
(* Safety. *)

(* A lease_owner is set exactly while the job is running or waits for a
   review.  complete_job and fail_job fence on the owner alone and test no
   status; this is what keeps them inside the documented job table.        *)
OwnedJobsAreLive ==
    \A j \in Jobs :
        /\ db.jobs[j].owner # NoWorker => db.jobs[j].status \in {"running", "waiting_review"}
        /\ db.jobs[j].status \in {"running", "waiting_review"}
              => db.jobs[j].owner # NoWorker /\ db.jobs[j].lease # "none"

(* A run is active exactly while one of its jobs is: no run is stuck without
   work (the state recover_stuck_runs looks for) and no job outlives its run
   (claim_jobs never looks at the run). *)
RunActiveIffWorkLeft ==
    \A r \in Runs : db.runs[r] \in ActiveRunStatuses <=> HasActiveJob(db, r)

(* How a run ended says how its jobs ended: settle_run_after_stage_tx only
   looks for active jobs, yet a run it marks succeeded has no failed or
   cancelled stage. *)
RunOutcomeMatchesJobs ==
    \A r \in Runs :
        LET outcomes == {db.jobs[j].status : j \in JobsOf(r)}
        IN  /\ db.runs[r] = "succeeded" => outcomes \subseteq {"succeeded", "none"}
            /\ db.runs[r] = "failed" => "failed" \in outcomes
            /\ db.runs[r] = "rejected" => "cancelled" \in outcomes /\ "failed" \notin outcomes

(* The metadata stage never starts, waits for review or ends on its own
   account before the OCR stage of its run has succeeded. *)
StageOrder ==
    \A r \in Runs :
        db.jobs[<<r, "metadata">>].status \in {"running", "waiting_review", "succeeded", "failed"}
            => db.jobs[<<r, "ocr">>].status \in {"none", "succeeded"}

(* pipeline_runs_one_active_per_document_idx: at most one active run per
   document, repairs that reopen a finished run included. *)
OneActiveRun ==
    \A r1, r2 \in Runs :
        /\ RunDoc[r1] = RunDoc[r2]
        /\ db.runs[r1] \in ActiveRunStatuses /\ db.runs[r2] \in ActiveRunStatuses
        => r1 = r2

(* The mirror invariant of transitions.rs (#303, #414): current_run_status is
   the status of the run last_run_id points at. *)
InventoryMirrorsRun ==
    \A x \in Docs :
        /\ db.inventory[x].lastRun = NoRun => db.inventory[x].status = "none"
        /\ db.inventory[x].lastRun # NoRun =>
              /\ RunDoc[db.inventory[x].lastRun] = x
              /\ db.inventory[x].status = db.runs[db.inventory[x].lastRun]

(* A job that waits for review has an item somebody can still decide, so the
   aggregate can always be reached. *)
WaitingJobHasOpenReview ==
    \A j \in Jobs :
        db.jobs[j].status = "waiting_review" =>
            \E i \in ReviewsOf(db, j) : db.reviews[i].status \in OpenReviewStatuses

(* Every change of a job's status is one the table JobTransition documents;
   a succeeded job is never touched again. *)
JobTableRespected ==
    [][\A j \in Jobs : db.jobs[j].status # db'.jobs[j].status
            => <<db.jobs[j].status, db'.jobs[j].status>> \in JobTable]_vars

(* What ends a run ends its other jobs: an active run has no failed and no
   cancelled job.  unblock_jobs_from_failed_predecessors therefore finds
   nothing to do in any state the transactions reach. *)
NoJobBlockedByFailure ==
    \A r \in Runs :
        HasActiveJob(db, r) =>
            \A j \in JobsOf(r) : db.jobs[j].status \notin {"failed", "cancelled"}

(* Jobs are inserted with their run. *)
UnbornRunHasNoJobs ==
    \A r \in Runs : db.runs[r] = "none" => \A j \in JobsOf(r) : db.jobs[j].status = "none"

(* The invariants together: each of them needs others to be preserved. *)
Consistent ==
    /\ TypeOK
    /\ OwnedJobsAreLive
    /\ UnbornRunHasNoJobs
    /\ RunActiveIffWorkLeft
    /\ NoJobBlockedByFailure
    /\ RunOutcomeMatchesJobs
    /\ StageOrder
    /\ OneActiveRun
    /\ InventoryMirrorsRun
    /\ WaitingJobHasOpenReview

-----------------------------------------------------------------------------
(* The abstract specification and the liveness of the queue. *)

Phase(r) == IF db.runs[r] \in ActiveRunStatuses THEN "active" ELSE db.runs[r]

Lifecycle == INSTANCE RunLifecycle WITH phase <- [r \in Runs |-> Phase(r)]

(* Every transaction of the queue starts, ends, reopens or replaces a run the
   way RunLifecycle allows, or leaves all runs in their phase. *)
ImplementsLifecycle == Lifecycle!Spec

(* Work that needs no human ends: a queued or running run is finished or
   waits for a decision, whatever crashes, expires or fails on the way. *)
RunsSettle ==
    \A r \in Runs :
        db.runs[r] \in {"queued", "running"} ~> db.runs[r] \notin {"queued", "running"}

-----------------------------------------------------------------------------
(* A statement of the source's comments that the code does not keep. *)

(* reviews.rs, create_review_item: a job in waiting_review still matches for
   the same owner, "so one stage can create several per-field items back to
   back"; only a reclaimed lease stops it. *)
ReviewCreationKeepsLease ==
    \A t \in TaskIds :
        tasks[t].pc = "reviewing" => HoldsLease(t, {"running", "waiting_review"})
=============================================================================
