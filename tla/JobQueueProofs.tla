--------------------------- MODULE JobQueueProofs ---------------------------
(***************************************************************************)
(* The invariants of JobQueue, for every set of documents, runs, workers   *)
(* and generations and every bound.  Sound(d) says of one database what    *)
(* Consistent says of the state; a transaction is shown to take sound      *)
(* databases to sound databases, part by part.                             *)
(***************************************************************************)
EXTENDS JobQueue, TLAPS

Live == {"running", "waiting_review"}

LiveJob(row) ==
    /\ row.owner # NoWorker => row.status \in Live
    /\ row.status \in Live => row.owner # NoWorker /\ row.lease # "none"

(* What the status of a run says about those of its OCR and metadata job. *)
RunSound(run, o, m) ==
    /\ run = "none" => o = "none" /\ m = "none"
    /\ run \in ActiveRunStatuses <=> o \in ActiveJobStatuses \/ m \in ActiveJobStatuses
    /\ run \in ActiveRunStatuses => o \notin {"failed", "cancelled"} /\ m \notin {"failed", "cancelled"}
    /\ run = "succeeded" => o \in {"succeeded", "none"} /\ m \in {"succeeded", "none"}
    /\ run = "failed" => o = "failed" \/ m = "failed"
    /\ run = "rejected" => (o = "cancelled" \/ m = "cancelled") /\ o # "failed" /\ m # "failed"
    /\ m \in {"running", "waiting_review", "succeeded", "failed"} => o \in {"none", "succeeded"}

RunsSound(d) ==
    \A r \in Runs :
        RunSound(d.runs[r], d.jobs[<<r, "ocr">>].status, d.jobs[<<r, "metadata">>].status)

OneActive(d) ==
    \A r1, r2 \in Runs :
        /\ RunDoc[r1] = RunDoc[r2]
        /\ d.runs[r1] \in ActiveRunStatuses /\ d.runs[r2] \in ActiveRunStatuses
        => r1 = r2

(* The inventory rows whose last run is not in R mirror that run. *)
MirroredBut(R, d) ==
    \A x \in Docs :
        /\ d.inventory[x].lastRun = NoRun => d.inventory[x].status = "none"
        /\ d.inventory[x].lastRun # NoRun =>
              /\ RunDoc[d.inventory[x].lastRun] = x
              /\ d.inventory[x].lastRun \notin R =>
                    d.inventory[x].status = d.runs[d.inventory[x].lastRun]

JobWaits(d, j) ==
    d.jobs[j].status = "waiting_review" =>
        \E i \in ReviewsOf(d, j) : d.reviews[i].status \in OpenReviewStatuses

(* Sound, but for the jobs of K, which may wait without an open item. *)
SoundBut(K, d) ==
    /\ d \in Database
    /\ \A j \in Jobs : LiveJob(d.jobs[j])
    /\ RunsSound(d)
    /\ OneActive(d)
    /\ MirroredBut({}, d)
    /\ \A j \in Jobs \ K : JobWaits(d, j)

Sound(d) == SoundBut({}, d)

-----------------------------------------------------------------------------
(* Jobs, runs and tasks. *)

(* A job is a run and a stage. *)
LEMMA JobShape ==
    ASSUME NEW j \in Jobs
    PROVE  /\ RunOf(j) \in Runs /\ StageOf(j) \in Stages /\ j = <<RunOf(j), StageOf(j)>>
           /\ JobDoc(j) \in Docs /\ JobDoc(j) = RunDoc[RunOf(j)]
  BY RunDocAssumption DEF Jobs, RunOf, StageOf, JobDoc

(* A run has an OCR job and a metadata job. *)
LEMMA StageJobs ==
    ASSUME NEW r \in Runs
    PROVE  /\ <<r, "ocr">> \in Jobs /\ <<r, "metadata">> \in Jobs
           /\ RunOf(<<r, "ocr">>) = r /\ RunOf(<<r, "metadata">>) = r
           /\ StageOf(<<r, "ocr">>) = "ocr" /\ StageOf(<<r, "metadata">>) = "metadata"
           /\ <<r, "ocr">> # <<r, "metadata">>
  BY DEF Jobs, Stages, RunOf, StageOf

(* JobsOf(r) are exactly these two. *)
LEMMA JobsOfRun ==
    ASSUME NEW r \in Runs
    PROVE  /\ JobsOf(r) = {<<r, "ocr">>, <<r, "metadata">>}
           /\ JobsOf(r) \subseteq Jobs
           /\ \A j \in Jobs : j \in JobsOf(r) <=> RunOf(j) = r
  BY DEF Jobs, JobsOf, Stages, RunOf

(* Every job is one of the two of its run. *)
LEMMA TwoJobs ==
    ASSUME NEW j \in Jobs
    PROVE  j = <<RunOf(j), "ocr">> \/ j = <<RunOf(j), "metadata">>
  BY JobShape DEF Stages

(* A task belongs to a worker and a job. *)
LEMMA TaskShape ==
    ASSUME NEW t \in TaskIds
    PROVE  JobOf(t) \in Jobs /\ WorkerOf(t) \in Workers
  BY DEF TaskIds, JobOf, WorkerOf

-----------------------------------------------------------------------------
(* What the statements of a transaction write, and that they keep the types. *)

(* Every run event enters a status of the table. *)
LEMMA RunToType ==
    ASSUME NEW e \in RunEvents
    PROVE  RunTo(e) \in RunStatuses
  BY DEF RunEvents, RunTo, RunStatuses, ActiveRunStatuses, TerminalRunStatuses

(* transition_runs_tx writes run statuses only. *)
LEMMA TransitionRunsWrites ==
    ASSUME NEW d \in Database, NEW R, NEW e \in RunEvents
    PROVE  LET n == TransitionRuns(R, e, d)
           IN  /\ n \in Database
               /\ n.jobs = d.jobs /\ n.inventory = d.inventory /\ n.reviews = d.reviews
               /\ \A r \in Runs :
                     n.runs[r] = IF /\ r \in R /\ d.runs[r] \in RunFrom(e)
                                    /\ RequiresNoRunningJob(e) => ~HasRunningJob(d, r)
                                 THEN RunTo(e) ELSE d.runs[r]
  BY RunToType DEF Database, TransitionRuns

(* mirror_run_status_tx restores the mirror of the runs it is given. *)
LEMMA MirrorWrites ==
    ASSUME NEW d \in Database, NEW R \in SUBSET Runs
    PROVE  LET n == MirrorRunStatus(R, d)
           IN  /\ n \in Database
               /\ n.jobs = d.jobs /\ n.runs = d.runs /\ n.reviews = d.reviews
               /\ MirroredBut(R, d) => MirroredBut({}, n)
<1> DEFINE row(x) == IF d.inventory[x].lastRun \in R
                     THEN [d.inventory[x] EXCEPT !.status = d.runs[d.inventory[x].lastRun]]
                     ELSE d.inventory[x]
           n == MirrorRunStatus(R, d)
<1>1. ASSUME NEW x \in Docs
      PROVE  /\ row(x) \in InventoryRow
             /\ row(x).lastRun = d.inventory[x].lastRun
             /\ row(x).status = IF d.inventory[x].lastRun \in R
                                THEN d.runs[d.inventory[x].lastRun] ELSE d.inventory[x].status
  <2>1. d.inventory[x] \in InventoryRow BY DEF Database
  <2>2. CASE d.inventory[x].lastRun \in R
    <3>1. d.runs[d.inventory[x].lastRun] \in RunStatuses \cup {"none"} BY <2>2 DEF Database
    <3> QED BY <2>1, <2>2, <3>1 DEF InventoryRow
  <2> QED BY <2>1, <2>2
<1>2. n = [d EXCEPT !.inventory = [x \in Docs |-> row(x)]] BY DEF MirrorRunStatus
<1> HIDE DEF row
<1>3. [x \in Docs |-> row(x)] \in [Docs -> InventoryRow] BY <1>1
<1>4. /\ n \in Database
      /\ n.jobs = d.jobs /\ n.runs = d.runs /\ n.reviews = d.reviews
      /\ \A x \in Docs : n.inventory[x] = row(x)
  BY <1>2, <1>3 DEF Database
<1> HIDE DEF n
<1>5. ASSUME MirroredBut(R, d) PROVE MirroredBut({}, n)
  BY <1>1, <1>4, <1>5, NullAssumption DEF MirroredBut
<1> QED BY <1>4, <1>5 DEF n

(* Clearing the lease columns keeps a row consistent with its lease. *)
LEMMA UnleasedWrites ==
    ASSUME NEW row \in JobRow, NEW s \in JobStatuses
    PROVE  /\ Unleased(row, s) \in JobRow
           /\ Unleased(row, s).status = s
           /\ s \notin Live => LiveJob(Unleased(row, s))
  BY DEF Unleased, JobRow, LiveJob

(* An update of one job row writes nothing else. *)
LEMMA SetJobWrites ==
    ASSUME NEW d \in Database, NEW j \in Jobs, NEW row \in JobRow
    PROVE  LET n == SetJob(j, row, d)
           IN  /\ n \in Database
               /\ n.runs = d.runs /\ n.inventory = d.inventory /\ n.reviews = d.reviews
               /\ \A k \in Jobs : n.jobs[k] = IF k = j THEN row ELSE d.jobs[k]
  BY DEF Database, SetJob

(* set_inventory_stage_status_tx leaves only the mirror of its run open. *)
LEMMA SetInventoryWrites ==
    ASSUME NEW d \in Database, NEW j \in Jobs, NEW s \in JobStatuses \cup {"rejected"}
    PROVE  LET n == SetInventoryStage(j, s, d)
           IN  /\ n \in Database
               /\ n.runs = d.runs /\ n.jobs = d.jobs /\ n.reviews = d.reviews
               /\ MirroredBut({RunOf(j)}, d) => MirroredBut({RunOf(j)}, n)
<1> DEFINE n == SetInventoryStage(j, s, d)
           x == JobDoc(j)
           row == [lastRun |-> RunOf(j),
                   status  |-> IF s = "failed" THEN "failed" ELSE d.inventory[x].status,
                   stage   |-> [d.inventory[x].stage EXCEPT ![StageOf(j)] = s]]
<1>1. x \in Docs /\ x = RunDoc[RunOf(j)] /\ RunOf(j) \in Runs /\ StageOf(j) \in Stages BY JobShape
<1>2. d.inventory[x] \in InventoryRow BY <1>1 DEF Database
<1>3. row \in InventoryRow /\ row.lastRun = RunOf(j)
  BY <1>1, <1>2 DEF InventoryRow, RunStatuses, TerminalRunStatuses
<1>4. n = [d EXCEPT !.inventory[x] = row] BY DEF SetInventoryStage
<1> HIDE DEF row, x
<1>5. /\ n \in Database
      /\ n.runs = d.runs /\ n.jobs = d.jobs /\ n.reviews = d.reviews
      /\ \A y \in Docs : n.inventory[y] = IF y = x THEN row ELSE d.inventory[y]
  BY <1>1, <1>3, <1>4 DEF Database
<1> HIDE DEF n
<1>6. ASSUME MirroredBut({RunOf(j)}, d) PROVE MirroredBut({RunOf(j)}, n)
  BY <1>1, <1>3, <1>5, <1>6, NullAssumption DEF MirroredBut
<1> QED BY <1>5, <1>6 DEF n

(* cancel_active_run_jobs_tx writes job rows of its run only. *)
LEMMA CancelWrites ==
    ASSUME NEW d \in Database, NEW r \in Runs, NEW K
    PROVE  LET n == CancelActiveJobs(r, K, d)
           IN  /\ n \in Database
               /\ n.runs = d.runs /\ n.inventory = d.inventory /\ n.reviews = d.reviews
               /\ \A j \in Jobs :
                     n.jobs[j] = IF j \in JobsOf(r) \ K /\ d.jobs[j].status \in ActiveJobStatuses
                                 THEN Unleased(d.jobs[j], "cancelled") ELSE d.jobs[j]
  BY UnleasedWrites DEF Database, CancelActiveJobs, JobStatuses

(* Moving runs of R breaks the mirror of no other run. *)
LEMMA MirroredAfterRuns ==
    ASSUME NEW d \in Database, NEW n, NEW R \in SUBSET Runs,
           MirroredBut({}, d) \/ MirroredBut(R, d), n.inventory = d.inventory,
           \A r \in Runs \ R : n.runs[r] = d.runs[r]
    PROVE  MirroredBut(R, n)
  BY DEF MirroredBut, Database, InventoryRow

(* transition_runs_tx followed by mirror_run_status_tx. *)
LEMMA MoveRunsWrites ==
    ASSUME NEW d \in Database, NEW R \in SUBSET Runs, NEW e \in RunEvents, MirroredBut(R, d)
    PROVE  LET n == MirrorRunStatus(R, TransitionRuns(R, e, d))
           IN  /\ n \in Database /\ MirroredBut({}, n)
               /\ n.jobs = d.jobs /\ n.reviews = d.reviews
               /\ \A r \in Runs :
                     n.runs[r] = IF /\ r \in R /\ d.runs[r] \in RunFrom(e)
                                    /\ RequiresNoRunningJob(e) => ~HasRunningJob(d, r)
                                 THEN RunTo(e) ELSE d.runs[r]
<1> DEFINE m == TransitionRuns(R, e, d)
<1>1. /\ m \in Database
      /\ m.jobs = d.jobs /\ m.inventory = d.inventory /\ m.reviews = d.reviews
      /\ \A r \in Runs :
            m.runs[r] = IF /\ r \in R /\ d.runs[r] \in RunFrom(e)
                           /\ RequiresNoRunningJob(e) => ~HasRunningJob(d, r)
                        THEN RunTo(e) ELSE d.runs[r]
  BY TransitionRunsWrites
<1> HIDE DEF m
<1>2. MirroredBut(R, m) BY <1>1, MirroredAfterRuns
<1> QED BY <1>1, <1>2, MirrorWrites DEF m

(* The same for one run. *)
LEMMA MoveRunWrites ==
    ASSUME NEW d \in Database, NEW q \in Runs, NEW e \in RunEvents, MirroredBut({q}, d),
           ~RequiresNoRunningJob(e)
    PROVE  LET n == MirrorRunStatus({q}, TransitionRuns({q}, e, d))
           IN  /\ n \in Database /\ MirroredBut({}, n)
               /\ n.jobs = d.jobs /\ n.reviews = d.reviews
               /\ \A r \in Runs :
                     n.runs[r] = IF r = q /\ d.runs[r] \in RunFrom(e) THEN RunTo(e) ELSE d.runs[r]
<1> DEFINE n == MirrorRunStatus({q}, TransitionRuns({q}, e, d))
<1>1. {q} \in SUBSET Runs OBVIOUS
<1>2. /\ n \in Database /\ MirroredBut({}, n)
      /\ n.jobs = d.jobs /\ n.reviews = d.reviews
      /\ \A r \in Runs :
            n.runs[r] = IF /\ r \in {q} /\ d.runs[r] \in RunFrom(e)
                           /\ RequiresNoRunningJob(e) => ~HasRunningJob(d, r)
                        THEN RunTo(e) ELSE d.runs[r]
  BY <1>1, MoveRunsWrites
<1> HIDE DEF n
<1>3. \A r \in Runs : n.runs[r] = IF r = q /\ d.runs[r] \in RunFrom(e) THEN RunTo(e) ELSE d.runs[r]
  BY <1>2
<1> QED BY <1>2, <1>3 DEF n

-----------------------------------------------------------------------------
(* What the transactions write. *)

(* complete_job. *)
LEMMA CompleteWrites ==
    ASSUME NEW d \in Database, NEW j \in Jobs, MirroredBut({}, d)
    PROVE  LET n == CompleteJob(j, d)
           IN  /\ n \in Database /\ MirroredBut({}, n) /\ n.reviews = d.reviews
               /\ \A k \in Jobs : n.jobs[k] = IF k = j THEN Unleased(d.jobs[j], "succeeded")
                                                    ELSE d.jobs[k]
               /\ \A r \in Runs :
                     n.runs[r] = IF r = RunOf(j) /\ d.runs[r] \in ActiveRunStatuses
                                 THEN IF HasActiveJob(n, r) THEN "queued" ELSE "succeeded"
                                 ELSE d.runs[r]
<1> DEFINE r0 == RunOf(j)
           d1 == SetJob(j, Unleased(d.jobs[j], "succeeded"), d)
           d2 == SetInventoryStage(j, "succeeded", d1)
           e  == IF HasActiveJob(d2, r0) THEN "StageAdvanced" ELSE "Succeeded"
           n  == MirrorRunStatus({r0}, TransitionRuns({r0}, e, d2))
<1>0. r0 \in Runs BY JobShape
<1>1. Unleased(d.jobs[j], "succeeded") \in JobRow
  BY UnleasedWrites DEF Database, JobStatuses
<1>2. /\ d1 \in Database
      /\ d1.runs = d.runs /\ d1.inventory = d.inventory /\ d1.reviews = d.reviews
      /\ \A k \in Jobs : d1.jobs[k] = IF k = j THEN Unleased(d.jobs[j], "succeeded") ELSE d.jobs[k]
  BY <1>1, SetJobWrites
<1>3. MirroredBut({r0}, d1) BY <1>0, <1>2, MirroredAfterRuns
<1> HIDE DEF d1
<1>4. /\ d2 \in Database /\ MirroredBut({r0}, d2)
      /\ d2.runs = d1.runs /\ d2.jobs = d1.jobs /\ d2.reviews = d1.reviews
  BY <1>2, <1>3, SetInventoryWrites DEF JobStatuses
<1> HIDE DEF d2
<1>5. e \in RunEvents /\ RunFrom(e) = ActiveRunStatuses /\ ~RequiresNoRunningJob(e)
      /\ RunTo(e) = IF HasActiveJob(d2, r0) THEN "queued" ELSE "succeeded"
  BY DEF RunEvents, RunFrom, RunTo, RequiresNoRunningJob
<1>6. n = CompleteJob(j, d) BY DEF d2, d1, CompleteJob, SettleRunAfterStage
<1> HIDE DEF e
<1>7. /\ n \in Database /\ MirroredBut({}, n)
      /\ n.jobs = d2.jobs /\ n.reviews = d2.reviews
      /\ \A r \in Runs : n.runs[r] = IF r = r0 /\ d2.runs[r] \in RunFrom(e)
                                   THEN RunTo(e) ELSE d2.runs[r]
  BY <1>0, <1>4, <1>5, MoveRunWrites
<1> HIDE DEF n
<1>8. HasActiveJob(n, r0) <=> HasActiveJob(d2, r0) BY <1>7 DEF HasActiveJob
<1>9. \A k \in Jobs : n.jobs[k] = IF k = j THEN Unleased(d.jobs[j], "succeeded") ELSE d.jobs[k]
  BY <1>2, <1>4, <1>7
<1>10. \A r \in Runs : n.runs[r] = IF r = r0 /\ d.runs[r] \in ActiveRunStatuses
                                 THEN IF HasActiveJob(n, r) THEN "queued" ELSE "succeeded"
                                 ELSE d.runs[r]
  BY <1>2, <1>4, <1>5, <1>7, <1>8
<1>11. n.reviews = d.reviews BY <1>2, <1>4, <1>7
<1> QED BY <1>6, <1>7, <1>9, <1>10, <1>11

(* A job that fails for good, in a database d whose row of j says so already. *)
LEMMA PermanentWrites ==
    ASSUME NEW d \in Database, NEW j \in Jobs, MirroredBut({}, d)
    PROVE  LET n == PermanentFailure(j, SetJob(j, Unleased(d.jobs[j], "failed"), d))
           IN  /\ n \in Database /\ MirroredBut({}, n) /\ n.reviews = d.reviews
               /\ \A k \in Jobs :
                     n.jobs[k] = IF k = j THEN Unleased(d.jobs[j], "failed")
                                 ELSE IF RunOf(k) = RunOf(j) /\ d.jobs[k].status \in ActiveJobStatuses
                                 THEN Unleased(d.jobs[k], "cancelled") ELSE d.jobs[k]
               /\ \A r \in Runs :
                     n.runs[r] = IF r = RunOf(j) /\ d.runs[r] \in ActiveRunStatuses
                                 THEN "failed" ELSE d.runs[r]
<1> DEFINE r0 == RunOf(j)
           d1 == SetJob(j, Unleased(d.jobs[j], "failed"), d)
           d2 == SetInventoryStage(j, "failed", d1)
           d3 == MirrorRunStatus({r0}, TransitionRuns({r0}, "Failed", d2))
           n  == CancelActiveJobs(r0, {j}, d3)
<1>0. r0 \in Runs BY JobShape
<1>1. Unleased(d.jobs[j], "failed") \in JobRow
  BY UnleasedWrites DEF Database, JobStatuses
<1>2. /\ d1 \in Database
      /\ d1.runs = d.runs /\ d1.inventory = d.inventory /\ d1.reviews = d.reviews
      /\ \A k \in Jobs : d1.jobs[k] = IF k = j THEN Unleased(d.jobs[j], "failed") ELSE d.jobs[k]
  BY <1>1, SetJobWrites
<1>3. MirroredBut({r0}, d1) BY <1>0, <1>2, MirroredAfterRuns
<1>4. n = PermanentFailure(j, d1) BY DEF PermanentFailure
<1> HIDE DEF d1
<1>5. /\ d2 \in Database /\ MirroredBut({r0}, d2)
      /\ d2.runs = d1.runs /\ d2.jobs = d1.jobs /\ d2.reviews = d1.reviews
  BY <1>2, <1>3, SetInventoryWrites DEF JobStatuses
<1> HIDE DEF d2
<1>6. /\ "Failed" \in RunEvents /\ RunFrom("Failed") = ActiveRunStatuses
      /\ ~RequiresNoRunningJob("Failed") /\ RunTo("Failed") = "failed"
  BY DEF RunEvents, RunFrom, RunTo, RequiresNoRunningJob
<1>7. /\ d3 \in Database /\ MirroredBut({}, d3)
      /\ d3.jobs = d2.jobs /\ d3.reviews = d2.reviews
      /\ \A r \in Runs : d3.runs[r] = IF r = r0 /\ d2.runs[r] \in RunFrom("Failed")
                                    THEN RunTo("Failed") ELSE d2.runs[r]
  BY <1>0, <1>5, <1>6, MoveRunWrites
<1> HIDE DEF d3
<1>8. /\ n \in Database
      /\ n.runs = d3.runs /\ n.inventory = d3.inventory /\ n.reviews = d3.reviews
      /\ \A k \in Jobs : n.jobs[k] = IF k \in JobsOf(r0) \ {j} /\ d3.jobs[k].status \in ActiveJobStatuses
                                   THEN Unleased(d3.jobs[k], "cancelled") ELSE d3.jobs[k]
  BY <1>0, <1>7, CancelWrites
<1> HIDE DEF n
<1>9. MirroredBut({}, n) BY <1>7, <1>8 DEF MirroredBut
<1>10. ASSUME NEW k \in Jobs
       PROVE  n.jobs[k] = IF k = j THEN Unleased(d.jobs[j], "failed")
                          ELSE IF RunOf(k) = RunOf(j) /\ d.jobs[k].status \in ActiveJobStatuses
                          THEN Unleased(d.jobs[k], "cancelled") ELSE d.jobs[k]
  <2>1. d3.jobs[k] = IF k = j THEN Unleased(d.jobs[j], "failed") ELSE d.jobs[k]
    BY <1>2, <1>5, <1>7
  <2>2. k \in JobsOf(r0) <=> RunOf(k) = r0 BY <1>0, JobsOfRun
  <2> QED BY <1>8, <2>1, <2>2
<1>11. \A r \in Runs : n.runs[r] = IF r = RunOf(j) /\ d.runs[r] \in ActiveRunStatuses
                                 THEN "failed" ELSE d.runs[r]
  BY <1>2, <1>5, <1>6, <1>7, <1>8
<1>12. n.reviews = d.reviews BY <1>2, <1>5, <1>7, <1>8
<1> QED BY <1>4, <1>8, <1>9, <1>10, <1>11, <1>12 DEF d1

(* The claim of one job. *)
LEMMA ClaimWrites ==
    ASSUME NEW d \in Database, NEW j \in Jobs, NEW w \in Workers, MirroredBut({}, d)
    PROVE  LET n == ClaimJob(j, w, d)
           IN  /\ n \in Database /\ MirroredBut({}, n) /\ n.reviews = d.reviews
               /\ \A k \in Jobs : n.jobs[k] = IF k = j THEN Leased(d.jobs[j], w) ELSE d.jobs[k]
               /\ \A r \in Runs :
                     n.runs[r] = IF r = RunOf(j) /\ d.runs[r] \in {"queued", "running", "waiting_review"}
                                 THEN "running" ELSE d.runs[r]
<1> DEFINE r0 == RunOf(j)
           d1 == SetJob(j, Leased(d.jobs[j], w), d)
           n  == MirrorRunStatus({r0}, TransitionRuns({r0}, "Claimed", d1))
<1>0. r0 \in Runs BY JobShape
<1>1. Leased(d.jobs[j], w) \in JobRow
  <2>1. d.jobs[j] \in JobRow BY DEF Database
  <2>2. d.jobs[j].attempts + 1 \in Nat BY <2>1 DEF JobRow
  <2>3. "running" \in JobStatuses BY DEF JobStatuses, ActiveJobStatuses
  <2> QED BY <2>1, <2>2, <2>3 DEF JobRow, Leased
<1>2. /\ d1 \in Database
      /\ d1.runs = d.runs /\ d1.inventory = d.inventory /\ d1.reviews = d.reviews
      /\ \A k \in Jobs : d1.jobs[k] = IF k = j THEN Leased(d.jobs[j], w) ELSE d.jobs[k]
  BY <1>1, SetJobWrites
<1>3. MirroredBut({r0}, d1) BY <1>0, <1>2, MirroredAfterRuns
<1>4. n = ClaimJob(j, w, d) BY DEF ClaimJob
<1> HIDE DEF d1
<1>5. /\ "Claimed" \in RunEvents /\ RunFrom("Claimed") = {"queued", "running", "waiting_review"}
      /\ ~RequiresNoRunningJob("Claimed") /\ RunTo("Claimed") = "running"
  BY DEF RunEvents, RunFrom, RunTo, RequiresNoRunningJob
<1>6. /\ n \in Database /\ MirroredBut({}, n)
      /\ n.jobs = d1.jobs /\ n.reviews = d1.reviews
      /\ \A r \in Runs : n.runs[r] = IF r = r0 /\ d1.runs[r] \in RunFrom("Claimed")
                                   THEN RunTo("Claimed") ELSE d1.runs[r]
  BY <1>0, <1>2, <1>3, <1>5, MoveRunWrites
<1> HIDE DEF n
<1>7. \A r \in Runs : n.runs[r] = IF r = r0 /\ d.runs[r] \in {"queued", "running", "waiting_review"}
                               THEN "running" ELSE d.runs[r]
  BY <1>2, <1>5, <1>6
<1>8. \A k \in Jobs : n.jobs[k] = IF k = j THEN Leased(d.jobs[j], w) ELSE d.jobs[k] BY <1>2, <1>6
<1>9. n.reviews = d.reviews BY <1>2, <1>6
<1> QED BY <1>4, <1>6, <1>7, <1>8, <1>9

(* release_job_lease_for_cooldown. *)
LEMMA ReleaseWrites ==
    ASSUME NEW d \in Database, NEW j \in Jobs, MirroredBut({}, d)
    PROVE  LET n == ReleaseJob(j, d)
           IN  /\ n \in Database /\ MirroredBut({}, n) /\ n.reviews = d.reviews
               /\ \A k \in Jobs : k # j => n.jobs[k] = d.jobs[k]
               /\ n.jobs[j].status = "queued" /\ LiveJob(n.jobs[j])
               /\ \A r \in Runs : n.runs[r] = d.runs[r] \/ (d.runs[r] = "running" /\ n.runs[r] = "queued")
<1> DEFINE r0  == RunOf(j)
           row == [Unleased(d.jobs[j], "queued") EXCEPT
                     !.due = FALSE, !.attempts = IF @ > 0 THEN @ - 1 ELSE 0]
           d1  == SetJob(j, row, d)
           n   == MirrorRunStatus({r0}, TransitionRuns({r0}, "LeaseReleased", d1))
<1>0. r0 \in Runs /\ {r0} \in SUBSET Runs BY JobShape
<1>1. row \in JobRow /\ row.status = "queued" /\ LiveJob(row)
  <2>1. d.jobs[j] \in JobRow BY DEF Database
  <2>2. (IF d.jobs[j].attempts > 0 THEN d.jobs[j].attempts - 1 ELSE 0) \in Nat BY <2>1 DEF JobRow
  <2>3. Unleased(d.jobs[j], "queued") \in JobRow /\ LiveJob(Unleased(d.jobs[j], "queued"))
        /\ Unleased(d.jobs[j], "queued").status = "queued"
        /\ Unleased(d.jobs[j], "queued").attempts = d.jobs[j].attempts
    BY <2>1, UnleasedWrites, ZenonT(40) DEF JobStatuses, ActiveJobStatuses, Live, Unleased, JobRow
  <2> QED BY <2>2, <2>3 DEF JobRow, LiveJob
<1>2. n = ReleaseJob(j, d) BY DEF ReleaseJob
<1> HIDE DEF row
<1>3. /\ d1 \in Database
      /\ d1.runs = d.runs /\ d1.inventory = d.inventory /\ d1.reviews = d.reviews
      /\ \A k \in Jobs : d1.jobs[k] = IF k = j THEN row ELSE d.jobs[k]
  BY <1>1, SetJobWrites
<1>4. MirroredBut({r0}, d1) BY <1>0, <1>3, MirroredAfterRuns
<1> HIDE DEF d1
<1>5. "LeaseReleased" \in RunEvents /\ RunFrom("LeaseReleased") = {"running"}
      /\ RunTo("LeaseReleased") = "queued"
  BY DEF RunEvents, RunFrom, RunTo
<1>6. /\ n \in Database /\ MirroredBut({}, n)
      /\ n.jobs = d1.jobs /\ n.reviews = d1.reviews
      /\ \A r \in Runs :
            n.runs[r] = IF /\ r \in {r0} /\ d1.runs[r] \in RunFrom("LeaseReleased")
                           /\ RequiresNoRunningJob("LeaseReleased") => ~HasRunningJob(d1, r)
                        THEN RunTo("LeaseReleased") ELSE d1.runs[r]
  BY <1>0, <1>3, <1>4, <1>5, MoveRunsWrites
<1> HIDE DEF n
<1>7. ASSUME NEW r \in Runs
      PROVE  n.runs[r] = d.runs[r] \/ (d.runs[r] = "running" /\ n.runs[r] = "queued")
  <2>1. \/ n.runs[r] = d1.runs[r]
        \/ d1.runs[r] \in RunFrom("LeaseReleased") /\ n.runs[r] = RunTo("LeaseReleased")
    BY <1>6
  <2> QED BY <1>3, <1>5, <2>1
<1>8. /\ \A k \in Jobs : k # j => n.jobs[k] = d.jobs[k]
      /\ n.jobs[j].status = "queued" /\ LiveJob(n.jobs[j])
      /\ n.reviews = d.reviews
  BY <1>1, <1>3, <1>6
<1> QED BY <1>2, <1>6, <1>7, <1>8

(* create_review_item. *)
LEMMA InsertReviewWrites ==
    ASSUME NEW d \in Database, NEW j \in Jobs, NEW i \in ReviewIds, MirroredBut({}, d)
    PROVE  LET n == InsertReview(i, j, d)
           IN  /\ n \in Database /\ MirroredBut({}, n)
               /\ n.reviews = [d.reviews EXCEPT ![i] = [status |-> "pending", job |-> j]]
               /\ n.jobs = [d.jobs EXCEPT ![j].status = "waiting_review"]
               /\ \A r \in Runs :
                     n.runs[r] = IF r = RunOf(j) /\ d.runs[r] \in ActiveRunStatuses
                                 THEN "waiting_review" ELSE d.runs[r]
<1> DEFINE r0 == RunOf(j)
           d1 == [d EXCEPT !.jobs[j].status = "waiting_review",
                           !.reviews[i] = [status |-> "pending", job |-> j]]
           d2 == TransitionRuns({r0}, "AwaitingReview", d1)
           d3 == SetInventoryStage(j, "waiting_review", d2)
           n  == MirrorRunStatus({r0}, d3)
<1>0. r0 \in Runs /\ {r0} \in SUBSET Runs BY JobShape
<1>1. /\ d1 \in Database
      /\ d1.runs = d.runs /\ d1.inventory = d.inventory
      /\ d1.reviews = [d.reviews EXCEPT ![i] = [status |-> "pending", job |-> j]]
      /\ d1.jobs = [d.jobs EXCEPT ![j].status = "waiting_review"]
  <2>1. [d.jobs[j] EXCEPT !.status = "waiting_review"] \in JobRow
    BY DEF Database, JobRow, JobStatuses, ActiveJobStatuses
  <2>2. [status |-> "pending", job |-> j] \in ReviewRow
    BY DEF ReviewRow, ReviewStatuses, OpenReviewStatuses
  <2> QED BY <2>1, <2>2 DEF Database
<1>2. n = InsertReview(i, j, d) BY DEF InsertReview
<1> HIDE DEF d1
<1>3. /\ "AwaitingReview" \in RunEvents /\ RunFrom("AwaitingReview") = ActiveRunStatuses
      /\ ~RequiresNoRunningJob("AwaitingReview") /\ RunTo("AwaitingReview") = "waiting_review"
  BY DEF RunEvents, RunFrom, RunTo, RequiresNoRunningJob
<1>4. /\ d2 \in Database
      /\ d2.jobs = d1.jobs /\ d2.inventory = d1.inventory /\ d2.reviews = d1.reviews
      /\ \A r \in Runs :
            d2.runs[r] = IF /\ r \in {r0} /\ d1.runs[r] \in RunFrom("AwaitingReview")
                            /\ RequiresNoRunningJob("AwaitingReview") => ~HasRunningJob(d1, r)
                         THEN RunTo("AwaitingReview") ELSE d1.runs[r]
  BY <1>0, <1>1, <1>3, TransitionRunsWrites
<1> HIDE DEF d2
<1>5. \A r \in Runs : d2.runs[r] = IF r = r0 /\ d.runs[r] \in ActiveRunStatuses
                                THEN "waiting_review" ELSE d.runs[r]
  BY <1>1, <1>3, <1>4
<1>6. MirroredBut({r0}, d2)
  <2>1. \A r \in Runs \ {r0} : d2.runs[r] = d.runs[r] BY <1>5
  <2>2. d2.inventory = d.inventory BY <1>1, <1>4
  <2> QED BY <1>0, <2>1, <2>2, MirroredAfterRuns
<1>7. /\ d3 \in Database /\ MirroredBut({r0}, d3)
      /\ d3.runs = d2.runs /\ d3.jobs = d2.jobs /\ d3.reviews = d2.reviews
  BY <1>4, <1>6, SetInventoryWrites DEF JobStatuses, ActiveJobStatuses
<1> HIDE DEF d3
<1>8. /\ n \in Database /\ MirroredBut({}, n)
      /\ n.jobs = d3.jobs /\ n.runs = d3.runs /\ n.reviews = d3.reviews
  BY <1>0, <1>7, MirrorWrites
<1> HIDE DEF n
<1>9. \A r \in Runs : n.runs[r] = IF r = r0 /\ d.runs[r] \in ActiveRunStatuses
                               THEN "waiting_review" ELSE d.runs[r]
  BY <1>5, <1>7, <1>8
<1> QED BY <1>1, <1>2, <1>4, <1>7, <1>8, <1>9

(* prepare_run_with_jobs_on_tx. *)
LEMMA InsertRunWrites ==
    ASSUME NEW d \in Database, NEW q \in Runs, NEW S \in SUBSET Stages, MirroredBut({}, d)
    PROVE  LET n == InsertRun(q, S, d)
           IN  /\ n \in Database /\ MirroredBut({}, n) /\ n.reviews = d.reviews
               /\ \A j \in Jobs :
                     /\ RunOf(j) = q /\ StageOf(j) \in S =>
                           n.jobs[j].status = "queued" /\ LiveJob(n.jobs[j])
                     /\ ~(RunOf(j) = q /\ StageOf(j) \in S) => n.jobs[j] = d.jobs[j]
               /\ \A r \in Runs : n.runs[r] = IF r = q THEN "queued" ELSE d.runs[r]
<1> DEFINE n   == InsertRun(q, S, d)
           x   == RunDoc[q]
           inv == [d.inventory[x] EXCEPT !.lastRun = q, !.status = "queued"]
           row == [NoJobRow EXCEPT !.status = "queued"]
           jobs == [j \in Jobs |-> IF j \in {q} \X S THEN row ELSE d.jobs[j]]
<1>1. x \in Docs BY RunDocAssumption
<1>2. inv \in InventoryRow /\ inv.lastRun = q /\ inv.status = "queued"
  <2>1. d.inventory[x] \in InventoryRow BY <1>1 DEF Database
  <2> QED BY <2>1 DEF InventoryRow, RunStatuses, ActiveRunStatuses
<1>3. row \in JobRow /\ row.status = "queued" /\ LiveJob(row)
  BY MaxAttemptsAssumption DEF NoJobRow, JobRow, JobStatuses, ActiveJobStatuses, LiveJob, Live
<1>4. n = [d EXCEPT !.runs[q] = "queued", !.jobs = jobs, !.inventory[x] = inv]
  BY DEF InsertRun
<1> HIDE DEF inv, row
<1>5. jobs \in [Jobs -> JobRow] BY <1>3 DEF Database
<1>6. \A j \in Jobs : j \in {q} \X S <=> RunOf(j) = q /\ StageOf(j) \in S
  BY DEF Jobs, RunOf, StageOf
<1>7. \A j \in Jobs : jobs[j] = IF RunOf(j) = q /\ StageOf(j) \in S THEN row ELSE d.jobs[j]
  BY <1>6
<1> HIDE DEF jobs, x
<1>8. /\ n \in Database
      /\ n.jobs = jobs /\ n.reviews = d.reviews
      /\ \A r \in Runs : n.runs[r] = IF r = q THEN "queued" ELSE d.runs[r]
      /\ \A y \in Docs : n.inventory[y] = IF y = x THEN inv ELSE d.inventory[y]
  <2> DEFINE ru == [d.runs EXCEPT ![q] = "queued"]
             iv == [d.inventory EXCEPT ![x] = inv]
  <2>1. "queued" \in RunStatuses BY DEF RunStatuses, ActiveRunStatuses
  <2>2. /\ ru \in [Runs -> RunStatuses \cup {"none"}]
        /\ \A r \in Runs : ru[r] = IF r = q THEN "queued" ELSE d.runs[r]
    BY <2>1 DEF Database
  <2>3. /\ iv \in [Docs -> InventoryRow]
        /\ \A y \in Docs : iv[y] = IF y = x THEN inv ELSE d.inventory[y]
    BY <1>1, <1>2 DEF Database
  <2>4. n = [d EXCEPT !.runs = ru, !.jobs = jobs, !.inventory = iv] BY <1>4 DEF Database
  <2> HIDE DEF ru, iv
  <2>5. n \in Database BY <1>5, <2>2, <2>3, <2>4 DEF Database
  <2>6. n.runs = ru /\ n.jobs = jobs /\ n.inventory = iv /\ n.reviews = d.reviews
    BY <2>4 DEF Database
  <2> QED BY <2>2, <2>3, <2>5, <2>6
<1> HIDE DEF n
<1>9. MirroredBut({}, n)
  <2> SUFFICES ASSUME NEW y \in Docs
               PROVE  /\ n.inventory[y].lastRun = NoRun => n.inventory[y].status = "none"
                      /\ n.inventory[y].lastRun # NoRun =>
                            /\ RunDoc[n.inventory[y].lastRun] = y
                            /\ n.inventory[y].status = n.runs[n.inventory[y].lastRun]
    BY DEF MirroredBut
  <2>1. CASE y = x
    BY <1>2, <1>8, <2>1, NullAssumption DEF x
  <2>2. CASE y # x
    <3>1. n.inventory[y] = d.inventory[y] BY <1>8, <2>2
    <3>2. d.inventory[y].lastRun \in Runs \cup {NoRun} BY DEF Database, InventoryRow
    <3>3. d.inventory[y].lastRun # NoRun => d.inventory[y].lastRun # q
      BY <2>2 DEF MirroredBut, x
    <3> QED BY <1>8, <3>1, <3>2, <3>3 DEF MirroredBut
  <2> QED BY <2>1, <2>2
<1> QED BY <1>3, <1>7, <1>8, <1>9 DEF n

(* The rejecting end of finalize_review_aggregate_tx. *)
LEMMA RejectWrites ==
    ASSUME NEW d \in Database, NEW j \in Jobs, MirroredBut({}, d)
    PROVE  LET c == SetInventoryStage(j, "rejected", SetJob(j, Unleased(d.jobs[j], "cancelled"), d))
               n == MirrorRunStatus({RunOf(j)},
                        TransitionRuns({RunOf(j)}, "Rejected", CancelActiveJobs(RunOf(j), {}, c)))
           IN  /\ n \in Database /\ MirroredBut({}, n) /\ n.reviews = d.reviews
               /\ \A k \in Jobs :
                     n.jobs[k] = IF k = j THEN Unleased(d.jobs[j], "cancelled")
                                 ELSE IF RunOf(k) = RunOf(j) /\ d.jobs[k].status \in ActiveJobStatuses
                                 THEN Unleased(d.jobs[k], "cancelled") ELSE d.jobs[k]
               /\ \A r \in Runs :
                     n.runs[r] = IF r = RunOf(j) /\ d.runs[r] \in ActiveRunStatuses
                                 THEN "rejected" ELSE d.runs[r]
<1> DEFINE r0 == RunOf(j)
           d1 == SetJob(j, Unleased(d.jobs[j], "cancelled"), d)
           d2 == SetInventoryStage(j, "rejected", d1)
           d3 == CancelActiveJobs(r0, {}, d2)
           n  == MirrorRunStatus({r0}, TransitionRuns({r0}, "Rejected", d3))
<1>0. r0 \in Runs BY JobShape
<1>1. Unleased(d.jobs[j], "cancelled") \in JobRow
      /\ Unleased(d.jobs[j], "cancelled").status = "cancelled"
  BY UnleasedWrites DEF Database, JobStatuses
<1>2. /\ d1 \in Database
      /\ d1.runs = d.runs /\ d1.inventory = d.inventory /\ d1.reviews = d.reviews
      /\ \A k \in Jobs : d1.jobs[k] = IF k = j THEN Unleased(d.jobs[j], "cancelled") ELSE d.jobs[k]
  BY <1>1, SetJobWrites
<1>3. MirroredBut({r0}, d1) BY <1>0, <1>2, MirroredAfterRuns
<1> HIDE DEF d1
<1>4. /\ d2 \in Database /\ MirroredBut({r0}, d2)
      /\ d2.runs = d1.runs /\ d2.jobs = d1.jobs /\ d2.reviews = d1.reviews
  BY <1>2, <1>3, SetInventoryWrites
<1> HIDE DEF d2
<1>5. /\ d3 \in Database
      /\ d3.runs = d2.runs /\ d3.inventory = d2.inventory /\ d3.reviews = d2.reviews
      /\ \A k \in Jobs : d3.jobs[k] = IF k \in JobsOf(r0) \ {} /\ d2.jobs[k].status \in ActiveJobStatuses
                                    THEN Unleased(d2.jobs[k], "cancelled") ELSE d2.jobs[k]
  BY <1>0, <1>4, CancelWrites
<1> HIDE DEF d3
<1>6. MirroredBut({r0}, d3) BY <1>4, <1>5 DEF MirroredBut
<1>7. /\ "Rejected" \in RunEvents /\ RunFrom("Rejected") = ActiveRunStatuses
      /\ ~RequiresNoRunningJob("Rejected") /\ RunTo("Rejected") = "rejected"
  BY DEF RunEvents, RunFrom, RunTo, RequiresNoRunningJob
<1>8. /\ n \in Database /\ MirroredBut({}, n)
      /\ n.jobs = d3.jobs /\ n.reviews = d3.reviews
      /\ \A r \in Runs : n.runs[r] = IF r = r0 /\ d3.runs[r] \in RunFrom("Rejected")
                                   THEN RunTo("Rejected") ELSE d3.runs[r]
  BY <1>0, <1>5, <1>6, <1>7, MoveRunWrites
<1> HIDE DEF n
<1>9. ASSUME NEW k \in Jobs
      PROVE  n.jobs[k] = IF k = j THEN Unleased(d.jobs[j], "cancelled")
                         ELSE IF RunOf(k) = RunOf(j) /\ d.jobs[k].status \in ActiveJobStatuses
                         THEN Unleased(d.jobs[k], "cancelled") ELSE d.jobs[k]
  <2>1. k \in JobsOf(r0) <=> RunOf(k) = r0 BY <1>0, JobsOfRun
  <2>2. d2.jobs[k] = IF k = j THEN Unleased(d.jobs[j], "cancelled") ELSE d.jobs[k]
    BY <1>2, <1>4
  <2>3. "cancelled" \notin ActiveJobStatuses BY DEF ActiveJobStatuses
  <2> QED BY <1>1, <1>5, <1>8, <2>1, <2>2, <2>3
<1>10. \A r \in Runs : n.runs[r] = IF r = RunOf(j) /\ d.runs[r] \in ActiveRunStatuses
                                 THEN "rejected" ELSE d.runs[r]
  BY <1>2, <1>4, <1>5, <1>7, <1>8
<1>11. n.reviews = d.reviews BY <1>2, <1>4, <1>5, <1>8
<1> QED BY <1>8, <1>9, <1>10, <1>11 DEF n, d3, d2, d1

-----------------------------------------------------------------------------
(* How soundness is carried over a step. *)

(* The rows of a database are typed. *)
LEMMA StatusTypes ==
    ASSUME NEW d \in Database
    PROVE  /\ \A j \in Jobs : d.jobs[j] \in JobRow /\ d.jobs[j].status \in JobStatuses \cup {"none"}
           /\ \A r \in Runs : d.runs[r] \in RunStatuses \cup {"none"}
           /\ \A i \in ReviewIds : d.reviews[i] \in ReviewRow
<1>1. \A j \in Jobs : d.jobs[j] \in JobRow BY DEF Database
<1>2. \A j \in Jobs : d.jobs[j].status \in JobStatuses \cup {"none"} BY <1>1 DEF JobRow
<1> QED BY <1>1, <1>2 DEF Database

(* A job that does not start to wait keeps its open items while the items stay. *)
LEMMA WaitsKept ==
    ASSUME NEW d, NEW n, NEW j \in Jobs, n.reviews = d.reviews, JobWaits(d, j),
           n.jobs[j].status = "waiting_review" => d.jobs[j].status = "waiting_review"
    PROVE  JobWaits(n, j)
  BY DEF JobWaits, ReviewsOf

(* Only the run q and its jobs change. *)
LEMMA RunStep ==
    ASSUME NEW K, NEW L, NEW d, NEW n \in Database, SoundBut(K, d), NEW q \in Runs,
           \A r \in Runs : r # q => n.runs[r] = d.runs[r],
           \A j \in Jobs : RunOf(j) # q => n.jobs[j] = d.jobs[j],
           LiveJob(n.jobs[<<q, "ocr">>]), LiveJob(n.jobs[<<q, "metadata">>]),
           RunSound(n.runs[q], n.jobs[<<q, "ocr">>].status, n.jobs[<<q, "metadata">>].status),
           n.runs[q] \in ActiveRunStatuses =>
               d.runs[q] \in ActiveRunStatuses \/ NoActiveRun(d, RunDoc[q]),
           MirroredBut({}, n),
           \A j \in Jobs \ L : JobWaits(n, j)
    PROVE  SoundBut(L, n)
<1>1. \A j \in Jobs : LiveJob(n.jobs[j])
  <2> SUFFICES ASSUME NEW j \in Jobs PROVE LiveJob(n.jobs[j]) OBVIOUS
  <2>1. CASE RunOf(j) = q BY <2>1, TwoJobs
  <2>2. CASE RunOf(j) # q BY <2>2 DEF SoundBut
  <2> QED BY <2>1, <2>2
<1>2. RunsSound(n)
  <2> SUFFICES ASSUME NEW r \in Runs
               PROVE  RunSound(n.runs[r], n.jobs[<<r, "ocr">>].status, n.jobs[<<r, "metadata">>].status)
    BY DEF RunsSound
  <2>1. CASE r = q BY <2>1
  <2>2. CASE r # q BY <2>2, StageJobs DEF SoundBut, RunsSound
  <2> QED BY <2>1, <2>2
<1>3. OneActive(n) BY DEF SoundBut, OneActive, NoActiveRun
<1> QED BY <1>1, <1>2, <1>3 DEF SoundBut

(* A run stays consistent while its OCR job moves between active statuses. *)
LEMMA OcrStaysActive ==
    ASSUME NEW run \in ActiveRunStatuses, NEW run1 \in ActiveRunStatuses,
           NEW o \in ActiveJobStatuses, NEW o1 \in ActiveJobStatuses, NEW m, RunSound(run, o, m)
    PROVE  RunSound(run1, o1, m)
  BY DEF RunSound, ActiveJobStatuses, ActiveRunStatuses

(* The same for its metadata job, which leaves the queue only after OCR. *)
LEMMA MetadataStaysActive ==
    ASSUME NEW run \in ActiveRunStatuses, NEW run1 \in ActiveRunStatuses,
           NEW m \in ActiveJobStatuses, NEW m1 \in ActiveJobStatuses, NEW o, RunSound(run, o, m),
           m1 = "queued" \/ m1 = m \/ o \in {"none", "succeeded"}
    PROVE  RunSound(run1, o, m1)
  BY DEF RunSound, ActiveJobStatuses, ActiveRunStatuses

(* Nothing but the row of one job changes, and it stays active, while runs
   only move between active statuses. *)
LEMMA ActiveJobStep ==
    ASSUME NEW d, NEW n \in Database, Sound(d), NEW j \in Jobs,
           d.jobs[j].status \in ActiveJobStatuses, n.jobs[j].status \in ActiveJobStatuses,
           LiveJob(n.jobs[j]),
           \A k \in Jobs : k # j => n.jobs[k] = d.jobs[k],
           \A r \in Runs : n.runs[r] = d.runs[r] \/ (d.runs[r] \in ActiveRunStatuses /\ n.runs[r] \in ActiveRunStatuses),
           \/ n.jobs[j].status = "queued"
           \/ n.jobs[j].status = d.jobs[j].status
           \/ d.jobs[<<RunOf(j), "ocr">>].status \in {"none", "succeeded"}
           \/ StageOf(j) = "ocr",
           MirroredBut({}, n),
           \A k \in Jobs : JobWaits(n, k)
    PROVE  Sound(n)
<1>1. RunsSound(n)
  <2> SUFFICES ASSUME NEW r \in Runs
               PROVE  RunSound(n.runs[r], n.jobs[<<r, "ocr">>].status, n.jobs[<<r, "metadata">>].status)
    BY DEF RunsSound
  <2> DEFINE o == d.jobs[<<r, "ocr">>].status
             m == d.jobs[<<r, "metadata">>].status
             o1 == n.jobs[<<r, "ocr">>].status
             m1 == n.jobs[<<r, "metadata">>].status
  <2>1. RunSound(d.runs[r], o, m) BY DEF Sound, SoundBut, RunsSound
  <2>2. (o1 = o /\ m1 = m) \/ RunOf(j) = r BY StageJobs
  <2>3. CASE RunOf(j) # r
    BY <2>1, <2>2, <2>3 DEF RunSound, ActiveRunStatuses
  <2>4. CASE RunOf(j) = r /\ StageOf(j) = "ocr"
    <3>1. j = <<r, "ocr">> /\ m1 = m BY <2>4, JobShape, StageJobs
    <3>2. o \in ActiveJobStatuses /\ o1 \in ActiveJobStatuses BY <3>1
    <3>3. d.runs[r] \in ActiveRunStatuses /\ n.runs[r] \in ActiveRunStatuses
      BY <2>1, <3>2 DEF RunSound
    <3> QED BY <2>1, <3>1, <3>2, <3>3, OcrStaysActive
  <2>5. CASE RunOf(j) = r /\ StageOf(j) = "metadata"
    <3>1. j = <<r, "metadata">> /\ o1 = o BY <2>5, JobShape, StageJobs
    <3>2. /\ m \in ActiveJobStatuses /\ m1 \in ActiveJobStatuses
          /\ m1 = "queued" \/ m1 = m \/ o \in {"none", "succeeded"}
      BY <2>5, <3>1
    <3>3. d.runs[r] \in ActiveRunStatuses /\ n.runs[r] \in ActiveRunStatuses
      BY <2>1, <3>2 DEF RunSound
    <3> QED BY <2>1, <3>1, <3>2, <3>3, MetadataStaysActive
  <2> QED BY <2>3, <2>4, <2>5, JobShape DEF Stages
<1>2. OneActive(n) BY DEF Sound, SoundBut, OneActive
<1> QED BY <1>1, <1>2 DEF Sound, SoundBut

(* HasActiveJob in terms of the two jobs of the run. *)
LEMMA ActiveJobOfRun ==
    ASSUME NEW d, NEW r \in Runs
    PROVE  HasActiveJob(d, r) <=> \/ d.jobs[<<r, "ocr">>].status \in ActiveJobStatuses
                                 \/ d.jobs[<<r, "metadata">>].status \in ActiveJobStatuses
  BY JobsOfRun DEF HasActiveJob

(* An active job has an active run. *)
LEMMA ActiveJobActiveRun ==
    ASSUME NEW d, NEW K, SoundBut(K, d), NEW j \in Jobs, d.jobs[j].status \in ActiveJobStatuses
    PROVE  d.runs[RunOf(j)] \in ActiveRunStatuses
  BY JobShape, TwoJobs DEF SoundBut, RunsSound, RunSound

-----------------------------------------------------------------------------
(* The transactions keep a database sound. *)

(* A claim keeps the database sound. *)
LEMMA ClaimSound ==
    ASSUME NEW d, Sound(d), NEW w \in Workers, NEW j \in Candidates(d)
    PROVE  Sound(ClaimJob(j, w, d))
<1> DEFINE n == ClaimJob(j, w, d)
<1>1. /\ j \in Jobs
      /\ d.jobs[j].status \in {"queued", "running"} /\ EarlierStagesResolved(d, j)
  BY DEF Candidates, StaleCandidates, QueuedCandidates, ExpiredJobs
<1>2. d \in Database /\ MirroredBut({}, d) BY DEF Sound, SoundBut
<1>3. /\ n \in Database /\ MirroredBut({}, n) /\ n.reviews = d.reviews
      /\ \A k \in Jobs : n.jobs[k] = IF k = j THEN Leased(d.jobs[j], w) ELSE d.jobs[k]
      /\ \A r \in Runs :
            n.runs[r] = IF r = RunOf(j) /\ d.runs[r] \in {"queued", "running", "waiting_review"}
                        THEN "running" ELSE d.runs[r]
  BY <1>1, <1>2, ClaimWrites
<1> HIDE DEF n
<1>4. d.jobs[j] \in JobRow BY <1>1, <1>2, StatusTypes
<1>5. n.jobs[j].status = "running" /\ LiveJob(n.jobs[j])
  <2>1. n.jobs[j] = Leased(d.jobs[j], w) BY <1>1, <1>3
  <2>2. /\ Leased(d.jobs[j], w).status = "running"
        /\ Leased(d.jobs[j], w).owner = w /\ Leased(d.jobs[j], w).lease = "live"
    BY <1>4 DEF Leased, JobRow
  <2>3. w # NoWorker BY NullAssumption
  <2> QED BY <2>1, <2>2, <2>3 DEF LiveJob, Live
<1>6. \/ StageOf(j) = "ocr"
      \/ d.jobs[<<RunOf(j), "ocr">>].status \in {"none", "succeeded"}
  <2> SUFFICES ASSUME StageOf(j) = "metadata"
               PROVE  d.jobs[<<RunOf(j), "ocr">>].status \in {"none", "succeeded"}
    BY <1>1, JobShape DEF Stages
  <2> DEFINE o == d.jobs[<<RunOf(j), "ocr">>].status
  <2>1. o \notin ActiveJobStatuses \cup {"failed"} BY <1>1 DEF EarlierStagesResolved, Earlier
  <2>2. RunOf(j) \in Runs /\ d.runs[RunOf(j)] \in ActiveRunStatuses
    BY <1>1, JobShape, ActiveJobActiveRun DEF Sound, ActiveJobStatuses
  <2>3. o # "cancelled" BY <2>2 DEF Sound, SoundBut, RunsSound, RunSound
  <2>4. o \in JobStatuses \cup {"none"} BY <1>2, <2>2, StageJobs, StatusTypes
  <2> QED BY <2>1, <2>3, <2>4 DEF JobStatuses
<1>7. ASSUME NEW r \in Runs
      PROVE  n.runs[r] = d.runs[r] \/ (d.runs[r] \in ActiveRunStatuses /\ n.runs[r] \in ActiveRunStatuses)
  BY <1>3 DEF ActiveRunStatuses
<1>8. \A k \in Jobs : JobWaits(n, k)
  <2> SUFFICES ASSUME NEW k \in Jobs PROVE JobWaits(n, k) OBVIOUS
  <2>1. JobWaits(d, k) BY DEF Sound, SoundBut
  <2>2. n.jobs[k].status = "waiting_review" => d.jobs[k].status = "waiting_review" BY <1>3, <1>5
  <2> QED BY <1>3, <2>1, <2>2, WaitsKept
<1>9. Sound(n)
  BY <1>1, <1>3, <1>5, <1>6, <1>7, <1>8, ActiveJobStep DEF ActiveJobStatuses
<1> QED BY <1>9 DEF n

(* A job row changes its lease, its backoff or its attempts, or is requeued. *)
LEMMA RowSound ==
    ASSUME NEW d, Sound(d), NEW j \in Jobs, d.jobs[j].status \in ActiveJobStatuses,
           NEW n \in Database, n.reviews = d.reviews, MirroredBut({}, n),
           \A k \in Jobs : k # j => n.jobs[k] = d.jobs[k],
           n.jobs[j].status \in {"queued", d.jobs[j].status}, LiveJob(n.jobs[j]),
           \A r \in Runs : n.runs[r] = d.runs[r] \/ (d.runs[r] \in ActiveRunStatuses /\ n.runs[r] \in ActiveRunStatuses)
    PROVE  Sound(n)
<1>1. \A k \in Jobs : JobWaits(n, k)
  <2> SUFFICES ASSUME NEW k \in Jobs PROVE JobWaits(n, k) OBVIOUS
  <2>1. JobWaits(d, k) BY DEF Sound, SoundBut
  <2>2. n.jobs[k].status = "waiting_review" => d.jobs[k].status = "waiting_review" OBVIOUS
  <2> QED BY <2>1, <2>2, WaitsKept
<1>2. n.jobs[j].status \in ActiveJobStatuses BY DEF ActiveJobStatuses
<1> QED BY <1>1, <1>2, ActiveJobStep

(* So does an update of one active row that keeps or requeues it. *)
LEMMA SetRowSound ==
    ASSUME NEW d, Sound(d), NEW j \in Jobs, d.jobs[j].status \in ActiveJobStatuses,
           NEW row \in JobRow, row.status \in {"queued", d.jobs[j].status}, LiveJob(row)
    PROVE  Sound(SetJob(j, row, d))
<1> DEFINE n == SetJob(j, row, d)
<1>1. d \in Database /\ MirroredBut({}, d) BY DEF Sound, SoundBut
<1>2. /\ n \in Database
      /\ n.runs = d.runs /\ n.inventory = d.inventory /\ n.reviews = d.reviews
      /\ \A k \in Jobs : n.jobs[k] = IF k = j THEN row ELSE d.jobs[k]
  BY <1>1, SetJobWrites
<1> HIDE DEF n
<1>3. MirroredBut({}, n) BY <1>1, <1>2 DEF MirroredBut
<1>4. n.jobs[j] = row /\ (\A k \in Jobs : k # j => n.jobs[k] = d.jobs[k]) BY <1>2
<1>5. \A r \in Runs : n.runs[r] = d.runs[r] BY <1>2
<1>6. Sound(n) BY <1>2, <1>3, <1>4, <1>5, RowSound
<1> QED BY <1>6 DEF n

(* So does a lease release. *)
LEMMA ReleaseSound ==
    ASSUME NEW d, Sound(d), NEW j \in Jobs, d.jobs[j].status = "running"
    PROVE  Sound(ReleaseJob(j, d))
<1> DEFINE n == ReleaseJob(j, d)
<1>1. d \in Database /\ MirroredBut({}, d) BY DEF Sound, SoundBut
<1>2. /\ n \in Database /\ MirroredBut({}, n) /\ n.reviews = d.reviews
      /\ \A k \in Jobs : k # j => n.jobs[k] = d.jobs[k]
      /\ n.jobs[j].status = "queued" /\ LiveJob(n.jobs[j])
      /\ \A r \in Runs : n.runs[r] = d.runs[r] \/ (d.runs[r] = "running" /\ n.runs[r] = "queued")
  BY <1>1, ReleaseWrites
<1> HIDE DEF n
<1>3. ASSUME NEW r \in Runs
      PROVE  n.runs[r] = d.runs[r] \/ (d.runs[r] \in ActiveRunStatuses /\ n.runs[r] \in ActiveRunStatuses)
  BY <1>2 DEF ActiveRunStatuses
<1>4. Sound(n) BY <1>2, <1>3, RowSound DEF ActiveJobStatuses
<1> QED BY <1>4 DEF n

(* So does a new review item. *)
LEMMA InsertReviewSound ==
    ASSUME NEW d, Sound(d), NEW j \in Jobs, d.jobs[j].status \in Live,
           NEW i \in ReviewIds, d.reviews[i].status = "none"
    PROVE  Sound(InsertReview(i, j, d))
<1> DEFINE n == InsertReview(i, j, d)
<1>1. d \in Database /\ MirroredBut({}, d) /\ LiveJob(d.jobs[j]) BY DEF Sound, SoundBut
<1>2. /\ n \in Database /\ MirroredBut({}, n)
      /\ n.reviews = [d.reviews EXCEPT ![i] = [status |-> "pending", job |-> j]]
      /\ n.jobs = [d.jobs EXCEPT ![j].status = "waiting_review"]
      /\ \A r \in Runs :
            n.runs[r] = IF r = RunOf(j) /\ d.runs[r] \in ActiveRunStatuses
                        THEN "waiting_review" ELSE d.runs[r]
  BY <1>1, InsertReviewWrites
<1> HIDE DEF n
<1>3. d.jobs \in [Jobs -> JobRow] /\ d.reviews \in [ReviewIds -> ReviewRow] BY <1>1 DEF Database
<1>4. /\ n.jobs[j].status = "waiting_review" /\ LiveJob(n.jobs[j])
      /\ \A k \in Jobs : k # j => n.jobs[k] = d.jobs[k]
  BY <1>1, <1>2, <1>3 DEF JobRow, LiveJob, Live
<1>5. ASSUME NEW r \in Runs
      PROVE  n.runs[r] = d.runs[r] \/ (d.runs[r] \in ActiveRunStatuses /\ n.runs[r] \in ActiveRunStatuses)
  BY <1>2 DEF ActiveRunStatuses
<1>6. /\ n.reviews[i] = [status |-> "pending", job |-> j]
      /\ \A k \in ReviewIds : k # i => n.reviews[k] = d.reviews[k]
  BY <1>2, <1>3
<1>7. \A k \in Jobs : JobWaits(n, k)
  <2> SUFFICES ASSUME NEW k \in Jobs, n.jobs[k].status = "waiting_review"
               PROVE  \E h \in ReviewsOf(n, k) : n.reviews[h].status \in OpenReviewStatuses
    BY DEF JobWaits
  <2>1. CASE k = j BY <1>6, <2>1 DEF ReviewsOf, OpenReviewStatuses
  <2>2. CASE k # j
    <3>1. JobWaits(d, k) /\ d.jobs[k].status = "waiting_review" BY <1>4, <2>2 DEF Sound, SoundBut
    <3>2. PICK h \in ReviewsOf(d, k) : d.reviews[h].status \in OpenReviewStatuses
      BY <3>1 DEF JobWaits
    <3>3. h # i /\ h \in ReviewIds BY <3>2 DEF ReviewsOf, OpenReviewStatuses
    <3>4. h \in ReviewsOf(n, k) BY <1>6, <3>2, <3>3 DEF ReviewsOf
    <3> QED BY <1>6, <3>2, <3>3, <3>4
  <2> QED BY <2>1, <2>2
<1>8. StageOf(j) = "ocr" \/ d.jobs[<<RunOf(j), "ocr">>].status \in {"none", "succeeded"}
  <2> SUFFICES ASSUME StageOf(j) = "metadata"
               PROVE  d.jobs[<<RunOf(j), "ocr">>].status \in {"none", "succeeded"}
    BY JobShape DEF Stages
  <2>1. j = <<RunOf(j), "metadata">> /\ RunOf(j) \in Runs BY JobShape
  <2> QED BY <2>1 DEF Sound, SoundBut, RunsSound, RunSound, Live
<1>9. d.jobs[j].status \in ActiveJobStatuses /\ n.jobs[j].status \in ActiveJobStatuses
  BY <1>4 DEF Live, ActiveJobStatuses
<1>10. Sound(n) BY <1>2, <1>4, <1>5, <1>7, <1>8, <1>9, ActiveJobStep
<1> QED BY <1>10 DEF n

(* How the end of a job of a sound run leaves the run. *)
LEMMA JobSucceeds ==
    ASSUME NEW run \in ActiveRunStatuses, NEW o \in JobStatuses \cup {"none"},
           NEW m \in JobStatuses \cup {"none"}, RunSound(run, o, m)
    PROVE  /\ o \in Live => RunSound(IF m \in ActiveJobStatuses THEN "queued" ELSE "succeeded", "succeeded", m)
           /\ m \in Live => RunSound(IF o \in ActiveJobStatuses THEN "queued" ELSE "succeeded", o, "succeeded")
  BY DEF RunSound, Live, ActiveRunStatuses, ActiveJobStatuses, JobStatuses

(* A job ends its run, and its sibling is cancelled. *)
LEMMA JobEnds ==
    ASSUME NEW run \in ActiveRunStatuses, NEW o \in JobStatuses \cup {"none"},
           NEW m \in JobStatuses \cup {"none"}, RunSound(run, o, m)
    PROVE  /\ o \in Live =>
                 LET m1 == IF m \in ActiveJobStatuses THEN "cancelled" ELSE m
                 IN  RunSound("failed", "failed", m1) /\ RunSound("rejected", "cancelled", m1)
           /\ m \in Live =>
                 LET o1 == IF o \in ActiveJobStatuses THEN "cancelled" ELSE o
                 IN  RunSound("failed", o1, "failed") /\ RunSound("rejected", o1, "cancelled")
  BY DEF RunSound, Live, ActiveRunStatuses, ActiveJobStatuses, JobStatuses

(* complete_job of a live job keeps the database sound. *)
LEMMA CompleteSound ==
    ASSUME NEW d, NEW j \in Jobs, SoundBut({j}, d), d.jobs[j].status \in Live
    PROVE  Sound(CompleteJob(j, d))
<1> DEFINE n == CompleteJob(j, d)
           q == RunOf(j)
           ocr == <<q, "ocr">>
           meta == <<q, "metadata">>
<1>1. d \in Database /\ MirroredBut({}, d) /\ q \in Runs BY JobShape DEF SoundBut
<1>2. /\ n \in Database /\ MirroredBut({}, n) /\ n.reviews = d.reviews
      /\ \A k \in Jobs : n.jobs[k] = IF k = j THEN Unleased(d.jobs[j], "succeeded") ELSE d.jobs[k]
      /\ \A r \in Runs :
            n.runs[r] = IF r = RunOf(j) /\ d.runs[r] \in ActiveRunStatuses
                        THEN IF HasActiveJob(n, r) THEN "queued" ELSE "succeeded"
                        ELSE d.runs[r]
  BY <1>1, CompleteWrites
<1>3. d.runs[q] \in ActiveRunStatuses BY ActiveJobActiveRun DEF Live, ActiveJobStatuses
<1>4. d.jobs[j] \in JobRow /\ "succeeded" \in JobStatuses BY <1>1, StatusTypes DEF JobStatuses
<1> HIDE DEF n
<1>5. n.jobs[j].status = "succeeded" /\ LiveJob(n.jobs[j]) BY <1>2, <1>4, UnleasedWrites DEF Live
<1>6. \A k \in Jobs : k # j => n.jobs[k] = d.jobs[k] BY <1>2
<1>7. n.runs[q] = IF HasActiveJob(n, q) THEN "queued" ELSE "succeeded" BY <1>1, <1>2, <1>3
<1>8. /\ RunSound(d.runs[q], d.jobs[ocr].status, d.jobs[meta].status)
      /\ d.jobs[ocr].status \in JobStatuses \cup {"none"}
      /\ d.jobs[meta].status \in JobStatuses \cup {"none"}
      /\ ocr \in Jobs /\ meta \in Jobs /\ ocr # meta
  BY <1>1, StageJobs, StatusTypes DEF SoundBut, RunsSound
<1>9. /\ LiveJob(n.jobs[ocr]) /\ LiveJob(n.jobs[meta])
      /\ RunSound(n.runs[q], n.jobs[ocr].status, n.jobs[meta].status)
  <2>0. "succeeded" \notin ActiveJobStatuses BY DEF ActiveJobStatuses
  <2>1. CASE j = ocr
    <3>1. n.jobs[meta] = d.jobs[meta] /\ n.jobs[ocr].status = "succeeded" BY <1>5, <1>6, <1>8, <2>1
    <3>2. n.runs[q] = IF d.jobs[meta].status \in ActiveJobStatuses THEN "queued" ELSE "succeeded"
      BY <1>1, <1>7, <2>0, <3>1, ActiveJobOfRun
    <3> QED BY <1>3, <1>5, <1>8, <2>1, <3>1, <3>2, JobSucceeds DEF SoundBut
  <2>2. CASE j = meta
    <3>1. n.jobs[ocr] = d.jobs[ocr] /\ n.jobs[meta].status = "succeeded" BY <1>5, <1>6, <1>8, <2>2
    <3>2. n.runs[q] = IF d.jobs[ocr].status \in ActiveJobStatuses THEN "queued" ELSE "succeeded"
      BY <1>1, <1>7, <2>0, <3>1, ActiveJobOfRun
    <3> QED BY <1>3, <1>5, <1>8, <2>2, <3>1, <3>2, JobSucceeds DEF SoundBut
  <2> QED BY <2>1, <2>2, TwoJobs
<1>10. \A k \in Jobs : RunOf(k) # q => n.jobs[k] = d.jobs[k] BY <1>6
<1>11. \A r \in Runs : r # q => n.runs[r] = d.runs[r] BY <1>2
<1>12. \A k \in Jobs : JobWaits(n, k)
  <2> SUFFICES ASSUME NEW k \in Jobs PROVE JobWaits(n, k) OBVIOUS
  <2>1. CASE k = j BY <1>5, <2>1 DEF JobWaits
  <2>2. CASE k # j
    <3>1. JobWaits(d, k) /\ n.jobs[k] = d.jobs[k] BY <1>6, <2>2 DEF SoundBut
    <3> QED BY <1>2, <3>1, WaitsKept
  <2> QED BY <2>1, <2>2
<1> HIDE DEF q, ocr, meta
<1>13. SoundBut({}, n)
  BY <1>1, <1>2, <1>3, <1>9, <1>10, <1>11, <1>12, RunStep DEF ocr, meta
<1> QED BY <1>13 DEF n, Sound

(* The two ways a live job ends its run: a permanent failure and a rejection
   of all its review items. *)
LEMMA EndRunSound ==
    ASSUME NEW d, NEW j \in Jobs, SoundBut({j}, d), d.jobs[j].status \in Live,
           NEW n \in Database, MirroredBut({}, n), n.reviews = d.reviews,
           NEW run, NEW s, <<run, s>> \in {<<"failed", "failed">>, <<"rejected", "cancelled">>},
           \A k \in Jobs :
               n.jobs[k] = IF k = j THEN Unleased(d.jobs[j], s)
                           ELSE IF RunOf(k) = RunOf(j) /\ d.jobs[k].status \in ActiveJobStatuses
                           THEN Unleased(d.jobs[k], "cancelled") ELSE d.jobs[k],
           \A r \in Runs : n.runs[r] = IF r = RunOf(j) /\ d.runs[r] \in ActiveRunStatuses
                                    THEN run ELSE d.runs[r]
    PROVE  Sound(n)
<1> DEFINE q == RunOf(j)
           ocr == <<q, "ocr">>
           meta == <<q, "metadata">>
<1>0. (run = "failed" /\ s = "failed") \/ (run = "rejected" /\ s = "cancelled") OBVIOUS
<1>1. d \in Database /\ MirroredBut({}, d) /\ q \in Runs BY JobShape DEF SoundBut
<1>2. d.runs[q] \in ActiveRunStatuses BY ActiveJobActiveRun DEF Live, ActiveJobStatuses
<1>3. n.runs[q] = run BY <1>1, <1>2
<1>4. /\ \A k \in Jobs : d.jobs[k] \in JobRow
      /\ s \in JobStatuses /\ "cancelled" \in JobStatuses /\ s \notin Live /\ "cancelled" \notin Live
  BY <1>0, <1>1, StatusTypes DEF JobStatuses, Live
<1>5. n.jobs[j].status = s /\ LiveJob(n.jobs[j]) BY <1>4, UnleasedWrites
<1>6. ASSUME NEW k \in Jobs, k # j, RunOf(k) = q
      PROVE  /\ n.jobs[k].status = IF d.jobs[k].status \in ActiveJobStatuses
                                    THEN "cancelled" ELSE d.jobs[k].status
             /\ LiveJob(n.jobs[k])
  <2>1. CASE d.jobs[k].status \in ActiveJobStatuses
    <3>1. n.jobs[k] = Unleased(d.jobs[k], "cancelled") BY <1>6, <2>1
    <3> QED BY <1>4, <2>1, <3>1, UnleasedWrites
  <2>2. CASE d.jobs[k].status \notin ActiveJobStatuses
    <3>1. n.jobs[k] = d.jobs[k] BY <1>6, <2>2
    <3> QED BY <2>2, <3>1 DEF SoundBut
  <2> QED BY <2>1, <2>2
<1>7. /\ RunSound(d.runs[q], d.jobs[ocr].status, d.jobs[meta].status)
      /\ d.jobs[ocr].status \in JobStatuses \cup {"none"}
      /\ d.jobs[meta].status \in JobStatuses \cup {"none"}
      /\ ocr \in Jobs /\ meta \in Jobs /\ ocr # meta /\ RunOf(ocr) = q /\ RunOf(meta) = q
  BY <1>1, StageJobs, StatusTypes DEF SoundBut, RunsSound
<1>8. /\ LiveJob(n.jobs[ocr]) /\ LiveJob(n.jobs[meta])
      /\ RunSound(n.runs[q], n.jobs[ocr].status, n.jobs[meta].status)
  <2>1. CASE j = ocr
    <3>1. /\ n.jobs[ocr].status = s /\ LiveJob(n.jobs[ocr]) /\ LiveJob(n.jobs[meta])
          /\ n.jobs[meta].status = IF d.jobs[meta].status \in ActiveJobStatuses
                                   THEN "cancelled" ELSE d.jobs[meta].status
      BY <1>5, <1>6, <1>7, <2>1
    <3>2. d.jobs[ocr].status \in Live BY <2>1
    <3> HIDE DEF ocr, meta, q
    <3>3. RunSound(run, s, n.jobs[meta].status) BY <1>0, <1>2, <1>7, <3>1, <3>2, JobEnds
    <3> QED BY <1>3, <3>1, <3>3
  <2>2. CASE j = meta
    <3>1. /\ n.jobs[meta].status = s /\ LiveJob(n.jobs[ocr]) /\ LiveJob(n.jobs[meta])
          /\ n.jobs[ocr].status = IF d.jobs[ocr].status \in ActiveJobStatuses
                                  THEN "cancelled" ELSE d.jobs[ocr].status
      BY <1>5, <1>6, <1>7, <2>2
    <3>2. d.jobs[meta].status \in Live BY <2>2
    <3> HIDE DEF ocr, meta, q
    <3>3. RunSound(run, n.jobs[ocr].status, s) BY <1>0, <1>2, <1>7, <3>1, <3>2, JobEnds
    <3> QED BY <1>3, <3>1, <3>3
  <2> QED BY <2>1, <2>2, TwoJobs
<1>9. \A k \in Jobs : RunOf(k) # q => n.jobs[k] = d.jobs[k] OBVIOUS
<1>10. \A r \in Runs : r # q => n.runs[r] = d.runs[r] OBVIOUS
<1>11. \A k \in Jobs : JobWaits(n, k)
  <2> SUFFICES ASSUME NEW k \in Jobs PROVE JobWaits(n, k) OBVIOUS
  <2>0. s # "waiting_review" BY <1>0
  <2>1. CASE k = j BY <1>5, <2>0, <2>1 DEF JobWaits
  <2>2. CASE k # j
    <3>1. JobWaits(d, k) BY <2>2 DEF SoundBut
    <3>2. n.jobs[k].status \in {"cancelled", d.jobs[k].status}
      BY <1>6, <1>9, <2>2
    <3> QED BY <3>1, <3>2, WaitsKept
  <2> QED BY <2>1, <2>2
<1> HIDE DEF q, ocr, meta
<1>12. SoundBut({}, n)
  BY <1>1, <1>2, <1>8, <1>9, <1>10, <1>11, RunStep DEF ocr, meta
<1> QED BY <1>12 DEF Sound

(* A permanent failure keeps the database sound. *)
LEMMA PermanentSound ==
    ASSUME NEW d, Sound(d), NEW j \in Jobs, d.jobs[j].status \in Live
    PROVE  Sound(PermanentFailure(j, SetJob(j, Unleased(d.jobs[j], "failed"), d)))
<1> DEFINE n == PermanentFailure(j, SetJob(j, Unleased(d.jobs[j], "failed"), d))
<1>1. d \in Database /\ MirroredBut({}, d) /\ SoundBut({j}, d) BY DEF Sound, SoundBut
<1>2. /\ n \in Database /\ MirroredBut({}, n) /\ n.reviews = d.reviews
      /\ \A k \in Jobs :
            n.jobs[k] = IF k = j THEN Unleased(d.jobs[j], "failed")
                        ELSE IF RunOf(k) = RunOf(j) /\ d.jobs[k].status \in ActiveJobStatuses
                        THEN Unleased(d.jobs[k], "cancelled") ELSE d.jobs[k]
      /\ \A r \in Runs :
            n.runs[r] = IF r = RunOf(j) /\ d.runs[r] \in ActiveRunStatuses
                        THEN "failed" ELSE d.runs[r]
  BY <1>1, PermanentWrites
<1> HIDE DEF n
<1>3. Sound(n) BY <1>1, <1>2, EndRunSound
<1> QED BY <1>3 DEF n

(* So does the rejection of all items of a job. *)
LEMMA RejectSound ==
    ASSUME NEW d, NEW j \in Jobs, SoundBut({j}, d), d.jobs[j].status \in Live
    PROVE  Sound(MirrorRunStatus({RunOf(j)}, TransitionRuns({RunOf(j)}, "Rejected",
                     CancelActiveJobs(RunOf(j), {},
                         SetInventoryStage(j, "rejected",
                             SetJob(j, Unleased(d.jobs[j], "cancelled"), d))))))
<1> DEFINE n == MirrorRunStatus({RunOf(j)}, TransitionRuns({RunOf(j)}, "Rejected",
                     CancelActiveJobs(RunOf(j), {},
                         SetInventoryStage(j, "rejected",
                             SetJob(j, Unleased(d.jobs[j], "cancelled"), d)))))
<1>1. d \in Database /\ MirroredBut({}, d) BY DEF SoundBut
<1>2. /\ n \in Database /\ MirroredBut({}, n) /\ n.reviews = d.reviews
      /\ \A k \in Jobs :
            n.jobs[k] = IF k = j THEN Unleased(d.jobs[j], "cancelled")
                        ELSE IF RunOf(k) = RunOf(j) /\ d.jobs[k].status \in ActiveJobStatuses
                        THEN Unleased(d.jobs[k], "cancelled") ELSE d.jobs[k]
      /\ \A r \in Runs :
            n.runs[r] = IF r = RunOf(j) /\ d.runs[r] \in ActiveRunStatuses
                        THEN "rejected" ELSE d.runs[r]
  BY <1>1, RejectWrites
<1> HIDE DEF n
<1>3. Sound(n) BY <1>1, <1>2, EndRunSound
<1> QED BY <1>3 DEF n

(* finalize_review_aggregate_tx restores the open item a waiting job needs. *)
LEMMA FinalizeSound ==
    ASSUME NEW d, NEW j \in Jobs, SoundBut({j}, d)
    PROVE  Sound(FinalizeAggregate(j, d))
<1>1. CASE \/ d.jobs[j].status # "waiting_review"
           \/ \E i \in ReviewsOf(d, j) : d.reviews[i].status \in OpenReviewStatuses
  <2>1. FinalizeAggregate(j, d) = d BY <1>1 DEF FinalizeAggregate
  <2>2. JobWaits(d, j) BY <1>1 DEF JobWaits
  <2>3. \A k \in Jobs : JobWaits(d, k) BY <2>2 DEF SoundBut
  <2> QED BY <2>1, <2>3 DEF Sound, SoundBut
<1>2. CASE ~(\/ d.jobs[j].status # "waiting_review"
             \/ \E i \in ReviewsOf(d, j) : d.reviews[i].status \in OpenReviewStatuses)
  <2>1. d.jobs[j].status \in Live BY <1>2 DEF Live
  <2>2. CASE \E i \in ReviewsOf(d, j) : d.reviews[i].status = "applied"
    <3>1. FinalizeAggregate(j, d) = CompleteJob(j, d) BY <1>2, <2>2 DEF FinalizeAggregate
    <3> QED BY <2>1, <3>1, CompleteSound
  <2>3. CASE ~\E i \in ReviewsOf(d, j) : d.reviews[i].status = "applied"
    <3>1. FinalizeAggregate(j, d) =
              MirrorRunStatus({RunOf(j)}, TransitionRuns({RunOf(j)}, "Rejected",
                  CancelActiveJobs(RunOf(j), {},
                      SetInventoryStage(j, "rejected",
                          SetJob(j, Unleased(d.jobs[j], "cancelled"), d)))))
      BY <1>2, <2>3 DEF FinalizeAggregate
    <3> QED BY <2>1, <3>1, RejectSound
  <2> QED BY <2>2, <2>3
<1> QED BY <1>1, <1>2

(* A new run of an idle document keeps the database sound. *)
LEMMA InsertRunSound ==
    ASSUME NEW d, Sound(d), NEW q \in Runs, NEW S \in SUBSET Stages, S # {},
           d.runs[q] = "none", NoActiveRun(d, RunDoc[q])
    PROVE  Sound(InsertRun(q, S, d))
<1> DEFINE n == InsertRun(q, S, d)
           ocr == <<q, "ocr">>
           meta == <<q, "metadata">>
<1>1. d \in Database /\ MirroredBut({}, d) BY DEF Sound, SoundBut
<1>2. /\ n \in Database /\ MirroredBut({}, n) /\ n.reviews = d.reviews
      /\ \A j \in Jobs :
            /\ RunOf(j) = q /\ StageOf(j) \in S =>
                  n.jobs[j].status = "queued" /\ LiveJob(n.jobs[j])
            /\ ~(RunOf(j) = q /\ StageOf(j) \in S) => n.jobs[j] = d.jobs[j]
      /\ \A r \in Runs : n.runs[r] = IF r = q THEN "queued" ELSE d.runs[r]
  BY <1>1, InsertRunWrites
<1> HIDE DEF n
<1>3. /\ ocr \in Jobs /\ RunOf(ocr) = q /\ StageOf(ocr) = "ocr"
      /\ meta \in Jobs /\ RunOf(meta) = q /\ StageOf(meta) = "metadata"
      /\ d.jobs[ocr].status = "none" /\ d.jobs[meta].status = "none"
      /\ LiveJob(d.jobs[ocr]) /\ LiveJob(d.jobs[meta])
  BY StageJobs DEF Sound, SoundBut, RunsSound, RunSound
<1>4. "ocr" \in S \/ "metadata" \in S BY DEF Stages
<1> HIDE DEF ocr, meta
<1>5. /\ n.jobs[ocr].status = IF "ocr" \in S THEN "queued" ELSE "none"
      /\ n.jobs[meta].status = IF "metadata" \in S THEN "queued" ELSE "none"
      /\ LiveJob(n.jobs[ocr]) /\ LiveJob(n.jobs[meta])
  BY <1>2, <1>3
<1>6. n.runs[q] = "queued" BY <1>2
<1>7. RunSound(n.runs[q], n.jobs[ocr].status, n.jobs[meta].status)
  BY <1>4, <1>5, <1>6 DEF RunSound, ActiveRunStatuses, ActiveJobStatuses
<1>8. \A k \in Jobs : JobWaits(n, k)
  <2> SUFFICES ASSUME NEW k \in Jobs PROVE JobWaits(n, k) OBVIOUS
  <2>1. JobWaits(d, k) BY DEF Sound, SoundBut
  <2>2. n.jobs[k].status = "queued" \/ n.jobs[k] = d.jobs[k] BY <1>2
  <2> QED BY <1>2, <2>1, <2>2, WaitsKept
<1>9. \A k \in Jobs : RunOf(k) # q => n.jobs[k] = d.jobs[k] BY <1>2
<1>10. \A r \in Runs : r # q => n.runs[r] = d.runs[r] BY <1>2
<1>11. SoundBut({}, n)
  BY <1>2, <1>5, <1>7, <1>8, <1>9, <1>10, RunStep DEF Sound, ocr, meta
<1> QED BY <1>11 DEF n, Sound

(* Only items of job j are decided, reopened or claimed. *)
LEMMA ReviewsStep ==
    ASSUME NEW d, Sound(d), NEW j \in Jobs, NEW f \in [ReviewIds -> ReviewRow],
           \A i \in ReviewIds : d.reviews[i].job # j \/ d.reviews[i].status = "none"
                                => f[i] = d.reviews[i]
    PROVE  LET n == [d EXCEPT !.reviews = f]
           IN  /\ SoundBut({j}, n)
               /\ n.runs = d.runs /\ n.jobs = d.jobs /\ n.reviews = f
<1> DEFINE n == [d EXCEPT !.reviews = f]
<1>1. d \in Database BY DEF Sound, SoundBut
<1>2. /\ n \in Database
      /\ n.runs = d.runs /\ n.jobs = d.jobs /\ n.inventory = d.inventory /\ n.reviews = f
  BY <1>1 DEF Database
<1> HIDE DEF n
<1>3. \A k \in Jobs \ {j} : JobWaits(n, k)
  <2> SUFFICES ASSUME NEW k \in Jobs, k # j, n.jobs[k].status = "waiting_review"
               PROVE  \E h \in ReviewsOf(n, k) : n.reviews[h].status \in OpenReviewStatuses
    BY DEF JobWaits
  <2>1. JobWaits(d, k) /\ d.jobs[k].status = "waiting_review" BY <1>2 DEF Sound, SoundBut
  <2>2. PICK h \in ReviewsOf(d, k) : d.reviews[h].status \in OpenReviewStatuses
    BY <2>1 DEF JobWaits
  <2>3. h \in ReviewIds /\ d.reviews[h].job = k /\ f[h] = d.reviews[h]
    BY <2>2 DEF ReviewsOf
  <2> QED BY <1>2, <2>2, <2>3 DEF ReviewsOf
<1>4. RunsSound(n) /\ OneActive(n) /\ MirroredBut({}, n) /\ (\A k \in Jobs : LiveJob(n.jobs[k]))
  BY <1>2 DEF Sound, SoundBut, RunsSound, OneActive, MirroredBut
<1> QED BY <1>2, <1>3, <1>4 DEF n, SoundBut

(* A decision on one item may only leave its own job without an open item. *)
LEMMA SetReviewSound ==
    ASSUME NEW d, Sound(d), NEW i \in ReviewIds, NEW s \in ReviewStatuses,
           d.reviews[i].status # "none"
    PROVE  /\ d.reviews[i].job \in Jobs
           /\ SoundBut({d.reviews[i].job}, SetReview(i, s, d))
           /\ s \in OpenReviewStatuses => Sound(SetReview(i, s, d))
<1> DEFINE j == d.reviews[i].job
           f == [d.reviews EXCEPT ![i].status = s]
           n == SetReview(i, s, d)
<1>1. d \in Database /\ d.reviews \in [ReviewIds -> ReviewRow] BY DEF Sound, SoundBut, Database
<1>2. j \in Jobs /\ d.reviews[i] \in [status: ReviewStatuses, job: Jobs]
  BY <1>1 DEF ReviewRow, NoReviewRow
<1>3. /\ f \in [ReviewIds -> ReviewRow]
      /\ \A k \in ReviewIds : k # i => f[k] = d.reviews[k]
      /\ f[i].status = s /\ f[i].job = j
  BY <1>1, <1>2 DEF ReviewRow
<1>4. n = [d EXCEPT !.reviews = f] BY <1>1 DEF SetReview, Database
<1> HIDE DEF f
<1>5. SoundBut({j}, n) /\ n.runs = d.runs /\ n.jobs = d.jobs /\ n.reviews = f
  BY <1>2, <1>3, <1>4, ReviewsStep
<1> HIDE DEF n
<1>6. ASSUME s \in OpenReviewStatuses PROVE Sound(n)
  <2>1. i \in ReviewsOf(n, j) /\ n.reviews[i].status \in OpenReviewStatuses
    BY <1>3, <1>5, <1>6 DEF ReviewsOf, OpenReviewStatuses
  <2>2. JobWaits(n, j) BY <2>1 DEF JobWaits
  <2> QED BY <1>5, <2>2 DEF Sound, SoundBut
<1> QED BY <1>2, <1>5, <1>6 DEF n

(* Closing a review for a retry keeps the database sound. *)
LEMMA CloseForRetrySound ==
    ASSUME NEW d, Sound(d), NEW j \in Jobs
    PROVE  Sound(CloseForRetry(j, d))
<1> DEFINE f == [i \in ReviewIds |->
                    IF i \in ReviewsOf(d, j) /\ d.reviews[i].status = "pending"
                    THEN [d.reviews[i] EXCEPT !.status = "rejected"] ELSE d.reviews[i]]
           n == [d EXCEPT !.reviews = f]
<1>1. d.reviews \in [ReviewIds -> ReviewRow] BY DEF Sound, SoundBut, Database
<1>2. f \in [ReviewIds -> ReviewRow]
  BY <1>1 DEF ReviewRow, NoReviewRow, ReviewStatuses, ClosedReviewStatuses
<1>3. \A i \in ReviewIds : d.reviews[i].job # j \/ d.reviews[i].status = "none" => f[i] = d.reviews[i]
  BY DEF ReviewsOf
<1>4. CloseForRetry(j, d) = FinalizeAggregate(j, n) BY DEF CloseForRetry
<1> HIDE DEF f
<1>5. SoundBut({j}, n) BY <1>2, <1>3, ReviewsStep
<1> QED BY <1>4, <1>5, FinalizeSound

(* Running jobs and runs are requeued. *)
LEMMA RunningRequeued ==
    ASSUME NEW run, NEW o, NEW m, NEW run1, NEW o1, NEW m1, RunSound(run, o, m),
           run1 = run \/ (run = "running" /\ run1 = "queued"),
           o1 = o \/ (o = "running" /\ o1 = "queued"),
           m1 = m \/ (m = "running" /\ m1 = "queued")
    PROVE  RunSound(run1, o1, m1)
  BY DEF RunSound, ActiveRunStatuses, ActiveJobStatuses

(* Some running jobs and runs of d are requeued in n. *)
Requeues(d, n) ==
    /\ n \in Database /\ MirroredBut({}, n) /\ n.reviews = d.reviews
    /\ \A j \in Jobs : \/ n.jobs[j] = d.jobs[j]
                       \/ /\ d.jobs[j].status = "running" /\ n.jobs[j].status = "queued"
                          /\ LiveJob(n.jobs[j])
    /\ \A r \in Runs : n.runs[r] = d.runs[r] \/ (d.runs[r] = "running" /\ n.runs[r] = "queued")

(* A step that requeues running jobs and runs keeps the database sound. *)
LEMMA RequeueSound ==
    ASSUME NEW d, Sound(d), NEW n, Requeues(d, n)
    PROVE  Sound(n)
<1> USE DEF Requeues
<1>1. RunsSound(n)
  <2> SUFFICES ASSUME NEW r \in Runs
               PROVE  RunSound(n.runs[r], n.jobs[<<r, "ocr">>].status, n.jobs[<<r, "metadata">>].status)
    BY DEF RunsSound
  <2>1. RunSound(d.runs[r], d.jobs[<<r, "ocr">>].status, d.jobs[<<r, "metadata">>].status)
    BY DEF Sound, SoundBut, RunsSound
  <2>2. <<r, "ocr">> \in Jobs /\ <<r, "metadata">> \in Jobs BY StageJobs
  <2> QED BY <2>1, <2>2, RunningRequeued
<1>2. OneActive(n) BY DEF Sound, SoundBut, OneActive, ActiveRunStatuses
<1>3. ASSUME NEW k \in Jobs PROVE JobWaits(n, k)
  <2>1. JobWaits(d, k) BY DEF Sound, SoundBut
  <2>2. n.jobs[k].status = "waiting_review" => d.jobs[k].status = "waiting_review" OBVIOUS
  <2> QED BY <2>1, <2>2, WaitsKept
<1>4. \A j \in Jobs : LiveJob(n.jobs[j]) BY DEF Sound, SoundBut
<1> QED BY <1>1, <1>2, <1>3, <1>4 DEF Sound, SoundBut

(* A requeued row is consistent with its lease. *)
LEMMA UnleasedQueued ==
    ASSUME NEW row \in JobRow, NEW b \in BOOLEAN
    PROVE  LET n == [Unleased(row, "queued") EXCEPT !.due = b]
           IN  n \in JobRow /\ n.status = "queued" /\ LiveJob(n)
<1>1. Unleased(row, "queued") \in JobRow /\ LiveJob(Unleased(row, "queued"))
      /\ Unleased(row, "queued").status = "queued"
  BY UnleasedWrites DEF JobStatuses, ActiveJobStatuses, Live
<1> QED BY <1>1 DEF JobRow, LiveJob

(* recover_stale_leases does. *)
LEMMA RecoverRequeues ==
    ASSUME NEW d, Sound(d), NEW X \in SUBSET ExpiredJobs(d)
    PROVE  LET R == {RunOf(j) : j \in X}
           IN  Requeues(d, MirrorRunStatus(R, TransitionRuns(R, "StaleLeaseRequeued",
                   [d EXCEPT !.jobs = [j \in Jobs |->
                       IF j \in X THEN [Unleased(d.jobs[j], "queued") EXCEPT !.due = TRUE]
                       ELSE d.jobs[j]]])))
<1> DEFINE R == {RunOf(j) : j \in X}
           f == [j \in Jobs |-> IF j \in X THEN [Unleased(d.jobs[j], "queued") EXCEPT !.due = TRUE]
                                ELSE d.jobs[j]]
           d1 == [d EXCEPT !.jobs = f]
           n == MirrorRunStatus(R, TransitionRuns(R, "StaleLeaseRequeued", d1))
<1>1. d \in Database /\ MirroredBut({}, d) /\ d.jobs \in [Jobs -> JobRow] BY DEF Sound, SoundBut, Database
<1>2. X \subseteq Jobs /\ \A j \in X : d.jobs[j].status = "running" BY DEF ExpiredJobs
<1>3. R \in SUBSET Runs BY <1>2, JobShape
<1>4. ASSUME NEW j \in Jobs
      PROVE  /\ f[j] \in JobRow
             /\ \/ f[j] = d.jobs[j]
                \/ d.jobs[j].status = "running" /\ f[j].status = "queued" /\ LiveJob(f[j])
  <2>1. d.jobs[j] \in JobRow BY <1>1
  <2>2. CASE j \in X BY <1>2, <2>1, <2>2, UnleasedQueued
  <2>3. CASE j \notin X BY <2>1, <2>3
  <2> QED BY <2>2, <2>3
<1>5. f \in [Jobs -> JobRow] BY <1>4
<1> HIDE DEF f
<1>6. /\ d1 \in Database /\ d1.jobs = f
      /\ d1.runs = d.runs /\ d1.inventory = d.inventory /\ d1.reviews = d.reviews
  BY <1>1, <1>5 DEF Database
<1> HIDE DEF d1
<1>7. MirroredBut(R, d1) BY <1>1, <1>3, <1>6, MirroredAfterRuns
<1>8. /\ "StaleLeaseRequeued" \in RunEvents /\ RunFrom("StaleLeaseRequeued") = {"running"}
      /\ RunTo("StaleLeaseRequeued") = "queued"
  BY DEF RunEvents, RunFrom, RunTo
<1> HIDE DEF R
<1>9. /\ n \in Database /\ MirroredBut({}, n)
      /\ n.jobs = d1.jobs /\ n.reviews = d1.reviews
      /\ \A r \in Runs :
            n.runs[r] = IF /\ r \in R /\ d1.runs[r] \in RunFrom("StaleLeaseRequeued")
                           /\ RequiresNoRunningJob("StaleLeaseRequeued") => ~HasRunningJob(d1, r)
                        THEN RunTo("StaleLeaseRequeued") ELSE d1.runs[r]
  BY <1>3, <1>6, <1>7, <1>8, MoveRunsWrites
<1> HIDE DEF n
<1>10. ASSUME NEW r \in Runs
       PROVE  n.runs[r] = d.runs[r] \/ (d.runs[r] = "running" /\ n.runs[r] = "queued")
  <2>1. \/ n.runs[r] = d1.runs[r]
        \/ d1.runs[r] \in RunFrom("StaleLeaseRequeued") /\ n.runs[r] = RunTo("StaleLeaseRequeued")
    BY <1>9
  <2> QED BY <1>6, <1>8, <2>1
<1>11. Requeues(d, n) BY <1>4, <1>6, <1>9, <1>10 DEF Requeues
<1> QED BY <1>11 DEF n, R, d1, f

(* So does reset_stuck_running_pipeline_runs, which finds no run to finish. *)
LEMMA ResetRequeues ==
    ASSUME NEW d, Sound(d)
    PROVE  LET requeue == StuckRunning(d, {"queued", "waiting_review"}, {})
               queued  == TransitionRuns(requeue, "StuckRunningRequeued", d)
               finish  == StuckRunning(queued, {}, ActiveJobStatuses \cup {"failed"})
           IN  Requeues(d, MirrorRunStatus(requeue \cup finish,
                         TransitionRuns(finish, "StuckRunningSucceeded", queued)))
<1> DEFINE requeue == StuckRunning(d, {"queued", "waiting_review"}, {})
           queued  == TransitionRuns(requeue, "StuckRunningRequeued", d)
           finish  == StuckRunning(queued, {}, ActiveJobStatuses \cup {"failed"})
           done    == TransitionRuns(finish, "StuckRunningSucceeded", queued)
           n       == MirrorRunStatus(requeue \cup finish, done)
<1>1. d \in Database /\ MirroredBut({}, d) BY DEF Sound, SoundBut
<1>2. requeue \in SUBSET Runs /\ finish \in SUBSET Runs BY DEF StuckRunning
<1>3. /\ "StuckRunningRequeued" \in RunEvents /\ "StuckRunningSucceeded" \in RunEvents
      /\ RunFrom("StuckRunningRequeued") = {"running"} /\ RunTo("StuckRunningRequeued") = "queued"
  BY DEF RunEvents, RunFrom, RunTo
<1> HIDE DEF requeue
<1>4. /\ queued \in Database
      /\ queued.jobs = d.jobs /\ queued.inventory = d.inventory /\ queued.reviews = d.reviews
      /\ \A r \in Runs :
            queued.runs[r] = IF /\ r \in requeue /\ d.runs[r] \in RunFrom("StuckRunningRequeued")
                                /\ RequiresNoRunningJob("StuckRunningRequeued") => ~HasRunningJob(d, r)
                             THEN RunTo("StuckRunningRequeued") ELSE d.runs[r]
  BY <1>1, <1>3, TransitionRunsWrites
<1> HIDE DEF queued
<1>5. ASSUME NEW r \in Runs
      PROVE  \/ r \in requeue /\ d.runs[r] = "running" /\ queued.runs[r] = "queued"
             \/ queued.runs[r] = d.runs[r]
  BY <1>3, <1>4
<1>6. ASSUME NEW r \in finish PROVE FALSE
  <2>1. r \in Runs /\ queued.runs[r] = "running" /\ ~HasActiveJob(d, r)
    BY <1>4 DEF finish, StuckRunning, HasActiveJob
  <2>2. d.runs[r] = "running" BY <1>5, <2>1
  <2>3. HasActiveJob(d, r)
    BY <2>1, <2>2, ActiveJobOfRun DEF Sound, SoundBut, RunsSound, RunSound, ActiveRunStatuses
  <2> QED BY <2>1, <2>3
<1> HIDE DEF finish
<1>7. /\ done \in Database
      /\ done.jobs = queued.jobs /\ done.inventory = queued.inventory /\ done.reviews = queued.reviews
      /\ \A r \in Runs : done.runs[r] = queued.runs[r]
  BY <1>3, <1>4, <1>6, TransitionRunsWrites
<1> HIDE DEF done
<1>8. MirroredBut(requeue \cup finish, done)
  <2>1. \A r \in Runs \ (requeue \cup finish) : done.runs[r] = d.runs[r] BY <1>5, <1>7
  <2>2. done.inventory = d.inventory BY <1>4, <1>7
  <2>3. requeue \cup finish \in SUBSET Runs BY <1>2
  <2> QED BY <1>1, <2>1, <2>2, <2>3, MirroredAfterRuns
<1>9. /\ n \in Database /\ MirroredBut({}, n)
      /\ n.jobs = done.jobs /\ n.runs = done.runs /\ n.reviews = done.reviews
  <2>1. requeue \cup finish \in SUBSET Runs BY <1>2
  <2> QED BY <1>7, <1>8, <2>1, MirrorWrites
<1> HIDE DEF n
<1>10. \A r \in Runs : n.runs[r] = d.runs[r] \/ (d.runs[r] = "running" /\ n.runs[r] = "queued")
  BY <1>5, <1>7, <1>9
<1>11. n.jobs = d.jobs /\ n.reviews = d.reviews BY <1>4, <1>7, <1>9
<1>12. Requeues(d, n) BY <1>9, <1>10, <1>11 DEF Requeues
<1> QED BY <1>12 DEF n, done, finish, queued, requeue

(* Jobs of run q that never ran or ended without success are queued in n, and
   the run with them if it had ended. *)
Reopens(q, d, n) ==
    /\ n \in Database /\ MirroredBut({}, n) /\ n.reviews = d.reviews
    /\ \A j \in Jobs : \/ n.jobs[j] = d.jobs[j]
                       \/ /\ d.jobs[j].status \in {"none", "failed", "cancelled"}
                          /\ n.jobs[j].status = "queued" /\ LiveJob(n.jobs[j])
    /\ \A j \in Jobs : RunOf(j) # q => n.jobs[j] = d.jobs[j]
    /\ \A r \in Runs : n.runs[r] = IF r = q /\ d.runs[r] \in {"succeeded", "failed"}
                                  THEN "queued" ELSE d.runs[r]
    /\ RunSound(n.runs[q], n.jobs[<<q, "ocr">>].status, n.jobs[<<q, "metadata">>].status)

(* Reopening the run of an idle document keeps the database sound. *)
LEMMA ReopenSound ==
    ASSUME NEW d, Sound(d), NEW q \in Runs, NEW n, Reopens(q, d, n),
           d.runs[q] \in ActiveRunStatuses \/ NoActiveRun(d, RunDoc[q])
    PROVE  Sound(n)
<1> USE DEF Reopens
<1>1. ASSUME NEW k \in Jobs PROVE JobWaits(n, k)
  <2>1. JobWaits(d, k) BY DEF Sound, SoundBut
  <2>2. n.jobs[k].status = "waiting_review" => d.jobs[k].status = "waiting_review" OBVIOUS
  <2> QED BY <2>1, <2>2, WaitsKept
<1>2. LiveJob(n.jobs[<<q, "ocr">>]) /\ LiveJob(n.jobs[<<q, "metadata">>])
  BY StageJobs DEF Sound, SoundBut
<1>3. SoundBut({}, n) BY <1>1, <1>2, RunStep DEF Sound
<1> QED BY <1>3 DEF Sound

(* The requeue of a vision crash reopens its run. *)
LEMMA LiftReopens ==
    ASSUME NEW d, Sound(d), NEW q \in Runs, d.runs[q] = "failed",
           d.jobs[<<q, "ocr">>].status = "failed"
    PROVE  Reopens(q, d, MirrorRunStatus({q}, TransitionRuns({q}, "VisionCrashRequeued", LiftVisionCrash(q, d))))
<1> DEFINE ocr == <<q, "ocr">>
           meta == <<q, "metadata">>
           x == RunDoc[q]
           lifted == [Unleased(d.jobs[ocr], "queued") EXCEPT !.due = TRUE, !.budget = d.jobs[ocr].budget + 1]
           f == [j \in Jobs |->
                    CASE j = ocr -> [Unleased(d.jobs[j], "queued") EXCEPT !.due = TRUE, !.budget = @ + 1]
                      [] j \in JobsOf(q) \ {ocr} /\ d.jobs[j].status = "cancelled" ->
                             [Unleased(d.jobs[j], "queued") EXCEPT !.due = TRUE]
                      [] OTHER -> d.jobs[j]]
           old == d.inventory[x]
           inv == [old EXCEPT !.stage["ocr"] = IF @ = "failed" THEN "queued" ELSE @]
           d1 == [d EXCEPT !.jobs = f, !.inventory[x] = inv]
           n == MirrorRunStatus({q}, TransitionRuns({q}, "VisionCrashRequeued", d1))
<1>1. d \in Database /\ MirroredBut({}, d) /\ d.jobs \in [Jobs -> JobRow] BY DEF Sound, SoundBut, Database
<1>2. ocr \in Jobs /\ meta \in Jobs /\ ocr # meta /\ RunOf(ocr) = q /\ RunOf(meta) = q BY StageJobs
<1>3. x \in Docs /\ old \in InventoryRow BY <1>1, RunDocAssumption DEF Database
<1>4. inv \in InventoryRow /\ inv.lastRun = old.lastRun /\ inv.status = old.status
  <2>1. "ocr" \in Stages /\ "queued" \in JobStatuses BY DEF Stages, JobStatuses, ActiveJobStatuses
  <2> HIDE DEF old
  <2> QED BY <1>3, <2>1 DEF InventoryRow
<1>5. d1 = LiftVisionCrash(q, d) BY <1>1, <1>3 DEF LiftVisionCrash, InventoryRow, Database
<1>6. lifted \in JobRow /\ lifted.status = "queued" /\ LiveJob(lifted)
  <2>1. d.jobs[ocr] \in JobRow /\ d.jobs[ocr].budget + 1 \in Nat BY <1>1, <1>2 DEF JobRow
  <2>2. Unleased(d.jobs[ocr], "queued") \in JobRow /\ LiveJob(Unleased(d.jobs[ocr], "queued"))
        /\ Unleased(d.jobs[ocr], "queued").status = "queued"
    BY <2>1, UnleasedWrites DEF JobStatuses, ActiveJobStatuses, Live
  <2> QED BY <2>1, <2>2 DEF JobRow, LiveJob
<1>7. f[ocr] = lifted BY <1>1, <1>2 DEF Unleased, JobRow
<1>8. ASSUME NEW j \in Jobs, j # ocr
      PROVE  /\ f[j] \in JobRow
             /\ RunOf(j) # q => f[j] = d.jobs[j]
             /\ RunOf(j) = q /\ d.jobs[j].status = "cancelled" => f[j].status = "queued" /\ LiveJob(f[j])
             /\ RunOf(j) = q /\ d.jobs[j].status # "cancelled" => f[j] = d.jobs[j]
  <2>1. d.jobs[j] \in JobRow /\ (j \in JobsOf(q) <=> RunOf(j) = q) BY <1>1, JobsOfRun
  <2>2. CASE RunOf(j) = q /\ d.jobs[j].status = "cancelled"
    <3>1. f[j] = [Unleased(d.jobs[j], "queued") EXCEPT !.due = TRUE] BY <1>8, <2>1, <2>2
    <3> QED BY <2>1, <2>2, <3>1, UnleasedQueued
  <2>3. CASE ~(RunOf(j) = q /\ d.jobs[j].status = "cancelled")
    <3>1. f[j] = d.jobs[j] BY <1>8, <2>1, <2>3
    <3> QED BY <2>1, <2>3, <3>1
  <2> QED BY <2>2, <2>3
<1>9. f \in [Jobs -> JobRow]
  <2>1. \A j \in Jobs : f[j] \in JobRow BY <1>6, <1>7, <1>8
  <2> QED BY <2>1
<1> HIDE DEF f, inv, lifted, old
<1>10. /\ d1 \in Database /\ d1.jobs = f /\ d1.runs = d.runs /\ d1.reviews = d.reviews
       /\ \A y \in Docs : d1.inventory[y] = IF y = x THEN inv ELSE d.inventory[y]
  <2> DEFINE iv == [d.inventory EXCEPT ![x] = inv]
  <2>1. iv \in [Docs -> InventoryRow] /\ (\A y \in Docs : iv[y] = IF y = x THEN inv ELSE d.inventory[y])
    BY <1>1, <1>3, <1>4 DEF Database
  <2>2. d1 = [d EXCEPT !.jobs = f, !.inventory = iv] BY <1>1 DEF Database
  <2> HIDE DEF iv
  <2> QED BY <1>1, <1>9, <2>1, <2>2 DEF Database
<1> HIDE DEF d1
<1>11. MirroredBut({q}, d1) BY <1>1, <1>4, <1>10 DEF MirroredBut, old
<1>12. /\ "VisionCrashRequeued" \in RunEvents /\ RunFrom("VisionCrashRequeued") = {"failed"}
       /\ ~RequiresNoRunningJob("VisionCrashRequeued") /\ RunTo("VisionCrashRequeued") = "queued"
  BY DEF RunEvents, RunFrom, RunTo, RequiresNoRunningJob
<1>13. /\ n \in Database /\ MirroredBut({}, n)
       /\ n.jobs = d1.jobs /\ n.reviews = d1.reviews
       /\ \A r \in Runs : n.runs[r] = IF r = q /\ d1.runs[r] \in RunFrom("VisionCrashRequeued")
                                    THEN RunTo("VisionCrashRequeued") ELSE d1.runs[r]
  BY <1>10, <1>11, <1>12, MoveRunWrites
<1> HIDE DEF n
<1>14. n.runs[q] = "queued" /\ \A r \in Runs : r # q => n.runs[r] = d.runs[r]
  BY <1>10, <1>12, <1>13
<1>15. n.jobs = f /\ n.reviews = d.reviews BY <1>10, <1>13
<1>16. RunSound(n.runs[q], n.jobs[ocr].status, n.jobs[meta].status)
  <2>1. RunSound("failed", "failed", d.jobs[meta].status) BY DEF Sound, SoundBut, RunsSound
  <2>2. d.jobs[meta].status \in JobStatuses \cup {"none"} BY <1>1, <1>2, StatusTypes
  <2>3. d.jobs[meta].status \in {"none", "cancelled"}
    BY <2>1, <2>2 DEF RunSound, ActiveRunStatuses, ActiveJobStatuses, JobStatuses
  <2>4. n.jobs[meta].status \in {"none", "queued"} BY <1>2, <1>8, <1>15, <2>3
  <2>5. n.jobs[ocr].status = "queued" BY <1>6, <1>7, <1>15
  <2> QED BY <1>14, <2>4, <2>5 DEF RunSound, ActiveRunStatuses, ActiveJobStatuses
<1>17. \A j \in Jobs : \/ n.jobs[j] = d.jobs[j]
                       \/ /\ d.jobs[j].status \in {"none", "failed", "cancelled"}
                          /\ n.jobs[j].status = "queued" /\ LiveJob(n.jobs[j])
  BY <1>6, <1>7, <1>8, <1>15
<1>18. \A j \in Jobs : RunOf(j) # q => n.jobs[j] = d.jobs[j] BY <1>2, <1>8, <1>15
<1>19. \A r \in Runs : n.runs[r] = IF r = q /\ d.runs[r] \in {"succeeded", "failed"}
                                   THEN "queued" ELSE d.runs[r]
  BY <1>14
<1> HIDE DEF ocr, meta, x
<1>20. Reopens(q, d, n)
  BY <1>13, <1>15, <1>16, <1>17, <1>18, <1>19 DEF Reopens, ocr, meta
<1> QED BY <1>5, <1>20 DEF n

(* The metadata backfill reopens a run that succeeded. *)
LEMMA BackfillReopens ==
    ASSUME NEW d, Sound(d), NEW q \in Runs,
           d.jobs[<<q, "ocr">>].status # "none", d.jobs[<<q, "metadata">>].status = "none",
           \/ d.runs[q] \in ActiveRunStatuses
           \/ d.runs[q] = "succeeded" /\ NoActiveRun(d, RunDoc[q])
    PROVE  Reopens(q, d, MirrorRunStatus({q},
                     SetJob(<<q, "metadata">>, [NoJobRow EXCEPT !.status = "queued"],
                         TransitionRuns({q}, "MetadataBackfilled", d))))
<1> DEFINE ocr == <<q, "ocr">>
           meta == <<q, "metadata">>
           row == [NoJobRow EXCEPT !.status = "queued"]
           d1 == TransitionRuns({q}, "MetadataBackfilled", d)
           d2 == SetJob(meta, row, d1)
           n == MirrorRunStatus({q}, d2)
<1>1. d \in Database /\ MirroredBut({}, d) /\ {q} \in SUBSET Runs BY DEF Sound, SoundBut
<1>2. ocr \in Jobs /\ meta \in Jobs /\ ocr # meta /\ RunOf(meta) = q BY StageJobs
<1>3. row \in JobRow /\ row.status = "queued" /\ LiveJob(row)
  BY MaxAttemptsAssumption DEF NoJobRow, JobRow, JobStatuses, ActiveJobStatuses, LiveJob, Live
<1> HIDE DEF row
<1>4. /\ "MetadataBackfilled" \in RunEvents /\ RunFrom("MetadataBackfilled") = {"succeeded"}
      /\ ~RequiresNoRunningJob("MetadataBackfilled") /\ RunTo("MetadataBackfilled") = "queued"
  BY DEF RunEvents, RunFrom, RunTo, RequiresNoRunningJob
<1>5. /\ d1 \in Database
      /\ d1.jobs = d.jobs /\ d1.inventory = d.inventory /\ d1.reviews = d.reviews
      /\ \A r \in Runs :
            d1.runs[r] = IF /\ r \in {q} /\ d.runs[r] \in RunFrom("MetadataBackfilled")
                            /\ RequiresNoRunningJob("MetadataBackfilled") => ~HasRunningJob(d, r)
                         THEN RunTo("MetadataBackfilled") ELSE d.runs[r]
  BY <1>1, <1>4, TransitionRunsWrites
<1> HIDE DEF d1
<1>6. /\ d1.runs[q] = IF d.runs[q] = "succeeded" THEN "queued" ELSE d.runs[q]
      /\ \A r \in Runs : r # q => d1.runs[r] = d.runs[r]
  BY <1>4, <1>5
<1>7. /\ d2 \in Database
      /\ d2.runs = d1.runs /\ d2.inventory = d1.inventory /\ d2.reviews = d1.reviews
      /\ \A k \in Jobs : d2.jobs[k] = IF k = meta THEN row ELSE d1.jobs[k]
  BY <1>2, <1>3, <1>5, SetJobWrites, SMTT(30)
<1> HIDE DEF d2
<1>8. MirroredBut({q}, d2)
  <2>1. \A r \in Runs \ {q} : d2.runs[r] = d.runs[r] BY <1>6, <1>7
  <2>2. d2.inventory = d.inventory BY <1>5, <1>7
  <2> QED BY <1>1, <2>1, <2>2, MirroredAfterRuns
<1>9. /\ n \in Database /\ MirroredBut({}, n)
      /\ n.jobs = d2.jobs /\ n.runs = d2.runs /\ n.reviews = d2.reviews
  BY <1>1, <1>7, <1>8, MirrorWrites
<1> HIDE DEF n
<1>10. /\ n.runs[q] = IF d.runs[q] = "succeeded" THEN "queued" ELSE d.runs[q]
       /\ \A r \in Runs : r # q => n.runs[r] = d.runs[r]
       /\ n.reviews = d.reviews
       /\ \A k \in Jobs : n.jobs[k] = IF k = meta THEN row ELSE d.jobs[k]
  BY <1>5, <1>6, <1>7, <1>9
<1>11. RunSound(n.runs[q], n.jobs[ocr].status, n.jobs[meta].status)
  <2>1. RunSound(d.runs[q], d.jobs[ocr].status, "none") BY DEF Sound, SoundBut, RunsSound
  <2>2. n.jobs[ocr] = d.jobs[ocr] /\ n.jobs[meta].status = "queued" BY <1>2, <1>3, <1>10
  <2> QED BY <1>10, <2>1, <2>2 DEF RunSound, ActiveRunStatuses, ActiveJobStatuses
<1>12. \A j \in Jobs : \/ n.jobs[j] = d.jobs[j]
                       \/ /\ d.jobs[j].status \in {"none", "failed", "cancelled"}
                          /\ n.jobs[j].status = "queued" /\ LiveJob(n.jobs[j])
  BY <1>3, <1>10
<1>13. \A j \in Jobs : RunOf(j) # q => n.jobs[j] = d.jobs[j] BY <1>2, <1>10
<1>14. \A r \in Runs : n.runs[r] = IF r = q /\ d.runs[r] \in {"succeeded", "failed"}
                                   THEN "queued" ELSE d.runs[r]
  BY <1>10 DEF ActiveRunStatuses
<1> HIDE DEF ocr, meta
<1>15. Reopens(q, d, n) BY <1>9, <1>10, <1>11, <1>12, <1>13, <1>14 DEF Reopens, ocr, meta
<1> QED BY <1>15 DEF n, d2, d1, row, meta

-----------------------------------------------------------------------------
(* The inductive invariant. *)

IInv ==
    /\ Sound(db)
    /\ tasks \in [TaskIds -> TaskState]
    /\ interventions \in Nat

(* The empty database is sound. *)
LEMMA InitSound == Init => IInv
<1> SUFFICES ASSUME Init PROVE IInv OBVIOUS
<1>1. NoJobRow \in JobRow /\ LiveJob(NoJobRow) /\ NoJobRow.status = "none"
  BY MaxAttemptsAssumption DEF NoJobRow, JobRow, LiveJob, Live
<1>2. /\ \A r \in Runs : db.runs[r] = "none"
      /\ \A j \in Jobs : db.jobs[j] = NoJobRow
      /\ \A x \in Docs : db.inventory[x].lastRun = NoRun /\ db.inventory[x].status = "none"
  BY DEF Init
<1>3. db \in Database
  <2>1. [lastRun |-> NoRun, status |-> "none", stage |-> [s \in Stages |-> "missing"]] \in InventoryRow
    BY DEF InventoryRow
  <2>2. NoReviewRow \in ReviewRow BY DEF ReviewRow
  <2> QED BY <1>1, <2>1, <2>2 DEF Init, Database
<1>4. RunsSound(db)
  BY <1>1, <1>2, StageJobs DEF RunsSound, RunSound, ActiveRunStatuses, ActiveJobStatuses
<1>5. OneActive(db) BY <1>2 DEF OneActive, ActiveRunStatuses
<1>6. MirroredBut({}, db) BY <1>2 DEF MirroredBut
<1>7. \A j \in Jobs : LiveJob(db.jobs[j]) /\ JobWaits(db, j) BY <1>1, <1>2 DEF JobWaits
<1>8. tasks \in [TaskIds -> TaskState] /\ interventions \in Nat
  <2>1. Idle \in TaskState BY MaxAttemptsAssumption DEF Idle, TaskState
  <2> QED BY <2>1 DEF Init
<1> QED BY <1>3, <1>4, <1>5, <1>6, <1>7, <1>8 DEF IInv, Sound, SoundBut

(* A task that ends or moves stays typed. *)
LEMMA TaskWrites ==
    ASSUME tasks \in [TaskIds -> TaskState], NEW t \in TaskIds
    PROVE  /\ EndTask(t) => tasks' \in [TaskIds -> TaskState]
           /\ \A pc \in {"reviewing", "reviewed", "aborted"} :
                 MoveTask(t, pc) => tasks' \in [TaskIds -> TaskState]
<1>1. Idle \in TaskState BY MaxAttemptsAssumption DEF Idle, TaskState
<1> QED BY <1>1 DEF EndTask, MoveTask, TaskState

(* The owner of a job is the owner of a live job: the fence of complete_job. *)
LEMMA OwnedIsLive ==
    ASSUME Sound(db), NEW t \in TaskIds, Owns(t)
    PROVE  db.jobs[JobOf(t)].status \in Live
  BY TaskShape, NullAssumption DEF Sound, SoundBut, LiveJob, Owns

(* Failing an exhausted job keeps the database sound. *)
LEMMA ExpiredSound ==
    ASSUME NEW d, Sound(d), NEW x \in ExhaustedJobs(d)
    PROVE  Sound(FailExhausted(x, d))
<1>1. x \in Jobs /\ d.jobs[x].status \in Live BY DEF ExhaustedJobs, ExpiredJobs, Live
<1> QED BY <1>1, PermanentSound DEF FailExhausted

(* claim_jobs keeps the database sound and its task typed. *)
LEMMA ClaimInSound ==
    ASSUME NEW d, Sound(d), NEW w \in Workers, ClaimIn(w, d), tasks \in [TaskIds -> TaskState]
    PROVE  Sound(db') /\ tasks' \in [TaskIds -> TaskState]
<1>1. CASE Candidates(d) = {} BY <1>1 DEF ClaimIn
<1>2. CASE Candidates(d) # {}
  <2>1. PICK j \in Candidates(d) : db' = ClaimJob(j, w, d) /\ SpawnTask(w, j, ClaimJob(j, w, d))
    BY <1>2 DEF ClaimIn
  <2>2. Sound(db') BY <2>1, ClaimSound
  <2>3. j \in Jobs BY DEF Candidates, StaleCandidates, QueuedCandidates, ExpiredJobs
  <2>4. db'.jobs[j].attempts \in Nat /\ db'.jobs[j].budget \in Nat
    BY <2>2, <2>3 DEF Sound, SoundBut, Database, JobRow
  <2>5. PICK g \in Generations :
            tasks' = [tasks EXCEPT ![<<w, j, g>>] =
                         [pc |-> "working", attempts |-> db'.jobs[j].attempts,
                          budget |-> db'.jobs[j].budget]]
    BY <2>1 DEF SpawnTask
  <2>6. [pc |-> "working", attempts |-> db'.jobs[j].attempts, budget |-> db'.jobs[j].budget] \in TaskState
    BY <2>4 DEF TaskState
  <2> QED BY <2>2, <2>5, <2>6
<1> QED BY <1>1, <1>2

(* The steps of a task. *)
LEMMA TaskStepSound ==
    ASSUME IInv, NEW t \in TaskIds, Heartbeat(t) \/ TaskEnds(t)
    PROVE  IInv'
<1> DEFINE j == JobOf(t)
<1>0. /\ Sound(db) /\ tasks \in [TaskIds -> TaskState] /\ interventions \in Nat
      /\ j \in Jobs /\ db.jobs[j] \in JobRow
      /\ LiveJob(db.jobs[j])
  BY TaskShape, StatusTypes DEF IInv, Sound, SoundBut
<1>1. CASE Heartbeat(t)
  <2>1. CASE HoldsLease(t, {"running"})
    <3> DEFINE row == [db.jobs[j] EXCEPT !.lease = "live"]
    <3>1. db' = SetJob(j, row, db) /\ tasks' = tasks /\ interventions' = interventions
      <4>1. db' = [db EXCEPT !.jobs[j].lease = "live"] BY <1>1, <2>1 DEF Heartbeat
      <4>2. db \in Database BY <1>0 DEF Sound, SoundBut
      <4> QED BY <1>0, <1>1, <2>1, <4>1, <4>2 DEF Heartbeat, SetJob, Database
    <3>2. /\ row \in JobRow /\ row.status = db.jobs[j].status /\ LiveJob(row)
          /\ db.jobs[j].status \in ActiveJobStatuses
      BY <1>0, <2>1 DEF JobRow, LiveJob, Live, HoldsLease, ActiveJobStatuses
    <3>3. Sound(db') BY <1>0, <3>1, <3>2, SetRowSound
    <3> QED BY <1>0, <3>1, <3>3 DEF IInv
  <2>2. CASE ~HoldsLease(t, {"running"})
    BY <1>0, <1>1, <2>2, TaskWrites DEF Heartbeat, IInv
  <2> QED BY <2>1, <2>2
<1>2. CASE Complete(t)
  <2>1. CASE Owns(t)
    <3>1. db.jobs[j].status \in Live BY <1>0, <2>1, OwnedIsLive
    <3>2. SoundBut({j}, db) BY <1>0 DEF Sound, SoundBut
    <3>3. Sound(db') BY <1>0, <1>2, <2>1, <3>1, <3>2, CompleteSound DEF Complete
    <3> QED BY <1>0, <1>2, <3>3, TaskWrites DEF Complete, IInv
  <2>2. CASE ~Owns(t) BY <1>0, <1>2, <2>2, TaskWrites DEF Complete, IInv
  <2> QED BY <2>1, <2>2
<1>3. CASE Fail(t)
  <2>1. tasks' \in [TaskIds -> TaskState] /\ interventions' \in Nat
    BY <1>0, <1>3, TaskWrites DEF Fail
  <2>2. CASE ~Owns(t) BY <1>0, <1>3, <2>1, <2>2 DEF Fail, IInv
  <2>3. CASE Owns(t)
    <3>1. PICK retry \in BOOLEAN : db' = FailJob(t, retry, db)
      <4>1. PICK retryable \in BOOLEAN, ceiling \in {0, InfraCeiling} :
                db' = FailJob(t, Retries(t, retryable, ceiling), db)
        BY <1>3, <2>3 DEF Fail
      <4>2. Retries(t, retryable, ceiling) \in BOOLEAN BY DEF Retries
      <4> QED BY <4>1, <4>2
    <3>2. db.jobs[j].status \in Live /\ db.jobs[j].status \in ActiveJobStatuses
      BY <1>0, <2>3, OwnedIsLive DEF Live, ActiveJobStatuses
    <3>3. CASE retry
      <4>1. db' = SetJob(j, [Unleased(db.jobs[j], "queued") EXCEPT !.due = FALSE], db)
        BY <3>1, <3>3 DEF FailJob
      <4>2. Sound(db') BY <1>0, <3>2, <4>1, UnleasedQueued, SetRowSound
      <4> QED BY <2>1, <4>2 DEF IInv
    <3>4. CASE ~retry
      <4>1. db' = PermanentFailure(j, SetJob(j, Unleased(db.jobs[j], "failed"), db))
        BY <3>1, <3>4 DEF FailJob
      <4>2. Sound(db') BY <1>0, <3>2, <4>1, PermanentSound
      <4> QED BY <2>1, <4>2 DEF IInv
    <3> QED BY <3>3, <3>4
  <2> QED BY <2>2, <2>3
<1>4. CASE ReleaseForCooldown(t)
  <2>1. tasks' \in [TaskIds -> TaskState] /\ interventions' \in Nat
    BY <1>0, <1>4, TaskWrites DEF ReleaseForCooldown
  <2>2. CASE HoldsLease(t, {"running"})
    <3>1. db.jobs[j].status = "running" BY <2>2 DEF HoldsLease
    <3>2. db' = ReleaseJob(j, db) BY <1>4, <2>2 DEF ReleaseForCooldown
    <3> QED BY <1>0, <2>1, <3>1, <3>2, ReleaseSound DEF IInv
  <2>3. CASE ~HoldsLease(t, {"running"}) BY <1>0, <1>4, <2>1, <2>3 DEF ReleaseForCooldown, IInv
  <2> QED BY <2>2, <2>3
<1>5. CASE CreateReview(t)
  <2>1. CASE HoldsLease(t, {"running", "waiting_review"})
    <3>1. PICK i \in ReviewIds : /\ NextReview(i) /\ db' = InsertReview(i, j, db)
                                 /\ MoveTask(t, "reviewed") \/ MoveTask(t, "reviewing")
      BY <1>5, <2>1 DEF CreateReview
    <3>2. db.jobs[j].status \in Live /\ db.reviews[i].status = "none"
      BY <2>1, <3>1 DEF HoldsLease, Live, NextReview
    <3>3. Sound(db') BY <1>0, <3>1, <3>2, InsertReviewSound
    <3>4. tasks' \in [TaskIds -> TaskState] BY <1>0, <3>1, TaskWrites
    <3> QED BY <1>0, <1>5, <3>3, <3>4 DEF IInv, CreateReview
  <2>2. CASE ~HoldsLease(t, {"running", "waiting_review"})
    BY <1>0, <1>5, <2>2, TaskWrites DEF CreateReview, IInv
  <2> QED BY <2>1, <2>2
<1>6. CASE FinishReviews(t) \/ WatchdogAborts(t) \/ EndUnrecorded(t)
  BY <1>0, <1>6, TaskWrites DEF FinishReviews, WatchdogAborts, EndUnrecorded, IInv
<1> QED BY <1>1, <1>2, <1>3, <1>4, <1>5, <1>6 DEF TaskEnds

(* A row that keeps its status and stays consistent with its lease. *)
LEMMA SameStatusSound ==
    ASSUME NEW d, Sound(d), NEW j \in Jobs, NEW row \in JobRow,
           row.status = d.jobs[j].status, LiveJob(row)
    PROVE  Sound(SetJob(j, row, d))
<1> DEFINE n == SetJob(j, row, d)
           q == RunOf(j)
<1>1. d \in Database /\ MirroredBut({}, d) BY DEF Sound, SoundBut
<1>2. /\ n \in Database
      /\ n.runs = d.runs /\ n.inventory = d.inventory /\ n.reviews = d.reviews
      /\ \A k \in Jobs : n.jobs[k] = IF k = j THEN row ELSE d.jobs[k]
  BY <1>1, SetJobWrites
<1> HIDE DEF n
<1>3. q \in Runs BY JobShape
<1> HIDE DEF q
<1>4. \A k \in Jobs : n.jobs[k].status = d.jobs[k].status /\ LiveJob(n.jobs[k])
  BY <1>2 DEF Sound, SoundBut
<1>5. RunSound(n.runs[q], n.jobs[<<q, "ocr">>].status, n.jobs[<<q, "metadata">>].status)
  <2>1. RunSound(d.runs[q], d.jobs[<<q, "ocr">>].status, d.jobs[<<q, "metadata">>].status)
    BY <1>3 DEF Sound, SoundBut, RunsSound
  <2> QED BY <1>2, <1>3, <1>4, <2>1, StageJobs
<1>6. ASSUME NEW k \in Jobs PROVE JobWaits(n, k)
  <2>1. JobWaits(d, k) BY DEF Sound, SoundBut
  <2> QED BY <1>2, <1>4, <2>1, WaitsKept
<1>7. MirroredBut({}, n) BY <1>1, <1>2 DEF MirroredBut
<1>8. \A k \in Jobs : RunOf(k) # q => n.jobs[k] = d.jobs[k] BY <1>2 DEF q
<1>9. LiveJob(n.jobs[<<q, "ocr">>]) /\ LiveJob(n.jobs[<<q, "metadata">>])
  BY <1>3, <1>4, StageJobs
<1>10. SoundBut({}, n) BY <1>2, <1>3, <1>5, <1>6, <1>7, <1>8, <1>9, RunStep DEF Sound
<1> QED BY <1>10 DEF n, Sound

(* Leases expire and backoffs elapse. *)
LEMMA TimeStepSound ==
    ASSUME IInv, NEW j \in Jobs, LeaseExpires(j) \/ BackoffElapses(j)
    PROVE  IInv'
<1>1. Sound(db) /\ db \in Database /\ db.jobs[j] \in JobRow /\ LiveJob(db.jobs[j])
  BY StatusTypes DEF IInv, Sound, SoundBut
<1>2. CASE LeaseExpires(j)
  <2> DEFINE row == [db.jobs[j] EXCEPT !.lease = "expired"]
  <2>1. db' = SetJob(j, row, db) BY <1>1, <1>2 DEF LeaseExpires, SetJob, Database
  <2>2. row \in JobRow /\ row.status = db.jobs[j].status /\ LiveJob(row)
    BY <1>1 DEF JobRow, LiveJob
  <2>3. Sound(db') BY <1>1, <2>1, <2>2, SameStatusSound
  <2> QED BY <1>2, <2>3 DEF LeaseExpires, IInv
<1>3. CASE BackoffElapses(j)
  <2> DEFINE row == [db.jobs[j] EXCEPT !.due = TRUE]
  <2>1. db' = SetJob(j, row, db) BY <1>1, <1>3 DEF BackoffElapses, SetJob, Database
  <2>2. row \in JobRow /\ row.status = db.jobs[j].status /\ LiveJob(row)
    BY <1>1 DEF JobRow, LiveJob
  <2>3. Sound(db') BY <1>1, <2>1, <2>2, SameStatusSound
  <2> QED BY <1>3, <2>3 DEF BackoffElapses, IInv
<1> QED BY <1>2, <1>3

(* Runs are created. *)
LEMMA CreateRunSound ==
    ASSUME IInv, NEW r \in Runs, NEW S \in (SUBSET Stages) \ {{}}, CreateRun(r, S)
    PROVE  IInv'
  BY InsertRunSound DEF CreateRun, IInv

(* Jobs are claimed, processes crash. *)
LEMMA WorkerStepSound ==
    ASSUME IInv, NEW w \in Workers, Claim(w) \/ Crash(w)
    PROVE  IInv'
<1>0. Sound(db) /\ tasks \in [TaskIds -> TaskState] BY DEF IInv
<1>1. CASE Claim(w)
  <2>1. PICK d : Sound(d) /\ ClaimIn(w, d)
    <3>1. CASE ExhaustedJobs(db) = {} BY <1>0, <1>1, <3>1 DEF Claim
    <3>2. CASE ExhaustedJobs(db) # {}
      <4>1. PICK x \in ExhaustedJobs(db) : ClaimIn(w, FailExhausted(x, db))
        BY <1>1, <3>2 DEF Claim
      <4> QED BY <1>0, <4>1, ExpiredSound
    <3> QED BY <3>1, <3>2
  <2>2. Sound(db') /\ tasks' \in [TaskIds -> TaskState] BY <1>0, <2>1, ClaimInSound
  <2> QED BY <1>1, <2>2 DEF Claim, IInv
<1>2. CASE Crash(w)
  <2>1. Idle \in TaskState BY MaxAttemptsAssumption DEF Idle, TaskState
  <2> QED BY <1>0, <1>2, <2>1 DEF Crash, IInv
<1> QED BY <1>1, <1>2

(* Review items are decided, claimed, applied, reverted and retried. *)
LEMMA ReviewStepSound ==
    ASSUME IInv, NEW i \in ReviewIds, ReviewStep(i)
    PROVE  IInv'
<1> DEFINE j == db.reviews[i].job
<1>0. Sound(db) BY DEF IInv
<1>1. ASSUME NEW s \in ReviewStatuses, db.reviews[i].status # "none"
      PROVE  /\ j \in Jobs
             /\ SoundBut({j}, SetReview(i, s, db))
             /\ s \in OpenReviewStatuses => Sound(SetReview(i, s, db))
  BY <1>0, <1>1, SetReviewSound
<1>2. {"pending", "approved", "applying"} \subseteq OpenReviewStatuses
      /\ OpenReviewStatuses \cup {"applied", "rejected"} \subseteq ReviewStatuses
  BY DEF ReviewStatuses, OpenReviewStatuses, ClosedReviewStatuses
<1>3. CASE Approve(i) BY <1>1, <1>2, <1>3 DEF Approve, IInv
<1>4. CASE ClaimReview(i) BY <1>1, <1>2, <1>4 DEF ClaimReview, IInv
<1>5. CASE RevertReview(i) BY <1>1, <1>2, <1>5 DEF RevertReview, IInv
<1>6. CASE Reject(i)
  <2>1. j \in Jobs /\ SoundBut({j}, SetReview(i, "rejected", db)) BY <1>1, <1>2, <1>6 DEF Reject
  <2>2. Sound(db') BY <1>6, <2>1, FinalizeSound DEF Reject
  <2> QED BY <1>6, <2>2 DEF Reject, IInv
<1>7. CASE SettleApplied(i)
  <2>1. j \in Jobs /\ SoundBut({j}, SetReview(i, "applied", db)) BY <1>1, <1>2, <1>7 DEF SettleApplied
  <2>2. Sound(db') BY <1>7, <2>1, FinalizeSound DEF SettleApplied
  <2> QED BY <1>7, <2>2 DEF SettleApplied, IInv
<1>8. ASSUME NEW r \in Runs, RetryReview(i, r) PROVE IInv'
  <2>1. j \in Jobs BY <1>1, <1>2, <1>8 DEF RetryReview
  <2>2. Sound(CloseForRetry(j, db)) BY <1>0, <2>1, CloseForRetrySound
  <2>3. /\ CloseForRetry(j, db).runs[r] = "none"
        /\ NoActiveRun(CloseForRetry(j, db), RunDoc[r])
        /\ db' = InsertRun(r, {"metadata"}, CloseForRetry(j, db))
    BY <1>8 DEF RetryReview
  <2>4. {"metadata"} \in SUBSET Stages /\ {"metadata"} # {} BY DEF Stages
  <2>5. Sound(db') BY <2>2, <2>3, <2>4, InsertRunSound
  <2> QED BY <1>8, <2>5 DEF RetryReview, IInv
<1> QED BY <1>3, <1>4, <1>5, <1>6, <1>7, <1>8 DEF ReviewStep

(* Operator recovery and startup repairs. *)
LEMMA RecoverySound ==
    ASSUME IInv, Recovery
    PROVE  IInv'
<1>0. Sound(db) BY DEF IInv
<1>1. ASSUME Intervene PROVE interventions' \in Nat BY <1>1 DEF Intervene, IInv
<1>2. ASSUME NEW X \in SUBSET Jobs, RecoverStaleLeases(X) PROVE IInv'
  <2>1. Sound(db') BY <1>0, <1>2, RecoverRequeues, RequeueSound DEF RecoverStaleLeases
  <2> QED BY <1>1, <1>2, <2>1 DEF RecoverStaleLeases, IInv
<1>3. ASSUME NEW r \in Runs, RequeueVisionCrash(r) PROVE IInv'
  <2>1. Sound(db') BY <1>0, <1>3, LiftReopens, ReopenSound DEF RequeueVisionCrash, VisionCrashed
  <2> QED BY <1>1, <1>3, <2>1 DEF RequeueVisionCrash, IInv
<1>4. ASSUME NEW r \in Runs, BackfillMetadata(r) PROVE IInv'
  <2>1. Sound(db') BY <1>0, <1>4, BackfillReopens, ReopenSound DEF BackfillMetadata, OcrOnly
  <2> QED BY <1>1, <1>4, <2>1 DEF BackfillMetadata, IInv
<1>5. CASE ResetStuckRuns
  <2>1. Sound(db') BY <1>0, <1>5, ResetRequeues, RequeueSound DEF ResetStuckRuns
  <2> QED BY <1>1, <1>5, <2>1 DEF ResetStuckRuns, IInv
<1> QED BY <1>2, <1>3, <1>4, <1>5 DEF Recovery

(* The invariant is inductive: every action of Next preserves it. *)
THEOREM NextSound == IInv /\ [Next]_vars => IInv'
<1> SUFFICES ASSUME IInv, [Next]_vars PROVE IInv' OBVIOUS
<1>1. ASSUME NEW r \in Runs, NEW S \in (SUBSET Stages) \ {{}}, CreateRun(r, S) PROVE IInv'
  BY <1>1, CreateRunSound
<1>2. ASSUME NEW w \in Workers, Claim(w) \/ Crash(w) PROVE IInv' BY <1>2, WorkerStepSound
<1>3. ASSUME NEW t \in TaskIds, Heartbeat(t) \/ TaskEnds(t) PROVE IInv' BY <1>3, TaskStepSound
<1>4. ASSUME NEW j \in Jobs, LeaseExpires(j) \/ BackoffElapses(j) PROVE IInv'
  BY <1>4, TimeStepSound
<1>5. ASSUME NEW i \in ReviewIds, ReviewStep(i) PROVE IInv' BY <1>5, ReviewStepSound
<1>6. CASE Recovery BY <1>6, RecoverySound
<1>7. CASE UNCHANGED vars BY <1>7 DEF vars, IInv
<1> QED BY <1>1, <1>2, <1>3, <1>4, <1>5, <1>6, <1>7 DEF Next

(* Every reachable state satisfies the inductive invariant. *)
THEOREM AlwaysSound == Spec => []IInv
  BY InitSound, NextSound, PTL DEF Spec

-----------------------------------------------------------------------------
(* The invariants of the runs follow from it. *)

(* Sound speaks of the two jobs of a run by name, the invariants of the set
   JobsOf(r). *)
LEMMA IInvIsConsistent == IInv <=> Consistent
<1>1. ASSUME NEW r \in Runs
      PROVE  /\ HasActiveJob(db, r) <=>
                   \/ db.jobs[<<r, "ocr">>].status \in ActiveJobStatuses
                   \/ db.jobs[<<r, "metadata">>].status \in ActiveJobStatuses
             /\ {db.jobs[j].status : j \in JobsOf(r)} =
                   {db.jobs[<<r, "ocr">>].status, db.jobs[<<r, "metadata">>].status}
  BY JobsOfRun DEF HasActiveJob
<1>2. RunsSound(db) <=> /\ UnbornRunHasNoJobs /\ RunActiveIffWorkLeft /\ NoJobBlockedByFailure
                        /\ RunOutcomeMatchesJobs /\ StageOrder
  <2> DEFINE o(r) == db.jobs[<<r, "ocr">>].status
             m(r) == db.jobs[<<r, "metadata">>].status
  <2>1. UnbornRunHasNoJobs <=> \A r \in Runs : db.runs[r] = "none" => o(r) = "none" /\ m(r) = "none"
    BY JobsOfRun, ZenonT(40) DEF UnbornRunHasNoJobs
  <2>2. RunActiveIffWorkLeft <=>
            \A r \in Runs : db.runs[r] \in ActiveRunStatuses
                <=> o(r) \in ActiveJobStatuses \/ m(r) \in ActiveJobStatuses
    BY <1>1 DEF RunActiveIffWorkLeft
  <2>3. NoJobBlockedByFailure <=>
            \A r \in Runs : o(r) \in ActiveJobStatuses \/ m(r) \in ActiveJobStatuses
                => o(r) \notin {"failed", "cancelled"} /\ m(r) \notin {"failed", "cancelled"}
    <3>1. ASSUME NEW r \in Runs
          PROVE  (\A j \in JobsOf(r) : db.jobs[j].status \notin {"failed", "cancelled"})
                    <=> o(r) \notin {"failed", "cancelled"} /\ m(r) \notin {"failed", "cancelled"}
      BY JobsOfRun
    <3>2. ASSUME NEW r \in Runs
          PROVE  HasActiveJob(db, r) <=> o(r) \in ActiveJobStatuses \/ m(r) \in ActiveJobStatuses
      BY <1>1
    <3> HIDE DEF o, m
    <3> QED BY <3>1, <3>2 DEF NoJobBlockedByFailure
  <2>4. RunOutcomeMatchesJobs <=>
            \A r \in Runs :
                /\ db.runs[r] = "succeeded" => o(r) \in {"succeeded", "none"} /\ m(r) \in {"succeeded", "none"}
                /\ db.runs[r] = "failed" => o(r) = "failed" \/ m(r) = "failed"
                /\ db.runs[r] = "rejected" => (o(r) = "cancelled" \/ m(r) = "cancelled")
                                              /\ o(r) # "failed" /\ m(r) # "failed"
    BY <1>1 DEF RunOutcomeMatchesJobs
  <2> QED BY <2>1, <2>2, <2>3, <2>4 DEF RunsSound, RunSound, StageOrder
<1>3. OneActive(db) <=> OneActiveRun BY DEF OneActive, OneActiveRun
<1>4. MirroredBut({}, db) <=> InventoryMirrorsRun BY DEF MirroredBut, InventoryMirrorsRun
<1>5. (\A j \in Jobs : LiveJob(db.jobs[j])) <=> OwnedJobsAreLive
  BY DEF LiveJob, Live, OwnedJobsAreLive
<1>6. (\A j \in Jobs : JobWaits(db, j)) <=> WaitingJobHasOpenReview
  BY DEF JobWaits, WaitingJobHasOpenReview
<1> QED BY <1>2, <1>3, <1>4, <1>5, <1>6 DEF IInv, Sound, SoundBut, Consistent, TypeOK

(* All invariants of the queue hold together in every reachable state. *)
THEOREM AlwaysConsistent == Spec => []Consistent
  BY AlwaysSound, IInvIsConsistent, PTL

(* The rows, the tasks and the counter stay in their types. *)
THEOREM TypeCorrect == Spec => []TypeOK
  BY AlwaysConsistent, PTL DEF Consistent

(* A job has an owner exactly while it runs or waits for review, so the owner
   fence of complete_job and fail_job admits no job that already ended. *)
THEOREM LeaseFence == Spec => []OwnedJobsAreLive
  BY AlwaysConsistent, PTL DEF Consistent

(* A run is active exactly while one of its jobs is: no run waits for nothing
   and no job outlives its run. *)
THEOREM RunsHaveWork == Spec => []RunActiveIffWorkLeft
  BY AlwaysConsistent, PTL DEF Consistent

(* How a run ended says how its jobs ended. *)
THEOREM OutcomesAgree == Spec => []RunOutcomeMatchesJobs
  BY AlwaysConsistent, PTL DEF Consistent

(* Metadata never starts before the OCR stage of its run succeeded. *)
THEOREM StagesInOrder == Spec => []StageOrder
  BY AlwaysConsistent, PTL DEF Consistent

(* A document has at most one active run, repairs and retries included. *)
THEOREM SingleActiveRun == Spec => []OneActiveRun
  BY AlwaysConsistent, PTL DEF Consistent

(* The inventory row of a document mirrors the status of its last run after
   every transaction. *)
THEOREM MirrorHolds == Spec => []InventoryMirrorsRun
  BY AlwaysConsistent, PTL DEF Consistent

(* A job that waits for review can still be decided. *)
THEOREM ReviewsReachable == Spec => []WaitingJobHasOpenReview
  BY AlwaysConsistent, PTL DEF Consistent

(* No active run holds a failed or cancelled job. *)
THEOREM FailureUnblocks == Spec => []NoJobBlockedByFailure
  BY AlwaysConsistent, PTL DEF Consistent

-----------------------------------------------------------------------------
(* JobQueue implements RunLifecycle, and every step of it keeps to the      *)
(* documented job table.  Advances(d, n) says of a transaction from the     *)
(* database d to the database n what the two ask of it; it is shown of one  *)
(* transaction after the other.                                            *)

Outcomes == {"succeeded", "rejected", "failed"}

PhaseIn(d, r) == IF d.runs[r] \in ActiveRunStatuses THEN "active" ELSE d.runs[r]

(* The row of j changes its status as the table says. *)
Allowed(j, d, n) ==
    \/ n.jobs[j].status = d.jobs[j].status
    \/ <<d.jobs[j].status, n.jobs[j].status>> \in JobTable

TableKept(d, n) == \A j \in Jobs : Allowed(j, d, n)

(* The runs outside R keep their phase. *)
Kept(R, d, n) == \A r \in Runs \ R : PhaseIn(n, r) = PhaseIn(d, r)

Starts(q, d, n) ==
    /\ PhaseIn(d, q) = "none" /\ PhaseIn(n, q) = "active"
    /\ NoActiveRun(d, RunDoc[q]) /\ Kept({q}, d, n)

Ends(q, d, n) ==
    /\ PhaseIn(d, q) = "active" /\ PhaseIn(n, q) \in Outcomes
    /\ Kept({q}, d, n)

Revives(q, d, n) ==
    /\ PhaseIn(d, q) \in {"succeeded", "failed"} /\ PhaseIn(n, q) = "active"
    /\ NoActiveRun(d, RunDoc[q]) /\ Kept({q}, d, n)

Replaces(q, p, d, n) ==
    /\ PhaseIn(d, q) = "active" /\ PhaseIn(n, q) \in Outcomes
    /\ PhaseIn(d, p) = "none" /\ PhaseIn(n, p) = "active"
    /\ RunDoc[q] = RunDoc[p] /\ Kept({q, p}, d, n)

(* A transaction on the run q alone: it ends the run or leaves all phases. *)
Settles(q, d, n) == TableKept(d, n) /\ (Kept({}, d, n) \/ Ends(q, d, n))

Advances(d, n) ==
    /\ TableKept(d, n)
    /\ \/ Kept({}, d, n)
       \/ \E q \in Runs : Starts(q, d, n) \/ Ends(q, d, n) \/ Revives(q, d, n)
       \/ \E q, p \in Runs : Replaces(q, p, d, n)

-----------------------------------------------------------------------------
(* Phases and the abstract actions. *)

(* A run is active exactly in the active statuses. *)
LEMMA ActivePhase ==
    ASSUME NEW d \in Database, NEW r \in Runs
    PROVE  PhaseIn(d, r) = "active" <=> d.runs[r] \in ActiveRunStatuses
<1>1. d.runs[r] \in RunStatuses \cup {"none"} BY StatusTypes
<1> QED BY <1>1 DEF PhaseIn, RunStatuses, TerminalRunStatuses

(* Runs that keep their status, or move between active ones, keep their phase. *)
LEMMA SamePhase ==
    ASSUME NEW d, NEW n, NEW r \in Runs,
           n.runs[r] = d.runs[r]
              \/ (d.runs[r] \in ActiveRunStatuses /\ n.runs[r] \in ActiveRunStatuses)
    PROVE  PhaseIn(n, r) = PhaseIn(d, r)
  BY DEF PhaseIn

(* What Advances allows is a step of RunLifecycle. *)
LEMMA AdvanceIsStep ==
    ASSUME db \in Database, Advances(db, db')
    PROVE  [Lifecycle!Next]_([r \in Runs |-> Phase(r)])
<1> DEFINE ph == [r \in Runs |-> PhaseIn(db, r)]
           pn == [r \in Runs |-> PhaseIn(db', r)]
<1>1. [r \in Runs |-> Phase(r)] = ph /\ [r \in Runs |-> Phase(r)]' = pn
  BY DEF Phase, PhaseIn
<1>2. \A r \in Runs : ph[r] = PhaseIn(db, r) /\ pn[r] = PhaseIn(db', r) OBVIOUS
<1>3. ASSUME NEW x, NoActiveRun(db, x) PROVE Lifecycle!DocIdle(x, ph)
  BY <1>2, <1>3, ActivePhase DEF NoActiveRun, Lifecycle!DocIdle
<1>4. CASE Kept({}, db, db')
  <2>1. pn = ph BY <1>4 DEF Kept
  <2> QED BY <1>1, <2>1
<1>5. ASSUME NEW q \in Runs, Kept({q}, db, db')
      PROVE  pn = [ph EXCEPT ![q] = pn[q]]
  BY <1>5 DEF Kept
<1>6. ASSUME NEW q \in Runs, NEW p \in Runs, Kept({q, p}, db, db'), q # p
      PROVE  pn = [ph EXCEPT ![q] = pn[q], ![p] = pn[p]]
  BY <1>6 DEF Kept
<1> HIDE DEF ph, pn
<1>7. ASSUME NEW q \in Runs, Starts(q, db, db') PROVE Lifecycle!Next
  <2>1. Lifecycle!Start(q)
    BY <1>1, <1>2, <1>3, <1>5, <1>7 DEF Starts, Lifecycle!Start
  <2> QED BY <2>1 DEF Lifecycle!Next
<1>8. ASSUME NEW q \in Runs, Ends(q, db, db') PROVE Lifecycle!Next
  <2>1. Lifecycle!Finish(q)
    BY <1>1, <1>2, <1>5, <1>8 DEF Ends, Outcomes, Lifecycle!Outcomes, Lifecycle!Finish
  <2> QED BY <2>1 DEF Lifecycle!Next
<1>9. ASSUME NEW q \in Runs, Revives(q, db, db') PROVE Lifecycle!Next
  <2>1. Lifecycle!Reopen(q)
    BY <1>1, <1>2, <1>3, <1>5, <1>9 DEF Revives, Lifecycle!Reopen
  <2> QED BY <2>1 DEF Lifecycle!Next
<1>10. ASSUME NEW q \in Runs, NEW p \in Runs, Replaces(q, p, db, db') PROVE Lifecycle!Next
  <2>1. q # p BY <1>10 DEF Replaces
  <2>2. pn = [ph EXCEPT ![q] = pn[q], ![p] = pn[p]] BY <1>6, <1>10, <2>1 DEF Replaces
  <2>3. Lifecycle!Replace(q, p)
    BY <1>1, <1>2, <1>10, <2>2 DEF Replaces, Outcomes, Lifecycle!Outcomes, Lifecycle!Replace
  <2> QED BY <2>3 DEF Lifecycle!Next
<1> QED BY <1>4, <1>7, <1>8, <1>9, <1>10 DEF Advances

-----------------------------------------------------------------------------
(* The transactions on one job. *)

(* Only the row of j changes, as the table says, and no run leaves its phase. *)
LEMMA RowSettles ==
    ASSUME NEW d, NEW n, NEW j \in Jobs, Allowed(j, d, n),
           \A k \in Jobs : k # j => n.jobs[k].status = d.jobs[k].status,
           \A r \in Runs : n.runs[r] = d.runs[r]
              \/ (d.runs[r] \in ActiveRunStatuses /\ n.runs[r] \in ActiveRunStatuses)
    PROVE  Settles(RunOf(j), d, n)
<1>1. TableKept(d, n) BY DEF TableKept, Allowed
<1>2. Kept({}, d, n) BY SamePhase DEF Kept
<1> QED BY <1>1, <1>2 DEF Settles

(* complete_job of a live job settles its run. *)
LEMMA CompleteSettles ==
    ASSUME NEW d, NEW K, SoundBut(K, d), NEW j \in Jobs, d.jobs[j].status \in Live
    PROVE  Settles(RunOf(j), d, CompleteJob(j, d))
<1> DEFINE n == CompleteJob(j, d)
           q == RunOf(j)
<1>1. d \in Database /\ MirroredBut({}, d) /\ q \in Runs BY JobShape DEF SoundBut
<1>2. /\ n \in Database
      /\ \A k \in Jobs : n.jobs[k] = IF k = j THEN Unleased(d.jobs[j], "succeeded") ELSE d.jobs[k]
      /\ \A r \in Runs :
            n.runs[r] = IF r = q /\ d.runs[r] \in ActiveRunStatuses
                        THEN IF HasActiveJob(n, r) THEN "queued" ELSE "succeeded"
                        ELSE d.runs[r]
  BY <1>1, CompleteWrites
<1>3. d.runs[q] \in ActiveRunStatuses BY ActiveJobActiveRun DEF Live, ActiveJobStatuses
<1> HIDE DEF n, q
<1>4. TableKept(d, n)
  <2>1. d.jobs[j] \in JobRow /\ "succeeded" \in JobStatuses BY <1>1, StatusTypes DEF JobStatuses
  <2>2. n.jobs[j].status = "succeeded" BY <1>2, <2>1, UnleasedWrites
  <2> QED BY <1>2, <2>2 DEF TableKept, Allowed, JobTable, Live
<1>5. Kept({q}, d, n) BY <1>2, SamePhase DEF Kept
<1>6. CASE HasActiveJob(n, q)
  <2>1. n.runs[q] \in ActiveRunStatuses BY <1>1, <1>2, <1>3, <1>6 DEF ActiveRunStatuses
  <2>2. Kept({}, d, n) BY <1>3, <1>5, <2>1, SamePhase DEF Kept
  <2> QED BY <1>4, <2>2 DEF Settles, n, q
<1>7. CASE ~HasActiveJob(n, q)
  <2>1. n.runs[q] = "succeeded" BY <1>1, <1>2, <1>3, <1>7
  <2>2. Ends(q, d, n)
    BY <1>1, <1>3, <1>5, <2>1, ActivePhase DEF Ends, Outcomes, PhaseIn, ActiveRunStatuses
  <2> QED BY <1>4, <2>2 DEF Settles, n, q
<1> QED BY <1>6, <1>7

(* A job that fails, or whose items are all rejected, ends its run. *)
LEMMA EndSettles ==
    ASSUME NEW d, NEW K, SoundBut(K, d), NEW j \in Jobs, d.jobs[j].status \in Live,
           NEW n, NEW run, NEW s,
           <<run, s>> \in {<<"failed", "failed">>, <<"rejected", "cancelled">>},
           \A k \in Jobs :
               n.jobs[k] = IF k = j THEN Unleased(d.jobs[j], s)
                           ELSE IF RunOf(k) = RunOf(j) /\ d.jobs[k].status \in ActiveJobStatuses
                           THEN Unleased(d.jobs[k], "cancelled") ELSE d.jobs[k],
           \A r \in Runs : n.runs[r] = IF r = RunOf(j) /\ d.runs[r] \in ActiveRunStatuses
                                    THEN run ELSE d.runs[r]
    PROVE  TableKept(d, n) /\ Ends(RunOf(j), d, n)
<1> DEFINE q == RunOf(j)
<1>0. (run = "failed" /\ s = "failed") \/ (run = "rejected" /\ s = "cancelled") OBVIOUS
<1>1. d \in Database /\ q \in Runs BY JobShape DEF SoundBut
<1>2. d.runs[q] \in ActiveRunStatuses BY ActiveJobActiveRun DEF Live, ActiveJobStatuses
<1>3. \A k \in Jobs : d.jobs[k] \in JobRow BY <1>1, StatusTypes
<1>4. s \in JobStatuses /\ "cancelled" \in JobStatuses BY <1>0 DEF JobStatuses
<1>5. ASSUME NEW k \in Jobs PROVE Allowed(k, d, n)
  <2>1. CASE k = j
    <3>1. n.jobs[j].status = s BY <1>3, <1>4, <2>1, UnleasedWrites
    <3> QED BY <1>0, <2>1, <3>1 DEF Allowed, JobTable, Live, ActiveJobStatuses
  <2>2. CASE k # j /\ RunOf(k) = RunOf(j) /\ d.jobs[k].status \in ActiveJobStatuses
    <3>1. n.jobs[k] = Unleased(d.jobs[k], "cancelled") BY <2>2
    <3>2. n.jobs[k].status = "cancelled" BY <1>3, <1>4, <3>1, UnleasedWrites
    <3> QED BY <2>2, <3>2 DEF Allowed, JobTable
  <2>3. CASE k # j /\ ~(RunOf(k) = RunOf(j) /\ d.jobs[k].status \in ActiveJobStatuses)
    BY <2>3 DEF Allowed
  <2> QED BY <2>1, <2>2, <2>3
<1>6. Kept({q}, d, n) BY SamePhase DEF Kept
<1>7. n.runs[q] = run BY <1>1, <1>2
<1> HIDE DEF q
<1>8. Ends(q, d, n)
  BY <1>0, <1>1, <1>2, <1>6, <1>7, ActivePhase DEF Ends, Outcomes, PhaseIn, ActiveRunStatuses
<1> QED BY <1>5, <1>8 DEF TableKept, q

(* A permanent failure. *)
LEMMA PermanentSettles ==
    ASSUME NEW d, Sound(d), NEW j \in Jobs, d.jobs[j].status \in Live
    PROVE  LET n == PermanentFailure(j, SetJob(j, Unleased(d.jobs[j], "failed"), d))
           IN  /\ TableKept(d, n) /\ Ends(RunOf(j), d, n)
               /\ \A k \in Jobs : n.jobs[k].status = d.jobs[k].status
                                   \/ n.jobs[k].status \in {"failed", "cancelled"}
<1> DEFINE n == PermanentFailure(j, SetJob(j, Unleased(d.jobs[j], "failed"), d))
<1>1. d \in Database /\ MirroredBut({}, d) /\ SoundBut({}, d) BY DEF Sound, SoundBut
<1>2. /\ \A k \in Jobs :
            n.jobs[k] = IF k = j THEN Unleased(d.jobs[j], "failed")
                        ELSE IF RunOf(k) = RunOf(j) /\ d.jobs[k].status \in ActiveJobStatuses
                        THEN Unleased(d.jobs[k], "cancelled") ELSE d.jobs[k]
      /\ \A r \in Runs :
            n.runs[r] = IF r = RunOf(j) /\ d.runs[r] \in ActiveRunStatuses
                        THEN "failed" ELSE d.runs[r]
  BY <1>1, PermanentWrites
<1> HIDE DEF n
<1>3. TableKept(d, n) /\ Ends(RunOf(j), d, n) BY <1>1, <1>2, EndSettles
<1>4. ASSUME NEW k \in Jobs
      PROVE  n.jobs[k].status = d.jobs[k].status \/ n.jobs[k].status \in {"failed", "cancelled"}
  <2>1. d.jobs[k] \in JobRow /\ d.jobs[j] \in JobRow /\ {"failed", "cancelled"} \subseteq JobStatuses
    BY <1>1, StatusTypes DEF JobStatuses
  <2> QED BY <1>2, <2>1, UnleasedWrites
<1> QED BY <1>3, <1>4 DEF n

(* finalize_review_aggregate_tx. *)
LEMMA FinalizeSettles ==
    ASSUME NEW d, NEW j \in Jobs, SoundBut({j}, d)
    PROVE  Settles(RunOf(j), d, FinalizeAggregate(j, d))
<1>1. CASE \/ d.jobs[j].status # "waiting_review"
           \/ \E i \in ReviewsOf(d, j) : d.reviews[i].status \in OpenReviewStatuses
  <2>1. FinalizeAggregate(j, d) = d BY <1>1 DEF FinalizeAggregate
  <2> QED BY <2>1 DEF Settles, TableKept, Allowed, Kept
<1>2. CASE ~(\/ d.jobs[j].status # "waiting_review"
             \/ \E i \in ReviewsOf(d, j) : d.reviews[i].status \in OpenReviewStatuses)
  <2>1. d.jobs[j].status \in Live BY <1>2 DEF Live
  <2>2. CASE \E i \in ReviewsOf(d, j) : d.reviews[i].status = "applied"
    <3>1. FinalizeAggregate(j, d) = CompleteJob(j, d) BY <1>2, <2>2 DEF FinalizeAggregate
    <3> QED BY <2>1, <3>1, CompleteSettles
  <2>3. CASE ~\E i \in ReviewsOf(d, j) : d.reviews[i].status = "applied"
    <3> DEFINE n == FinalizeAggregate(j, d)
    <3>1. n = MirrorRunStatus({RunOf(j)}, TransitionRuns({RunOf(j)}, "Rejected",
                  CancelActiveJobs(RunOf(j), {},
                      SetInventoryStage(j, "rejected",
                          SetJob(j, Unleased(d.jobs[j], "cancelled"), d)))))
      BY <1>2, <2>3 DEF FinalizeAggregate
    <3>2. d \in Database /\ MirroredBut({}, d) BY DEF SoundBut
    <3> HIDE DEF n
    <3>3. /\ \A k \in Jobs :
               n.jobs[k] = IF k = j THEN Unleased(d.jobs[j], "cancelled")
                           ELSE IF RunOf(k) = RunOf(j) /\ d.jobs[k].status \in ActiveJobStatuses
                           THEN Unleased(d.jobs[k], "cancelled") ELSE d.jobs[k]
          /\ \A r \in Runs :
               n.runs[r] = IF r = RunOf(j) /\ d.runs[r] \in ActiveRunStatuses
                           THEN "rejected" ELSE d.runs[r]
      BY <3>1, <3>2, RejectWrites, ZenonT(40)
    <3>4. TableKept(d, n) /\ Ends(RunOf(j), d, n) BY <2>1, <3>3, EndSettles
    <3> QED BY <3>4 DEF n, Settles
  <2> QED BY <2>2, <2>3
<1> QED BY <1>1, <1>2

(* create_review_item. *)
LEMMA InsertReviewSettles ==
    ASSUME NEW d, Sound(d), NEW j \in Jobs, d.jobs[j].status \in Live, NEW i \in ReviewIds
    PROVE  Settles(RunOf(j), d, InsertReview(i, j, d))
<1> DEFINE n == InsertReview(i, j, d)
<1>1. d \in Database /\ MirroredBut({}, d) BY DEF Sound, SoundBut
<1>2. /\ n \in Database /\ MirroredBut({}, n)
      /\ n.reviews = [d.reviews EXCEPT ![i] = [status |-> "pending", job |-> j]]
      /\ n.jobs = [d.jobs EXCEPT ![j].status = "waiting_review"]
      /\ \A r \in Runs :
            n.runs[r] = IF r = RunOf(j) /\ d.runs[r] \in ActiveRunStatuses
                        THEN "waiting_review" ELSE d.runs[r]
  BY <1>1, InsertReviewWrites, SMTT(60)
<1> HIDE DEF n
<1>3. /\ n.jobs[j].status = "waiting_review"
      /\ \A k \in Jobs : k # j => n.jobs[k] = d.jobs[k]
  <2>1. d.jobs \in [Jobs -> JobRow]
    BY <1>1 DEF Database
  <2>2. n.jobs = [d.jobs EXCEPT ![j] = [d.jobs[j] EXCEPT !.status = "waiting_review"]]
    BY <1>2
  <2>3. [d.jobs[j] EXCEPT !.status = "waiting_review"].status = "waiting_review"
    BY <2>1 DEF JobRow
  <2> QED BY <2>1, <2>2, <2>3
<1>4. Allowed(j, d, n) BY <1>3 DEF Allowed, JobTable, Live
<1>5. ASSUME NEW r \in Runs
      PROVE  n.runs[r] = d.runs[r]
                \/ (d.runs[r] \in ActiveRunStatuses /\ n.runs[r] \in ActiveRunStatuses)
  BY <1>2 DEF ActiveRunStatuses
<1>6. Settles(RunOf(j), d, n) BY <1>3, <1>4, <1>5, RowSettles
<1> QED BY <1>6 DEF n

(* What settles a run advances the lifecycle. *)
LEMMA SettlesAdvances ==
    ASSUME NEW d, NEW n, NEW q \in Runs, Settles(q, d, n)
    PROVE  Advances(d, n)
  BY DEF Settles, Advances

-----------------------------------------------------------------------------
(* The steps. *)

(* The claim of a candidate: its job starts to run, and so does its run. *)
LEMMA ClaimJobRuns ==
    ASSUME NEW d, Sound(d), NEW w \in Workers, ClaimIn(w, d)
    PROVE  \/ db' = d
           \/ \E j \in Jobs :
                 /\ d.jobs[j].status \in {"queued", "running"}
                 /\ db'.jobs[j].status = "running"
                 /\ \A k \in Jobs : k # j => db'.jobs[k].status = d.jobs[k].status
                 /\ Kept({}, d, db')
<1>1. CASE Candidates(d) = {} BY <1>1 DEF ClaimIn
<1>2. CASE Candidates(d) # {}
  <2>1. PICK j \in Candidates(d) : db' = ClaimJob(j, w, d) BY <1>2 DEF ClaimIn
  <2>2. j \in Jobs /\ d.jobs[j].status \in {"queued", "running"}
    BY DEF Candidates, StaleCandidates, QueuedCandidates, ExpiredJobs
  <2>3. d \in Database /\ MirroredBut({}, d) BY DEF Sound, SoundBut
  <2>4. /\ \A k \in Jobs : db'.jobs[k] = IF k = j THEN Leased(d.jobs[j], w) ELSE d.jobs[k]
        /\ \A r \in Runs :
              db'.runs[r] = IF r = RunOf(j) /\ d.runs[r] \in {"queued", "running", "waiting_review"}
                            THEN "running" ELSE d.runs[r]
    BY <2>1, <2>2, <2>3, ClaimWrites
  <2>5. Leased(d.jobs[j], w).status = "running" BY <2>2, <2>3, StatusTypes DEF Leased, JobRow
  <2>6. ASSUME NEW r \in Runs
        PROVE  db'.runs[r] = d.runs[r]
                  \/ (d.runs[r] \in ActiveRunStatuses /\ db'.runs[r] \in ActiveRunStatuses)
    BY <2>4 DEF ActiveRunStatuses
  <2>7. Kept({}, d, db') BY <2>6, SamePhase DEF Kept
  <2> QED BY <2>2, <2>4, <2>5, <2>7
<1> QED BY <1>1, <1>2

(* claim_jobs may first fail one exhausted job, which ends the run of that
   job, and then claim another. *)
LEMMA ClaimAdvances ==
    ASSUME Sound(db), NEW w \in Workers, Claim(w)
    PROVE  Advances(db, db')
<1>1. CASE ExhaustedJobs(db) = {}
  <2>1. ClaimIn(w, db) BY <1>1 DEF Claim
  <2>2. CASE db' = db BY <2>2 DEF Advances, TableKept, Allowed, Kept
  <2>3. CASE db' # db
    <3>1. PICK j \in Jobs : /\ db.jobs[j].status \in {"queued", "running"}
                            /\ db'.jobs[j].status = "running"
                            /\ \A k \in Jobs : k # j => db'.jobs[k].status = db.jobs[k].status
                            /\ Kept({}, db, db')
      BY <2>1, <2>3, ClaimJobRuns
    <3>2. Allowed(j, db, db') BY <3>1 DEF Allowed, JobTable
    <3>3. TableKept(db, db') BY <3>1, <3>2 DEF TableKept, Allowed
    <3> QED BY <3>1, <3>3 DEF Advances
  <2> QED BY <2>2, <2>3
<1>2. CASE ExhaustedJobs(db) # {}
  <2>1. PICK x \in ExhaustedJobs(db) : ClaimIn(w, FailExhausted(x, db)) BY <1>2 DEF Claim
  <2> DEFINE m == FailExhausted(x, db)
  <2>2. x \in Jobs /\ db.jobs[x].status \in Live /\ RunOf(x) \in Runs
    BY JobShape DEF ExhaustedJobs, ExpiredJobs, Live
  <2>3. Sound(m) BY <2>1, ExpiredSound
  <2>4. /\ TableKept(db, m) /\ Ends(RunOf(x), db, m)
        /\ \A k \in Jobs : m.jobs[k].status = db.jobs[k].status
                            \/ m.jobs[k].status \in {"failed", "cancelled"}
    BY <2>2, PermanentSettles DEF FailExhausted
  <2> HIDE DEF m
  <2>5. CASE db' = m BY <2>2, <2>4, <2>5 DEF Advances
  <2>6. CASE db' # m
    <3>1. ClaimIn(w, m) BY <2>1 DEF m
    <3>2. PICK j \in Jobs : /\ m.jobs[j].status \in {"queued", "running"}
                            /\ db'.jobs[j].status = "running"
                            /\ \A k \in Jobs : k # j => db'.jobs[k].status = m.jobs[k].status
                            /\ Kept({}, m, db')
      BY <2>3, <2>6, <3>1, ClaimJobRuns
    <3>3. db.jobs[j].status \in {"queued", "running"} BY <2>4, <3>2
    <3>4. Allowed(j, db, db') BY <3>2, <3>3 DEF Allowed, JobTable
    <3>5. TableKept(db, db') BY <2>4, <3>2, <3>4 DEF TableKept, Allowed
    <3>6. Ends(RunOf(x), db, db') BY <2>2, <2>4, <3>2 DEF Ends, Kept
    <3> QED BY <2>2, <3>5, <3>6 DEF Advances
  <2> QED BY <2>5, <2>6
<1> QED BY <1>1, <1>2

(* A database that stays advances. *)
LEMMA SameAdvances ==
    ASSUME db' = db
    PROVE  Advances(db, db')
  BY DEF Advances, TableKept, Allowed, Kept

(* The steps of a task: complete, fail, release, review, heartbeat. *)
LEMMA TaskAdvances ==
    ASSUME Sound(db), NEW t \in TaskIds, Heartbeat(t) \/ TaskEnds(t)
    PROVE  Advances(db, db')
<1> DEFINE j == JobOf(t)
<1>0. /\ db \in Database /\ MirroredBut({}, db) /\ SoundBut({}, db)
      /\ j \in Jobs /\ RunOf(j) \in Runs /\ db.jobs[j] \in JobRow /\ db.jobs \in [Jobs -> JobRow]
  BY TaskShape, JobShape, StatusTypes DEF Sound, SoundBut, Database
<1>1. CASE Heartbeat(t)
  <2>1. CASE HoldsLease(t, {"running"})
    <3>1. db' = [db EXCEPT !.jobs[j].lease = "live"] BY <1>1, <2>1 DEF Heartbeat
    <3>2. /\ db'.runs = db.runs
          /\ \A k \in Jobs : db'.jobs[k].status = db.jobs[k].status
      BY <1>0, <3>1 DEF Database, JobRow
    <3>3. Settles(RunOf(j), db, db') BY <1>0, <3>2, RowSettles DEF Allowed
    <3> QED BY <1>0, <3>3, SettlesAdvances
  <2>2. CASE ~HoldsLease(t, {"running"}) BY <1>1, <2>2, SameAdvances DEF Heartbeat
  <2> QED BY <2>1, <2>2
<1>2. CASE Complete(t)
  <2>1. CASE Owns(t)
    <3>1. db.jobs[j].status \in Live BY <2>1, OwnedIsLive
    <3>2. db' = CompleteJob(j, db) BY <1>2, <2>1 DEF Complete
    <3> QED BY <1>0, <3>1, <3>2, CompleteSettles, SettlesAdvances
  <2>2. CASE ~Owns(t) BY <1>2, <2>2, SameAdvances DEF Complete
  <2> QED BY <2>1, <2>2
<1>3. CASE Fail(t)
  <2>1. CASE ~Owns(t) BY <1>3, <2>1, SameAdvances DEF Fail
  <2>2. CASE Owns(t)
    <3>1. PICK retry : retry \in BOOLEAN /\ db' = FailJob(t, retry, db)
      <4>1. PICK retryable \in BOOLEAN, ceiling \in {0, InfraCeiling} :
                db' = FailJob(t, Retries(t, retryable, ceiling), db)
        BY <1>3, <2>2 DEF Fail
      <4>2. Retries(t, retryable, ceiling) \in BOOLEAN BY DEF Retries
      <4> QED BY <4>1, <4>2
    <3>2. db.jobs[j].status \in Live BY <2>2, OwnedIsLive
    <3>3. CASE retry
      <4> DEFINE row == [Unleased(db.jobs[j], "queued") EXCEPT !.due = FALSE]
      <4>1. db' = SetJob(j, row, db) BY <3>1, <3>3 DEF FailJob
      <4>2. row \in JobRow /\ row.status = "queued" BY <1>0, UnleasedQueued
      <4> HIDE DEF row
      <4>3. /\ db'.runs = db.runs
            /\ \A k \in Jobs : db'.jobs[k] = IF k = j THEN row ELSE db.jobs[k]
        BY <1>0, <4>1, <4>2, SetJobWrites
      <4>4. Allowed(j, db, db') BY <1>0, <3>2, <4>2, <4>3 DEF Allowed, JobTable, Live
      <4>5. Settles(RunOf(j), db, db') BY <1>0, <4>3, <4>4, RowSettles
      <4> QED BY <1>0, <4>5, SettlesAdvances
    <3>4. CASE ~retry
      <4>1. db' = PermanentFailure(j, SetJob(j, Unleased(db.jobs[j], "failed"), db))
        BY <3>1, <3>4 DEF FailJob
      <4>2. TableKept(db, db') /\ Ends(RunOf(j), db, db') BY <1>0, <3>2, <4>1, PermanentSettles
      <4> QED BY <1>0, <4>2 DEF Advances
    <3> QED BY <3>1, <3>3, <3>4
  <2> QED BY <2>1, <2>2
<1>4. CASE ReleaseForCooldown(t)
  <2>1. CASE HoldsLease(t, {"running"})
    <3>1. db.jobs[j].status = "running" /\ db' = ReleaseJob(j, db)
      BY <1>4, <2>1 DEF HoldsLease, ReleaseForCooldown
    <3>2. /\ \A k \in Jobs : k # j => db'.jobs[k] = db.jobs[k]
          /\ db'.jobs[j].status = "queued"
          /\ \A r \in Runs : db'.runs[r] = db.runs[r] \/ (db.runs[r] = "running" /\ db'.runs[r] = "queued")
      BY <1>0, <3>1, ReleaseWrites
    <3>3. Allowed(j, db, db') BY <3>1, <3>2 DEF Allowed, JobTable
    <3>4. ASSUME NEW r \in Runs
          PROVE  db'.runs[r] = db.runs[r]
                    \/ (db.runs[r] \in ActiveRunStatuses /\ db'.runs[r] \in ActiveRunStatuses)
      BY <3>2 DEF ActiveRunStatuses
    <3>5. Settles(RunOf(j), db, db') BY <1>0, <3>2, <3>3, <3>4, RowSettles
    <3> QED BY <1>0, <3>5, SettlesAdvances
  <2>2. CASE ~HoldsLease(t, {"running"}) BY <1>4, <2>2, SameAdvances DEF ReleaseForCooldown
  <2> QED BY <2>1, <2>2
<1>5. CASE CreateReview(t)
  <2>1. CASE HoldsLease(t, {"running", "waiting_review"})
    <3>1. PICK i \in ReviewIds : db' = InsertReview(i, j, db) BY <1>5, <2>1 DEF CreateReview
    <3>2. db.jobs[j].status \in Live BY <2>1 DEF HoldsLease, Live
    <3>3. Settles(RunOf(j), db, db') BY <1>0, <3>1, <3>2, InsertReviewSettles
    <3> QED BY <1>0, <3>3, SettlesAdvances
  <2>2. CASE ~HoldsLease(t, {"running", "waiting_review"})
    BY <1>5, <2>2, SameAdvances DEF CreateReview
  <2> QED BY <2>1, <2>2
<1>6. CASE FinishReviews(t) \/ WatchdogAborts(t) \/ EndUnrecorded(t)
  BY <1>6, SameAdvances DEF FinishReviews, WatchdogAborts, EndUnrecorded
<1> QED BY <1>1, <1>2, <1>3, <1>4, <1>5, <1>6 DEF TaskEnds

(* Leases expire and backoffs elapse. *)
LEMMA TimeAdvances ==
    ASSUME Sound(db), NEW j \in Jobs, LeaseExpires(j) \/ BackoffElapses(j)
    PROVE  Advances(db, db')
<1>1. db \in Database /\ db.jobs \in [Jobs -> JobRow] /\ RunOf(j) \in Runs
  BY JobShape DEF Sound, SoundBut, Database
<1>2. db'.runs = db.runs /\ \A k \in Jobs : db'.jobs[k].status = db.jobs[k].status
  BY <1>1 DEF LeaseExpires, BackoffElapses, Database, JobRow
<1>3. Settles(RunOf(j), db, db') BY <1>2, RowSettles DEF Allowed
<1> QED BY <1>1, <1>3, SettlesAdvances

(* A new run of an idle document: its jobs are queued and it becomes active. *)
LEMMA InsertRunStarts ==
    ASSUME NEW d, Sound(d), NEW q \in Runs, NEW S \in SUBSET Stages,
           d.runs[q] = "none", NoActiveRun(d, RunDoc[q])
    PROVE  LET n == InsertRun(q, S, d)
           IN  /\ \A j \in Jobs : \/ n.jobs[j].status = d.jobs[j].status
                                  \/ d.jobs[j].status = "none" /\ n.jobs[j].status = "queued"
               /\ Starts(q, d, n)
<1> DEFINE n == InsertRun(q, S, d)
<1>1. d \in Database /\ MirroredBut({}, d) BY DEF Sound, SoundBut
<1>2. /\ \A j \in Jobs :
            /\ RunOf(j) = q /\ StageOf(j) \in S => n.jobs[j].status = "queued"
            /\ ~(RunOf(j) = q /\ StageOf(j) \in S) => n.jobs[j] = d.jobs[j]
      /\ \A r \in Runs : n.runs[r] = IF r = q THEN "queued" ELSE d.runs[r]
  BY <1>1, InsertRunWrites
<1> HIDE DEF n
<1>3. \A j \in Jobs : RunOf(j) = q => d.jobs[j].status = "none"
  <2>1. d.jobs[<<q, "ocr">>].status = "none" /\ d.jobs[<<q, "metadata">>].status = "none"
    BY DEF Sound, SoundBut, RunsSound, RunSound
  <2> QED BY <2>1, TwoJobs
<1>4. Kept({q}, d, n) BY <1>2, SamePhase DEF Kept
<1>5. PhaseIn(d, q) = "none" /\ PhaseIn(n, q) = "active"
  BY <1>2 DEF PhaseIn, ActiveRunStatuses
<1> QED BY <1>2, <1>3, <1>4, <1>5 DEF n, Starts

(* A run is created. *)
LEMMA CreateAdvances ==
    ASSUME Sound(db), NEW q \in Runs, NEW S \in (SUBSET Stages) \ {{}}, CreateRun(q, S)
    PROVE  Advances(db, db')
<1>1. /\ \A j \in Jobs : \/ db'.jobs[j].status = db.jobs[j].status
                         \/ db.jobs[j].status = "none" /\ db'.jobs[j].status = "queued"
      /\ Starts(q, db, db')
  BY InsertRunStarts DEF CreateRun
<1>2. TableKept(db, db') BY <1>1 DEF TableKept, Allowed, JobTable
<1> QED BY <1>1, <1>2 DEF Advances

(* A decision that may finalize the items of a job. *)
LEMMA DecisionSettles ==
    ASSUME Sound(db), NEW i \in ReviewIds, db.reviews[i].status # "none", NEW s \in ReviewStatuses
    PROVE  LET j == db.reviews[i].job
               n == SetReview(i, s, db)
           IN  /\ RunOf(j) \in Runs
               /\ Settles(RunOf(j), db, n)
               /\ Settles(RunOf(j), db, FinalizeAggregate(j, n))
<1> DEFINE j == db.reviews[i].job
           n == SetReview(i, s, db)
<1>1. j \in Jobs /\ SoundBut({j}, n) BY SetReviewSound
<1>2. n.runs = db.runs /\ n.jobs = db.jobs BY DEF Sound, SoundBut, Database, SetReview
<1>3. RunOf(j) \in Runs BY <1>1, JobShape
<1> HIDE DEF j, n
<1>4. Settles(RunOf(j), n, FinalizeAggregate(j, n)) BY <1>1, FinalizeSettles
<1>5. Settles(RunOf(j), db, FinalizeAggregate(j, n))
  BY <1>2, <1>3, <1>4 DEF Settles, TableKept, Allowed, Kept, Ends, PhaseIn
<1>6. Settles(RunOf(j), db, n) BY <1>2 DEF Settles, TableKept, Allowed, Kept, PhaseIn
<1> QED BY <1>3, <1>5, <1>6 DEF j, n

(* Closing a review for a retry settles its run. *)
LEMMA CloseSettles ==
    ASSUME NEW d, Sound(d), NEW j \in Jobs
    PROVE  Settles(RunOf(j), d, CloseForRetry(j, d))
<1> DEFINE f == [i \in ReviewIds |->
                    IF i \in ReviewsOf(d, j) /\ d.reviews[i].status = "pending"
                    THEN [d.reviews[i] EXCEPT !.status = "rejected"] ELSE d.reviews[i]]
           n == [d EXCEPT !.reviews = f]
<1>1. d.reviews \in [ReviewIds -> ReviewRow] BY DEF Sound, SoundBut, Database
<1>2. f \in [ReviewIds -> ReviewRow]
  BY <1>1 DEF ReviewRow, NoReviewRow, ReviewStatuses, ClosedReviewStatuses
<1>3. \A i \in ReviewIds : d.reviews[i].job # j \/ d.reviews[i].status = "none" => f[i] = d.reviews[i]
  BY DEF ReviewsOf
<1>4. CloseForRetry(j, d) = FinalizeAggregate(j, n) BY DEF CloseForRetry
<1> HIDE DEF f
<1>5. SoundBut({j}, n) /\ n.runs = d.runs /\ n.jobs = d.jobs BY <1>2, <1>3, ReviewsStep
<1> HIDE DEF n
<1>6. Settles(RunOf(j), n, FinalizeAggregate(j, n)) BY <1>5, FinalizeSettles
<1>7. RunOf(j) \in Runs BY JobShape
<1> QED BY <1>4, <1>5, <1>6, <1>7 DEF Settles, TableKept, Allowed, Kept, Ends, PhaseIn

(* The retry of a review replaces its run, or starts one beside a run that
   ended before. *)
LEMMA RetryAdvances ==
    ASSUME Sound(db), NEW i \in ReviewIds, NEW r \in Runs, RetryReview(i, r)
    PROVE  Advances(db, db')
<1> DEFINE j == db.reviews[i].job
           m == CloseForRetry(j, db)
           q == RunOf(j)
<1>1. /\ db.reviews[i].status = "pending"
      /\ RunDoc[r] = JobDoc(j) /\ m.runs[r] = "none" /\ NoActiveRun(m, RunDoc[r])
      /\ db' = InsertRun(r, {"metadata"}, m)
  BY DEF RetryReview
<1>2. j \in Jobs
  <2>1. "pending" \in ReviewStatuses BY DEF ReviewStatuses, OpenReviewStatuses
  <2> QED BY <1>1, <2>1, SetReviewSound
<1>3. q \in Runs /\ JobDoc(j) = RunDoc[q] /\ db \in Database BY <1>2, JobShape DEF Sound, SoundBut
<1>4. Sound(m) /\ Settles(q, db, m) BY <1>2, CloseForRetrySound, CloseSettles
<1> HIDE DEF j, m, q
<1>5. /\ \A k \in Jobs : \/ db'.jobs[k].status = m.jobs[k].status
                         \/ m.jobs[k].status = "none" /\ db'.jobs[k].status = "queued"
      /\ Starts(r, m, db')
  <2>1. {"metadata"} \in SUBSET Stages BY DEF Stages
  <2> QED BY <1>1, <1>4, <2>1, InsertRunStarts
<1>6. TableKept(db, db')
  <2> SUFFICES ASSUME NEW k \in Jobs PROVE Allowed(k, db, db') BY DEF TableKept
  <2>1. Allowed(k, db, m) BY <1>4 DEF Settles, TableKept
  <2>2. CASE db'.jobs[k].status = m.jobs[k].status BY <2>1, <2>2 DEF Allowed
  <2>3. CASE m.jobs[k].status = "none" /\ db'.jobs[k].status = "queued"
    <3>1. db.jobs[k].status = "none" BY <2>1, <2>3 DEF Allowed, JobTable, ActiveJobStatuses
    <3> QED BY <2>3, <3>1 DEF Allowed, JobTable
  <2> QED BY <1>5, <2>2, <2>3
<1>7. CASE Kept({}, db, m)
  <2>1. NoActiveRun(db, RunDoc[r])
    <3>1. m \in Database BY <1>4 DEF Sound, SoundBut
    <3>2. \A p \in Runs : db.runs[p] \in ActiveRunStatuses <=> m.runs[p] \in ActiveRunStatuses
      BY <1>3, <1>7, <3>1, ActivePhase DEF Kept
    <3> QED BY <1>1, <3>2 DEF NoActiveRun
  <2>2. Starts(r, db, db') BY <1>5, <1>7, <2>1 DEF Starts, Kept
  <2> QED BY <1>6, <2>2 DEF Advances
<1>8. CASE Ends(q, db, m)
  <2>1. r # q BY <1>5, <1>8 DEF Starts, Ends, Outcomes
  <2>2. Replaces(q, r, db, db')
    BY <1>1, <1>3, <1>5, <1>8, <2>1 DEF Starts, Ends, Replaces, Kept
  <2> QED BY <1>3, <1>6, <2>2 DEF Advances
<1> QED BY <1>4, <1>7, <1>8 DEF Settles

(* The steps of a review item. *)
LEMMA ReviewAdvances ==
    ASSUME Sound(db), NEW i \in ReviewIds, ReviewStep(i)
    PROVE  Advances(db, db')
<1>1. {"pending", "approved", "applying", "applied", "rejected"} \subseteq ReviewStatuses
  BY DEF ReviewStatuses, OpenReviewStatuses, ClosedReviewStatuses
<1>2. CASE Approve(i)
  BY <1>1, <1>2, DecisionSettles, SettlesAdvances DEF Approve
<1>3. CASE ClaimReview(i)
  BY <1>1, <1>3, DecisionSettles, SettlesAdvances DEF ClaimReview
<1>4. CASE RevertReview(i)
  BY <1>1, <1>4, DecisionSettles, SettlesAdvances DEF RevertReview
<1>5. CASE Reject(i)
  BY <1>1, <1>5, DecisionSettles, SettlesAdvances DEF Reject
<1>6. CASE SettleApplied(i)
  BY <1>1, <1>6, DecisionSettles, SettlesAdvances DEF SettleApplied
<1>7. ASSUME NEW r \in Runs, RetryReview(i, r) PROVE Advances(db, db')
  BY <1>7, RetryAdvances
<1> QED BY <1>2, <1>3, <1>4, <1>5, <1>6, <1>7 DEF ReviewStep

(* A step that requeues running jobs and runs keeps the phases. *)
LEMMA RequeueAdvances ==
    ASSUME NEW d, NEW n, Requeues(d, n)
    PROVE  Advances(d, n)
<1>1. TableKept(d, n) BY DEF Requeues, TableKept, Allowed, JobTable
<1>2. ASSUME NEW r \in Runs PROVE PhaseIn(n, r) = PhaseIn(d, r)
  BY SamePhase DEF Requeues, ActiveRunStatuses
<1> QED BY <1>1, <1>2 DEF Advances, Kept

(* A run that is reopened was the only candidate of its document. *)
LEMMA ReopenAdvances ==
    ASSUME NEW d, Sound(d), NEW q \in Runs, NEW n, Reopens(q, d, n),
           d.runs[q] \in ActiveRunStatuses
              \/ (d.runs[q] \in {"succeeded", "failed"} /\ NoActiveRun(d, RunDoc[q]))
    PROVE  Advances(d, n)
<1>1. TableKept(d, n) BY DEF Reopens, TableKept, Allowed, JobTable
<1>2. Kept({q}, d, n) BY SamePhase DEF Reopens, Kept
<1>3. CASE d.runs[q] \in ActiveRunStatuses
  <2>1. n.runs[q] = d.runs[q] BY <1>3 DEF Reopens, ActiveRunStatuses
  <2>2. Kept({}, d, n) BY <1>2, <2>1, SamePhase DEF Kept
  <2> QED BY <1>1, <2>2 DEF Advances
<1>4. CASE d.runs[q] \in {"succeeded", "failed"} /\ NoActiveRun(d, RunDoc[q])
  <2>1. n.runs[q] = "queued" BY <1>4 DEF Reopens
  <2>2. Revives(q, d, n) BY <1>2, <1>4, <2>1 DEF Revives, PhaseIn, ActiveRunStatuses
  <2> QED BY <1>1, <2>2 DEF Advances
<1> QED BY <1>3, <1>4

(* Operator recovery and startup repairs. *)
LEMMA RecoveryAdvances ==
    ASSUME Sound(db), Recovery
    PROVE  Advances(db, db')
<1>1. ASSUME NEW X \in SUBSET Jobs, RecoverStaleLeases(X) PROVE Advances(db, db')
  BY <1>1, RecoverRequeues, RequeueAdvances DEF RecoverStaleLeases
<1>2. ASSUME NEW r \in Runs, RequeueVisionCrash(r) PROVE Advances(db, db')
  <2>1. Reopens(r, db, db') BY <1>2, LiftReopens DEF RequeueVisionCrash, VisionCrashed
  <2> QED BY <1>2, <2>1, ReopenAdvances DEF RequeueVisionCrash, VisionCrashed
<1>3. ASSUME NEW r \in Runs, BackfillMetadata(r) PROVE Advances(db, db')
  <2>1. Reopens(r, db, db') BY <1>3, BackfillReopens DEF BackfillMetadata, OcrOnly
  <2> QED BY <1>3, <2>1, ReopenAdvances DEF BackfillMetadata, OcrOnly
<1>4. CASE ResetStuckRuns
  BY <1>4, ResetRequeues, RequeueAdvances DEF ResetStuckRuns
<1> QED BY <1>1, <1>2, <1>3, <1>4 DEF Recovery

(* Every step of the queue advances the lifecycle and keeps to the table. *)
LEMMA StepAdvances ==
    ASSUME IInv, [Next]_vars
    PROVE  Advances(db, db')
<1>0. Sound(db) BY DEF IInv
<1>1. ASSUME NEW r \in Runs, NEW S \in (SUBSET Stages) \ {{}}, CreateRun(r, S)
      PROVE  Advances(db, db')
  BY <1>0, <1>1, CreateAdvances
<1>2. ASSUME NEW w \in Workers, Claim(w) PROVE Advances(db, db') BY <1>0, <1>2, ClaimAdvances
<1>3. ASSUME NEW w \in Workers, Crash(w) PROVE Advances(db, db')
  BY <1>3, SameAdvances DEF Crash
<1>4. ASSUME NEW t \in TaskIds, Heartbeat(t) \/ TaskEnds(t) PROVE Advances(db, db')
  BY <1>0, <1>4, TaskAdvances
<1>5. ASSUME NEW j \in Jobs, LeaseExpires(j) \/ BackoffElapses(j) PROVE Advances(db, db')
  BY <1>0, <1>5, TimeAdvances
<1>6. ASSUME NEW i \in ReviewIds, ReviewStep(i) PROVE Advances(db, db')
  BY <1>0, <1>6, ReviewAdvances
<1>7. CASE Recovery BY <1>0, <1>7, RecoveryAdvances
<1>8. CASE UNCHANGED vars BY <1>8, SameAdvances DEF vars
<1> QED BY <1>1, <1>2, <1>3, <1>4, <1>5, <1>6, <1>7, <1>8 DEF Next

-----------------------------------------------------------------------------
(* The theorems. *)

(* Whatever transaction changes the status of a job (complete_job and fail_job
   test only its owner), it does so as the table JobTransition documents; in
   particular a succeeded job is never touched again. *)
THEOREM TableAlwaysRespected == Spec => JobTableRespected
<1>1. IInv /\ [Next]_vars =>
          [\A j \in Jobs : db.jobs[j].status # db'.jobs[j].status
              => <<db.jobs[j].status, db'.jobs[j].status>> \in JobTable]_vars
  BY StepAdvances DEF Advances, TableKept, Allowed
<1> QED BY <1>1, AlwaysSound, PTL DEF Spec, JobTableRespected

(* The queue implements RunLifecycle: every transaction starts, ends, reopens
   or replaces one run of an otherwise idle document, or leaves all runs in
   their phase. *)
THEOREM QueueImplementsLifecycle == Spec => ImplementsLifecycle
<1>1. Init => Lifecycle!Init
  BY DEF Init, Lifecycle!Init, Phase, ActiveRunStatuses
<1>2. IInv /\ [Next]_vars => [Lifecycle!Next]_([r \in Runs |-> Phase(r)])
  <2> SUFFICES ASSUME IInv, [Next]_vars
               PROVE  [Lifecycle!Next]_([r \in Runs |-> Phase(r)])
    OBVIOUS
  <2>1. db \in Database BY DEF IInv, Sound, SoundBut
  <2> QED BY <2>1, StepAdvances, AdvanceIsStep
<1> QED BY <1>1, <1>2, AlwaysSound, PTL DEF Spec, ImplementsLifecycle, Lifecycle!Spec
=============================================================================
