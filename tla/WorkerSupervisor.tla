-------------------------- MODULE WorkerSupervisor --------------------------
(***************************************************************************)
(* One worker process of archivist-worker: the claim cycle, the registry   *)
(* of jobs in flight (JobSupervisor), a watchdog per job task, the         *)
(* liveness heartbeat and the shutdown drain.                              *)
(*                                                                         *)
(* Three places say that a job is being worked on: its row (the lease),    *)
(* the registry entry that occupies a slot, and the task itself.  The row  *)
(* is reduced to what the process can read of it; JobQueue has the whole.  *)
(*                                                                         *)
(* Time is discrete.  Lease, Grace, Interval and StallLimit keep the order *)
(* of the source's 30 s interval, 60 s grace and lease of minutes.  The    *)
(* watchdogs are punctual: no tick passes while one of them has something  *)
(* to do.  A failed probe is the way in which one is late.                 *)
(***************************************************************************)
EXTENDS Integers, FiniteSets

CONSTANTS
    Jobs,
    Generations,   \* tasks of one job that may exist at a time
    Cap,           \* ARCHIVIST_WORKER_CONCURRENCY
    MaxAttempts,
    Lease, Grace, Interval, StallLimit,
    MaxErrors,     \* bound: failed watchdog probes
    MaxRestarts    \* bound: restarts of the process

ASSUME TimeAssumption  == {Lease, Grace, Interval, StallLimit} \subseteq Nat \ {0}
ASSUME BoundAssumption ==
    /\ {Cap, MaxAttempts} \subseteq Nat \ {0} /\ {MaxErrors, MaxRestarts} \subseteq Nat
    /\ IsFiniteSet(Jobs)

VARIABLES
    row,        \* the job rows: who holds them, time left of the lease, attempts
    entries,    \* supervisor.jobs: time left until the progress deadline
    tasks,      \* job tasks and their watchdogs
    claim,      \* the claim cycle: its place, free slots, jobs claimed, time left
    phase,      \* the process: up, draining, drained or gone
    errors, restarts,
    shared      \* history: jobs claimed again while their task here lived

vars == <<row, entries, tasks, claim, phase, errors, restarts, shared>>

TaskIds == Jobs \X Generations
JobOf(t) == t[1]

(* Mutant: no allowance for the lease window. *)
DeadlineWithoutLease == Grace + 2 * Interval

(* job_progress_deadline. *)
ProgressDeadline == Lease + Grace + 2 * Interval

NoTask  == [pc |-> "free", cut |-> FALSE, dog |-> "off", sleep |-> 0]
NoClaim == [at |-> "idle", free |-> 0, batch |-> {}, left |-> StallLimit]

TypeOK ==
    /\ row \in [Jobs -> [at: {"queued", "mine", "review", "away", "done"},
                         lease: -(Grace + 1)..Lease, attempts: 0..MaxAttempts]]
    /\ DOMAIN entries \subseteq Jobs
    /\ \A j \in DOMAIN entries : entries[j] \in -1..ProgressDeadline
    /\ tasks \in [TaskIds ->
          [pc: {"free", "running", "hung", "blocked", "written", "ended"}, cut: BOOLEAN,
           dog: {"off", "asleep", "probing", "alive", "lapsed", "lost", "failing"},
           sleep: 0..Interval]]
    /\ claim \in [at: {"idle", "claiming", "claimed", "spawning"}, free: 0..Cap,
                  batch: SUBSET Jobs, left: -1..StallLimit]
    /\ phase \in {"up", "draining", "drained", "gone"} /\ shared \subseteq Jobs
    /\ errors \in 0..MaxErrors /\ restarts \in 0..MaxRestarts

Alive    == phase \in {"up", "draining"}
Works(t) == tasks[t].pc \in {"running", "hung", "blocked"}
Live(t)  == Works(t) \/ tasks[t].pc = "written"
LiveJobs == {JobOf(t) : t \in {u \in TaskIds : Live(u)}}

-----------------------------------------------------------------------------
(* JobSupervisor. *)

InFlight == Cardinality(DOMAIN entries)
Touched(j) ==
    [k \in DOMAIN entries \cup {j} |-> IF k = j THEN ProgressDeadline ELSE entries[k]]
Finished(j) == [k \in DOMAIN entries \ {j} |-> entries[k]]

(* Mutants: one half of the test is dropped. *)
ClaimFresh  == claim.left >= 0
AllProgress == \A j \in DOMAIN entries : entries[j] >= 0

(* is_healthy. *)
Healthy == claim.left >= 0 /\ \A j \in DOMAIN entries : entries[j] >= 0

-----------------------------------------------------------------------------
(* The row, as far as this process sees it: the fence is the lease_owner, the
   same for all its tasks. *)

HasRow(j)  == row[j].at \in {"mine", "review"}
Requeue(j) == row[j].attempts < MaxAttempts

(* fail_job. *)
FailedRow(j) ==
    IF ~HasRow(j) THEN row[j]
    ELSE [row[j] EXCEPT !.at = IF Requeue(j) THEN "queued" ELSE "done", !.lease = 0]

Expired(j) == row[j].at = "mine" /\ row[j].lease < 0

(* Another process claims the job, and later ends it or gives it back; a
   person decides what waits for review. *)
Others(j) ==
    /\ \/ /\ (row[j].at = "queued") \/ Expired(j)
          /\ Requeue(j)
          /\ row' = [row EXCEPT ![j] = [at |-> "away", lease |-> 0, attempts |-> @.attempts + 1]]
       \/ /\ row[j].at = "away"
          /\ \/ row' = [row EXCEPT ![j].at = "done"]
             \/ Requeue(j) /\ row' = [row EXCEPT ![j].at = "queued"]
       \/ row[j].at = "review" /\ row' = [row EXCEPT ![j].at = "done", ![j].lease = 0]
    /\ UNCHANGED <<entries, tasks, claim, phase, errors, restarts, shared>>

-----------------------------------------------------------------------------
(* process_available_jobs, spawned by the 5 s tick unless one still runs.  The
   target is reloaded from the settings each time and never above the cap.  *)

CycleDone == claim' = NoClaim

StartCycle ==
    /\ phase = "up" /\ claim.at = "idle"
    /\ \E target \in 1..Cap :
          IF InFlight >= target
          THEN CycleDone
          ELSE claim' = [claim EXCEPT !.at = "claiming", !.free = target - InFlight]
    /\ UNCHANGED <<row, entries, tasks, phase, errors, restarts, shared>>

(* claim_jobs for this process: spent jobs are failed, then up to `free'
   queued or expired jobs are taken, its own expired ones among them.  The
   slots were counted before.  Nothing asks whether a task of the job is still
   at work: `shared' remembers the jobs that got a second one. *)
ClaimRows ==
    LET spent     == {j \in Jobs : Expired(j) /\ ~Requeue(j)}
        claimable == {j \in Jobs \ spent : row[j].at = "queued" \/ Expired(j)}
    IN  /\ Alive /\ claim.at = "claiming"
        /\ \E S \in SUBSET claimable :
              /\ Cardinality(S) <= claim.free
              /\ row' = [j \in Jobs |->
                    CASE j \in S -> [at |-> "mine", lease |-> Lease, attempts |-> row[j].attempts + 1]
                      [] j \in spent -> [row[j] EXCEPT !.at = "done", !.lease = 0]
                      [] OTHER -> row[j]]
              /\ IF S = {} THEN CycleDone
                 ELSE claim' = [claim EXCEPT !.at = "claimed", !.batch = S]
              /\ shared' = (shared \ S) \cup (S \cap LiveJobs)
        /\ UNCHANGED <<entries, tasks, phase, errors, restarts>>

(* No Paperless client: the whole batch is failed. *)
ClientFails ==
    /\ Alive /\ claim.at = "claimed"
    /\ row' = [j \in Jobs |-> IF j \in claim.batch THEN FailedRow(j) ELSE row[j]]
    /\ CycleDone
    /\ UNCHANGED <<entries, tasks, phase, errors, restarts, shared>>

NewTask(j) ==
    /\ Alive /\ claim.at \in {"claimed", "spawning"} /\ j \in claim.batch
    /\ \E g \in Generations :
          /\ tasks[<<j, g>>].pc = "free"
          /\ tasks' = [tasks EXCEPT ![<<j, g>>] =
                [pc |-> "running", cut |-> FALSE, dog |-> "asleep", sleep |-> Interval]]
    /\ IF claim.batch = {j} THEN CycleDone
       ELSE claim' = [claim EXCEPT !.at = "spawning", !.batch = @ \ {j}]
    /\ UNCHANGED <<row, phase, errors, restarts, shared>>

(* The slot is registered before the task and its watchdog are spawned. *)
Spawn(j) == NewTask(j) /\ entries' = Touched(j)

-----------------------------------------------------------------------------
(* The job task. *)

SetTask(t, pc) == tasks' = [tasks EXCEPT ![t].pc = pc]

(* A heartbeat; a task that lost its lease stops. *)
Renew(t) ==
    /\ Alive /\ tasks[t].pc = "running"
    /\ IF row[JobOf(t)].at = "mine"
       THEN row' = [row EXCEPT ![JobOf(t)].lease = Lease] /\ UNCHANGED tasks
       ELSE SetTask(t, "written") /\ UNCHANGED row
    /\ UNCHANGED <<entries, claim, phase, errors, restarts, shared>>

(* It waits for something that never comes: at an await, where abort() reaches
   it, or in blocking code, where nothing does. *)
Hang(t) ==
    /\ Alive /\ tasks[t].pc = "running"
    /\ \E pc \in {"hung", "blocked"} : SetTask(t, pc)
    /\ UNCHANGED <<row, entries, claim, phase, errors, restarts, shared>>

(* Its last write to the row: completed, failed, or waiting for a review. *)
Write(t) ==
    LET j == JobOf(t)
    IN  /\ Alive /\ tasks[t].pc = "running"
        /\ row' \in {[row EXCEPT ![j] = FailedRow(j)]} \cup
                    {[row EXCEPT ![j].at = IF HasRow(j) THEN outcome ELSE @] :
                        outcome \in {"done", "review"}}
        /\ SetTask(t, "written")
        /\ UNCHANGED <<entries, claim, phase, errors, restarts, shared>>

(* The task ends, on its own or because it was aborted: InFlightGuard frees the
   slot of its job and is_finished turns true. *)
End(t) ==
    /\ Alive
    /\ \/ tasks[t].pc = "written"
       \/ tasks[t].cut /\ tasks[t].pc \in {"running", "hung"}
    /\ entries' = Finished(JobOf(t))
    /\ tasks' = [tasks EXCEPT ![t] = IF @.dog = "off" THEN NoTask ELSE [@ EXCEPT !.pc = "ended"]]
    /\ UNCHANGED <<row, claim, phase, errors, restarts, shared>>

-----------------------------------------------------------------------------
(* watch_job_lease and spawn_job_watchdog. *)

SetDog(t, dog)  == tasks' = [tasks EXCEPT ![t].dog = dog]
SleepAgain(t)   == tasks' = [tasks EXCEPT ![t].dog = "asleep", ![t].sleep = Interval]
DogLeaves(t)    == tasks' = [tasks EXCEPT ![t] =
                       IF @.pc = "ended" THEN NoTask ELSE [@ EXCEPT !.dog = "off"]]

Wake(t) ==
    /\ Alive /\ tasks[t].dog = "asleep" /\ tasks[t].sleep = 0
    /\ IF tasks[t].pc = "ended" THEN DogLeaves(t) ELSE SetDog(t, "probing")
    /\ UNCHANGED <<row, entries, claim, phase, errors, restarts, shared>>

(* Mutant: any lease that is still there counts as progress. *)
AnyLease(j) == IF HasRow(j) THEN "alive" ELSE "lost"

(* job_lease_until, compared with now. *)
LeaseSeen(j) ==
    IF ~HasRow(j) THEN "lost" ELSE IF row[j].lease < -Grace THEN "lapsed" ELSE "alive"

Probe(t) ==
    /\ Alive /\ tasks[t].dog = "probing"
    /\ SetDog(t, LeaseSeen(JobOf(t)))
    /\ UNCHANGED <<row, entries, claim, phase, errors, restarts, shared>>

ProbeFails(t) ==
    /\ Alive /\ tasks[t].dog = "probing"
    /\ errors < MaxErrors
    /\ errors' = errors + 1
    /\ SleepAgain(t)
    /\ UNCHANGED <<row, entries, claim, phase, restarts, shared>>

(* on_progress: is_finished is not asked again. *)
SeesProgress(t) ==
    /\ Alive /\ tasks[t].dog = "alive"
    /\ entries' = Touched(JobOf(t))
    /\ SleepAgain(t)
    /\ UNCHANGED <<row, claim, phase, errors, restarts, shared>>

SeesLapse(t) ==
    /\ Alive /\ tasks[t].dog = "lapsed"
    /\ IF tasks[t].pc = "ended" THEN DogLeaves(t)
       ELSE tasks' = [tasks EXCEPT ![t].cut = TRUE, ![t].dog = "failing"]
    /\ UNCHANGED <<row, entries, claim, phase, errors, restarts, shared>>

RecordsAbort(t) ==
    /\ Alive /\ tasks[t].dog = "failing"
    /\ row' = [row EXCEPT ![JobOf(t)] = FailedRow(JobOf(t))]
    /\ DogLeaves(t)
    /\ UNCHANGED <<entries, claim, phase, errors, restarts, shared>>

(* Mutant: the slot is given up with the lease. *)
GivesUpSlot(t) ==
    /\ Alive /\ tasks[t].dog = "lost"
    /\ DogLeaves(t)
    /\ entries' = Finished(JobOf(t))
    /\ UNCHANGED <<row, claim, phase, errors, restarts, shared>>

(* A lost lease needs no action. *)
SeesLoss(t) ==
    /\ Alive /\ tasks[t].dog = "lost"
    /\ DogLeaves(t)
    /\ UNCHANGED <<row, entries, claim, phase, errors, restarts, shared>>

Watchdog(t) ==
    \/ Wake(t) \/ Probe(t) \/ ProbeFails(t) \/ SeesProgress(t) \/ SeesLapse(t)
    \/ RecordsAbort(t) \/ SeesLoss(t)

-----------------------------------------------------------------------------
(* Time, and the life of the process. *)

Down(n, floor) == IF n > floor THEN n - 1 ELSE n

Tick ==
    /\ \A t \in TaskIds : tasks[t].dog # "off" => tasks[t].dog = "asleep" /\ tasks[t].sleep > 0
    /\ Alive
    /\ row' = [j \in Jobs |-> IF HasRow(j) THEN [row[j] EXCEPT !.lease = Down(@, -(Grace + 1))]
                              ELSE row[j]]
    /\ entries' = [j \in DOMAIN entries |-> Down(entries[j], -1)]
    /\ tasks' = [t \in TaskIds |-> [tasks[t] EXCEPT !.sleep = Down(@, 0)]]
    /\ claim' = [claim EXCEPT !.left = Down(@, -1)]
    /\ UNCHANGED <<phase, errors, restarts, shared>>

Gone ==
    /\ entries' = [j \in {} |-> 0]
    /\ tasks' = [t \in TaskIds |-> NoTask]
    /\ claim' = NoClaim
    /\ phase' = "gone"

(* The heartbeat file is no longer written, and the liveness probe of the
   deployment ends the process. *)
Kill ==
    /\ phase = "up" /\ ~Healthy
    /\ Gone
    /\ UNCHANGED <<row, errors, restarts, shared>>

Shutdown ==
    /\ phase = "up"
    /\ phase' = "draining"
    /\ UNCHANGED <<row, entries, tasks, claim, errors, restarts, shared>>

(* Mutant: a claim cycle that still runs is forgotten. *)
NothingInFlight == entries = [j \in {} |-> 0]

DrainedCleanly == claim.at = "idle" /\ DOMAIN entries = {}

(* Cleanly, or at the drain deadline with work still in flight. *)
Exit ==
    /\ phase = "draining"
    /\ IF DrainedCleanly
       THEN phase' = "drained" /\ UNCHANGED <<entries, tasks, claim>>
       ELSE Gone
    /\ UNCHANGED <<row, errors, restarts, shared>>

(* The new process has an identity of its own: what the old one held is held
   by somebody else. *)
Restart ==
    /\ phase \in {"drained", "gone"}
    /\ restarts < MaxRestarts /\ restarts' = restarts + 1
    /\ row' = [j \in Jobs |->
          CASE row[j].at = "mine"   -> [row[j] EXCEPT !.at = "away", !.lease = 0]
            [] row[j].at = "review" -> [row[j] EXCEPT !.at = "done", !.lease = 0]
            [] OTHER -> row[j]]
    /\ entries' = [j \in {} |-> 0]
    /\ tasks' = [t \in TaskIds |-> NoTask]
    /\ claim' = NoClaim
    /\ phase' = "up"
    /\ shared' = {}
    /\ UNCHANGED errors

-----------------------------------------------------------------------------
Init ==
    /\ row = [j \in Jobs |-> [at |-> "queued", lease |-> 0, attempts |-> 0]]
    /\ entries = [j \in {} |-> 0]
    /\ tasks = [t \in TaskIds |-> NoTask]
    /\ claim = NoClaim
    /\ phase = "up"
    /\ errors = 0 /\ restarts = 0 /\ shared = {}

ClaimCycle == StartCycle \/ ClaimRows \/ ClientFails \/ \E j \in Jobs : Spawn(j)
JobTask(t) == Renew(t) \/ Hang(t) \/ Write(t) \/ End(t)

Next ==
    \/ ClaimCycle
    \/ \E j \in Jobs : Others(j)
    \/ \E t \in TaskIds : JobTask(t) \/ Watchdog(t)
    \/ Tick \/ Kill \/ Shutdown \/ Exit \/ Restart

Spec == Init /\ [][Next]_vars

(* Time passes, watchdogs run, a job that does not hang ends, the deployment
   kills what stops its heartbeat and the drain has a deadline.  The claim
   cycle may wedge: nothing is assumed of it. *)
Fairness ==
    /\ WF_vars(Tick) /\ WF_vars(Kill) /\ WF_vars(Exit)
    /\ \A t \in TaskIds : WF_vars(Watchdog(t)) /\ WF_vars(Write(t)) /\ WF_vars(End(t))

FairSpec == Spec /\ Fairness

-----------------------------------------------------------------------------
(* No more job tasks at a time than the hard cap on the concurrency, whatever
   the settings say and however stale the count of free slots is. *)
CapacityRespected == Cardinality({t \in TaskIds : Works(t)}) <= Cap

(* Types; and a task occupies the slot of its job until it ends, its lease lost
   or not, unless this process claimed the job again beside it: then the first
   of the two tasks to end frees the entry of both. *)
LiveTaskRegistered ==
    /\ TypeOK
    /\ \A t \in TaskIds : Live(t) /\ Alive /\ JobOf(t) \notin shared => JobOf(t) \in DOMAIN entries

(* "worker drained cleanly" is said only when no claimed job waits to be
   spawned and no task is left, but for one whose job was claimed again beside it. *)
CleanDrain == phase = "drained" => claim.batch = {} /\ LiveJobs \subseteq shared

(* job_progress_deadline lies strictly after the watchdog's abort: a task
   whose watchdog is still at work never makes the process unhealthy, failed
   probes within the lease window included. *)
NoFalseAlarm ==
    \A j \in DOMAIN entries :
        entries[j] < 0 => \A t \in TaskIds : JobOf(t) = j /\ Live(t) => tasks[t].dog = "off"

(* A slot is not lost for good, be the task hung, blocked or gone: it is freed
   or the process is replaced. *)
SlotsComeBack == \A j \in Jobs : j \in DOMAIN entries ~> j \notin DOMAIN entries

(* A wedged claim cycle ends with the process at the latest. *)
ClaimLoopRecovers == claim.at # "idle" ~> claim.at = "idle" \/ phase # "up"

(* A hung job is aborted, or it fails the liveness probe of the process
   (main.rs: "a job stuck where even the watchdog cannot abort it now fails
   liveness"); one that shares its entry may lose it to the other task. *)
HungTaskCleared ==
    \A t \in TaskIds :
        tasks[t].pc \in {"hung", "blocked"} ~>
            tasks[t].pc \notin {"hung", "blocked"} \/ phase # "up" \/ JobOf(t) \in shared
=============================================================================
