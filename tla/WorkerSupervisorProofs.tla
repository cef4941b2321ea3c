----------------------- MODULE WorkerSupervisorProofs -----------------------
(***************************************************************************)
(* What WorkerSupervisor promises, for any number of jobs, slots and       *)
(* tasks.  The deadline of a slot is long enough for its watchdog.  A live *)
(* task is registered, a clean drain is clean and the cap is kept, each    *)
(* for the jobs this process has not claimed again under their live task:  *)
(* one job's shared entry costs the other jobs nothing.                    *)
(***************************************************************************)
EXTENDS WorkerSupervisor, FiniteSetTheorems, TLAPS

(* The probes that may fail fit between a deadline and the next one. *)
WindowCoversErrors == (MaxErrors + 1) * Interval =< ProgressDeadline

Dogs == {"off", "asleep", "probing", "alive", "lapsed", "lost", "failing"}
Places == {"free", "running", "hung", "blocked", "written", "ended"}
RowRec == [at : {"queued", "mine", "review", "away", "done"},
           lease : -(Grace + 1)..Lease, attempts : 0..MaxAttempts]
TaskRec == [pc : Places, cut : BOOLEAN, dog : Dogs, sleep : 0..Interval]
ClaimRec == [at : {"idle", "claiming", "claimed", "spawning"}, free : 0..Cap,
             batch : SUBSET Jobs, left : -1..StallLimit]

(* A queued job has an attempt left, and a cycle that does not run holds no job. *)
Typed ==
  /\ TypeOK
  /\ \A j \in Jobs : row[j].at = "queued" => row[j].attempts < MaxAttempts
  /\ claim.at = "idle" => claim.batch = {}

(* What failed probes may still cost. *)
Slack(e) == (MaxErrors - e) * Interval
Needs(k) == IF k.dog = "asleep" THEN k.sleep ELSE 0

(* The deadline of a slot lies after the probe that its watchdog is sure to make. *)
Punctual ==
  \A t \in TaskIds : tasks[t].dog # "off" /\ JobOf(t) \in DOMAIN entries =>
    entries[JobOf(t)] >= Slack(errors) + Needs(tasks[t])

(* A task of a job that was not claimed again beside it; it holds the slot of
   its job alone. *)
Alone(t) == Live(t) /\ JobOf(t) \notin shared

Paired ==
  /\ \A t \in TaskIds : Alone(t) => JobOf(t) \in DOMAIN entries /\ JobOf(t) \notin claim.batch
  /\ \A t, u \in TaskIds : Alone(t) /\ Alone(u) /\ JobOf(t) = JobOf(u) => t = u
  /\ phase = "drained" => claim.at = "idle" /\ \A t \in TaskIds : ~Alone(t)

(* Those at work and those a claim cycle may still start fit the cap. *)
Working == {t \in TaskIds : Works(t) /\ JobOf(t) \notin shared}
Pending == IF claim.at = "claiming" THEN claim.free ELSE Cardinality(claim.batch)
Room == IsFiniteSet(Working) /\ Cardinality(Working) + Pending =< Cap

IInv == Typed /\ (WindowCoversErrors => Punctual) /\ Paired /\ Room

-----------------------------------------------------------------------------
(* Types. *)

LEMMA Bounds ==
  /\ Lease \in Nat \ {0} /\ Grace \in Nat \ {0} /\ Interval \in Nat \ {0} /\ StallLimit \in Nat \ {0}
  /\ Cap \in Nat \ {0} /\ MaxAttempts \in Nat \ {0} /\ MaxErrors \in Nat /\ MaxRestarts \in Nat
  /\ ProgressDeadline \in Nat \ {0} /\ IsFiniteSet(Jobs)
  /\ 0 \in -(Grace + 1)..Lease /\ Lease \in -(Grace + 1)..Lease
  BY TimeAssumption, BoundAssumption DEF ProgressDeadline

LEMMA TypeFacts ==
  ASSUME Typed
  PROVE  /\ row \in [Jobs -> RowRec] /\ tasks \in [TaskIds -> TaskRec] /\ claim \in ClaimRec
         /\ DOMAIN entries \subseteq Jobs /\ \A j \in DOMAIN entries : entries[j] \in -1..ProgressDeadline
         /\ phase \in {"up", "draining", "drained", "gone"} /\ errors \in 0..MaxErrors
         /\ restarts \in 0..MaxRestarts /\ shared \subseteq Jobs
  BY DEF Typed, TypeOK, RowRec, TaskRec, ClaimRec, Dogs, Places

LEMMA TypedFrom ==
  ASSUME row' \in [Jobs -> RowRec], tasks' \in [TaskIds -> TaskRec], claim' \in ClaimRec,
         DOMAIN entries' \subseteq Jobs, \A j \in DOMAIN entries' : entries'[j] \in -1..ProgressDeadline,
         phase' \in {"up", "draining", "drained", "gone"}, errors' \in 0..MaxErrors,
         restarts' \in 0..MaxRestarts, shared' \subseteq Jobs,
         \A j \in Jobs : row'[j].at = "queued" => row'[j].attempts < MaxAttempts,
         claim'.at = "idle" => claim'.batch = {}
  PROVE  Typed'
  BY DEF Typed, TypeOK, RowRec, TaskRec, ClaimRec, Dogs, Places

LEMMA NothingTyped == NoTask \in TaskRec /\ NoClaim \in ClaimRec /\ NoClaim.at = "idle" /\ NoClaim.batch = {}
  BY Bounds DEF NoTask, NoClaim, TaskRec, ClaimRec, Places, Dogs

LEMMA JobOfTask ==
  ASSUME NEW t \in TaskIds
  PROVE  JobOf(t) \in Jobs
  BY DEF TaskIds, JobOf

LEMMA InFlightNat ==
  ASSUME Typed
  PROVE  /\ InFlight \in Nat /\ IsFiniteSet(DOMAIN entries)
         /\ InFlight < 1 => DOMAIN entries = {}
  <1>1. IsFiniteSet(DOMAIN entries)
    BY Bounds, TypeFacts, FS_Subset
  <1> QED BY <1>1, FS_CardinalityType, FS_EmptySet DEF InFlight

LEMMA FailedRowTyped ==
  ASSUME Typed, NEW j \in Jobs
  PROVE  /\ FailedRow(j) \in RowRec
         /\ FailedRow(j).at = "queued" => FailedRow(j).attempts < MaxAttempts
  <1>1. row[j] \in RowRec /\ (row[j].at = "queued" => row[j].attempts < MaxAttempts)
    BY TypeFacts DEF Typed
  <1>2. CASE ~HasRow(j)
    BY <1>1, <1>2 DEF FailedRow
  <1>0. 0 \in -(Grace + 1)..Lease
    BY Bounds
  <1>3. CASE HasRow(j) /\ Requeue(j)
    <2>1. FailedRow(j) = [row[j] EXCEPT !.at = "queued", !.lease = 0]
      BY <1>3 DEF FailedRow
    <2>2. FailedRow(j) \in RowRec /\ FailedRow(j).attempts = row[j].attempts
      BY <1>0, <1>1, <2>1 DEF RowRec
    <2> QED BY <1>3, <2>2 DEF Requeue
  <1>4. CASE HasRow(j) /\ ~Requeue(j)
    <2>1. FailedRow(j) = [row[j] EXCEPT !.at = "done", !.lease = 0]
      BY <1>4 DEF FailedRow
    <2>2. FailedRow(j) \in RowRec /\ FailedRow(j).at = "done"
      BY <1>0, <1>1, <2>1 DEF RowRec
    <2> QED BY <2>2
  <1> QED BY <1>2, <1>3, <1>4

LEMMA TouchedEntries ==
  ASSUME Typed, NEW j \in Jobs
  PROVE  /\ DOMAIN Touched(j) = DOMAIN entries \cup {j} /\ Touched(j)[j] = ProgressDeadline
         /\ \A k \in DOMAIN entries : k # j => Touched(j)[k] = entries[k]
         /\ DOMAIN Touched(j) \subseteq Jobs
         /\ \A k \in DOMAIN Touched(j) : Touched(j)[k] \in -1..ProgressDeadline
  BY TypeFacts, Bounds DEF Touched

LEMMA FinishedEntries ==
  ASSUME Typed, NEW j \in Jobs
  PROVE  /\ DOMAIN Finished(j) = DOMAIN entries \ {j}
         /\ \A k \in DOMAIN Finished(j) : Finished(j)[k] = entries[k]
  BY TypeFacts DEF Finished

LEMMA OthersTyped ==
  ASSUME Typed, NEW j \in Jobs, Others(j)
  PROVE  Typed'
  <1>1. row[j] \in RowRec /\ row \in [Jobs -> RowRec]
    BY TypeFacts
  <1>2. \E r \in RowRec : (r.at = "queued" => r.attempts < MaxAttempts) /\ row' = [row EXCEPT ![j] = r]
    <2>1. CASE Requeue(j) /\ row' = [row EXCEPT ![j] = [at |-> "away", lease |-> 0, attempts |-> @.attempts + 1]]
      <3> DEFINE r == [at |-> "away", lease |-> 0, attempts |-> row[j].attempts + 1]
      <3>1. r \in RowRec /\ r.at = "away"
        BY <1>1, <2>1, Bounds DEF RowRec, Requeue
      <3>2. row' = [row EXCEPT ![j] = r]
        BY <2>1
      <3> QED BY <3>1, <3>2
    <2>2. CASE row' = [row EXCEPT ![j].at = "done"]
      <3>1. row' = [row EXCEPT ![j] = [row[j] EXCEPT !.at = "done"]]
        BY <2>2
      <3>2. [row[j] EXCEPT !.at = "done"] \in RowRec /\ [row[j] EXCEPT !.at = "done"].at = "done"
        BY <1>1 DEF RowRec
      <3> QED BY <3>1, <3>2
    <2>3. CASE Requeue(j) /\ row' = [row EXCEPT ![j].at = "queued"]
      <3>1. row' = [row EXCEPT ![j] = [row[j] EXCEPT !.at = "queued"]]
        BY <2>3
      <3>2. [row[j] EXCEPT !.at = "queued"] \in RowRec /\ [row[j] EXCEPT !.at = "queued"].attempts < MaxAttempts
        BY <1>1, <2>3 DEF RowRec, Requeue
      <3> QED BY <3>1, <3>2
    <2>4. CASE row' = [row EXCEPT ![j].at = "done", ![j].lease = 0]
      <3> DEFINE r == [row[j] EXCEPT !.at = "done", !.lease = 0]
      <3>1. row' = [row EXCEPT ![j] = r]
        BY <1>1, <2>4
      <3>2. r \in RowRec /\ r.at = "done"
        BY <1>1, Bounds DEF RowRec
      <3> QED BY <3>1, <3>2
    <2> QED BY <2>1, <2>2, <2>3, <2>4 DEF Others
  <1>3. row' \in [Jobs -> RowRec] /\ \A k \in Jobs : row'[k].at = "queued" => row'[k].attempts < MaxAttempts
    BY <1>1, <1>2 DEF Typed
  <1>4. UNCHANGED <<entries, tasks, claim, phase, errors, restarts, shared>>
    BY DEF Others
  <1> QED BY <1>3, <1>4, TypeFacts, TypedFrom DEF Typed

LEMMA CycleTyped ==
  ASSUME Typed, StartCycle
  PROVE  Typed'
  <1>1. UNCHANGED <<row, entries, tasks, phase, errors, restarts, shared>>
    BY DEF StartCycle
  <1>2. claim' \in ClaimRec /\ (claim'.at = "idle" => claim'.batch = {})
    <2>1. PICK target \in 1..Cap :
            IF InFlight >= target THEN CycleDone
            ELSE claim' = [claim EXCEPT !.at = "claiming", !.free = target - InFlight]
      BY DEF StartCycle
    <2>2. CASE CycleDone
      BY <2>2, NothingTyped DEF CycleDone
    <2>3. CASE ~(InFlight >= target) /\ claim' = [claim EXCEPT !.at = "claiming", !.free = target - InFlight]
      <3>1. target - InFlight \in 0..Cap
        BY <2>3, InFlightNat, Bounds, SMTT(30)
      <3>2. claim' \in ClaimRec /\ claim'.at = "claiming"
        BY <2>3, <3>1, TypeFacts DEF ClaimRec
      <3> QED BY <3>2
    <2> QED BY <2>1, <2>2, <2>3
  <1> QED BY <1>1, <1>2, TypeFacts, TypedFrom DEF Typed

LEMMA ClaimTyped ==
  ASSUME Typed, ClaimRows
  PROVE  Typed'
  <1> DEFINE spent == {j \in Jobs : Expired(j) /\ ~Requeue(j)}
             claimable == {j \in Jobs \ spent : row[j].at = "queued" \/ Expired(j)}
  <1>1. PICK S \in SUBSET claimable :
          /\ row' = [j \in Jobs |->
                CASE j \in S -> [at |-> "mine", lease |-> Lease, attempts |-> row[j].attempts + 1]
                  [] j \in spent -> [row[j] EXCEPT !.at = "done", !.lease = 0]
                  [] OTHER -> row[j]]
          /\ IF S = {} THEN CycleDone ELSE claim' = [claim EXCEPT !.at = "claimed", !.batch = S]
          /\ shared' = (shared \ S) \cup (S \cap LiveJobs)
    BY DEF ClaimRows
  <1>2. ASSUME NEW j \in Jobs
        PROVE  row'[j] \in RowRec /\ (row'[j].at = "queued" => row'[j].attempts < MaxAttempts)
    <2>0. row[j] \in RowRec /\ (row[j].at = "queued" => row[j].attempts < MaxAttempts)
      BY TypeFacts DEF Typed
    <2>1. CASE j \in S
      <3>1. row[j].attempts < MaxAttempts
        BY <2>0, <2>1 DEF Requeue
      <3>2. row'[j] = [at |-> "mine", lease |-> Lease, attempts |-> row[j].attempts + 1]
        BY <1>1, <2>1
      <3>3. row[j].attempts + 1 \in 0..MaxAttempts
        BY <2>0, <3>1, Bounds DEF RowRec
      <3> QED BY <3>2, <3>3, Bounds DEF RowRec
    <2>2. CASE j \notin S /\ j \in spent
      <3>1. row'[j] = [row[j] EXCEPT !.at = "done", !.lease = 0]
        BY <1>1, <2>2
      <3>2. row'[j] \in RowRec /\ row'[j].at = "done"
        BY <2>0, <3>1, Bounds DEF RowRec
      <3> QED BY <3>2
    <2>3. CASE j \notin S /\ j \notin spent
      BY <1>1, <2>0, <2>3
    <2> QED BY <2>1, <2>2, <2>3
  <1>3. row' \in [Jobs -> RowRec]
    BY <1>1, <1>2
  <1>4. claim' \in ClaimRec /\ (claim'.at = "idle" => claim'.batch = {})
    <2>1. CASE CycleDone
      BY <2>1, NothingTyped DEF CycleDone
    <2>2. CASE claim' = [claim EXCEPT !.at = "claimed", !.batch = S]
      <3>1. S \subseteq Jobs
        OBVIOUS
      <3>2. claim' \in ClaimRec /\ claim'.at = "claimed"
        BY <2>2, <3>1, TypeFacts DEF ClaimRec
      <3> QED BY <3>2
    <2> QED BY <1>1, <2>1, <2>2
  <1>5. UNCHANGED <<entries, tasks, phase, errors, restarts>>
    BY DEF ClaimRows
  <1>6. shared' \subseteq Jobs
    BY <1>1, TypeFacts
  <1> QED BY <1>2, <1>3, <1>4, <1>5, <1>6, TypeFacts, TypedFrom DEF Typed

LEMMA ClientTyped ==
  ASSUME Typed, ClientFails
  PROVE  Typed'
  <1>1. row' = [j \in Jobs |-> IF j \in claim.batch THEN FailedRow(j) ELSE row[j]]
        /\ claim' = NoClaim /\ UNCHANGED <<entries, tasks, phase, errors, restarts, shared>>
    BY DEF ClientFails, CycleDone
  <1>2. row' \in [Jobs -> RowRec] /\ \A j \in Jobs : row'[j].at = "queued" => row'[j].attempts < MaxAttempts
    BY <1>1, FailedRowTyped, TypeFacts DEF Typed
  <1> QED BY <1>1, <1>2, NothingTyped, TypeFacts, TypedFrom DEF Typed

LEMMA SpawnTyped ==
  ASSUME Typed, NEW j \in Jobs, Spawn(j)
  PROVE  Typed'
  <1> DEFINE k == [pc |-> "running", cut |-> FALSE, dog |-> "asleep", sleep |-> Interval]
  <1>1. PICK g \in Generations : tasks' = [tasks EXCEPT ![<<j, g>>] = k]
    BY DEF Spawn, NewTask
  <1>2. k \in TaskRec
    BY Bounds DEF TaskRec, Places, Dogs
  <1>3. tasks' \in [TaskIds -> TaskRec]
    <2> HIDE DEF k
    <2> QED BY <1>1, <1>2, TypeFacts
  <1>4. claim' \in ClaimRec /\ (claim'.at = "idle" => claim'.batch = {})
    <2>1. CASE CycleDone
      BY <2>1, NothingTyped DEF CycleDone
    <2>2. CASE claim' = [claim EXCEPT !.at = "spawning", !.batch = @ \ {j}]
      <3>1. claim' \in ClaimRec /\ claim'.at = "spawning"
        BY <2>2, TypeFacts DEF ClaimRec
      <3> QED BY <3>1
    <2> QED BY <2>1, <2>2 DEF Spawn, NewTask
  <1>5. entries' = Touched(j) /\ UNCHANGED <<row, phase, errors, restarts, shared>>
    BY DEF Spawn, NewTask
  <1> QED BY <1>3, <1>4, <1>5, TouchedEntries, TypeFacts, TypedFrom DEF Typed

(* A step of a task or of its watchdog, as the types see it. *)
LEMMA TaskStep ==
  ASSUME Typed, NEW t \in TaskIds, NEW k \in TaskRec, tasks' = [tasks EXCEPT ![t] = k]
  PROVE  tasks' \in [TaskIds -> TaskRec]
  BY TypeFacts

LEMMA TasksTyped ==
  ASSUME Typed, NEW t \in TaskIds, JobTask(t) \/ Watchdog(t)
  PROVE  tasks' \in [TaskIds -> TaskRec]
  <1> DEFINE k == tasks[t]
  <1>1. k \in TaskRec /\ tasks = [u \in TaskIds |-> tasks[u]]
    BY TypeFacts
  <1>2. ASSUME NEW pc \in Places, SetTask(t, pc) PROVE tasks' \in [TaskIds -> TaskRec]
    <2>1. tasks' = [tasks EXCEPT ![t] = [tasks[t] EXCEPT !.pc = pc]]
      BY <1>2 DEF SetTask
    <2>2. [tasks[t] EXCEPT !.pc = pc] \in TaskRec
      BY <1>1 DEF TaskRec
    <2> QED BY <2>1, <2>2, TaskStep
  <1>3. ASSUME NEW dog \in Dogs, SetDog(t, dog) PROVE tasks' \in [TaskIds -> TaskRec]
    <2>1. tasks' = [tasks EXCEPT ![t] = [tasks[t] EXCEPT !.dog = dog]]
      BY <1>3 DEF SetDog
    <2>2. [tasks[t] EXCEPT !.dog = dog] \in TaskRec
      BY <1>1 DEF TaskRec
    <2> QED BY <2>1, <2>2, TaskStep
  <1>4. ASSUME SleepAgain(t) PROVE tasks' \in [TaskIds -> TaskRec]
    <2>1. tasks' = [tasks EXCEPT ![t] = [tasks[t] EXCEPT !.dog = "asleep", !.sleep = Interval]]
      BY <1>1, <1>4 DEF SleepAgain
    <2>2. "asleep" \in Dogs /\ Interval \in 0..Interval
      BY Bounds DEF Dogs
    <2>3. [tasks[t] EXCEPT !.dog = "asleep", !.sleep = Interval] \in TaskRec
      BY <1>1, <2>2 DEF TaskRec
    <2> QED BY <2>1, <2>3, TaskStep
  <1>5. ASSUME DogLeaves(t) PROVE tasks' \in [TaskIds -> TaskRec]
    <2>1. tasks' = [tasks EXCEPT ![t] = NoTask] \/ tasks' = [tasks EXCEPT ![t] = [tasks[t] EXCEPT !.dog = "off"]]
      BY <1>5 DEF DogLeaves
    <2>2. [tasks[t] EXCEPT !.dog = "off"] \in TaskRec
      BY <1>1 DEF TaskRec, Dogs
    <2> QED BY <2>1, <2>2, NothingTyped, TaskStep
  <1>6. CASE Renew(t) \/ Hang(t) \/ Write(t)
    BY <1>2, <1>6, TypeFacts DEF Renew, Hang, Write, Places
  <1>7. CASE End(t)
    <2>1. tasks' = [tasks EXCEPT ![t] = NoTask] \/ tasks' = [tasks EXCEPT ![t] = [tasks[t] EXCEPT !.pc = "ended"]]
      BY <1>7 DEF End
    <2>2. [tasks[t] EXCEPT !.pc = "ended"] \in TaskRec
      BY <1>1 DEF TaskRec, Places
    <2> QED BY <2>1, <2>2, NothingTyped, TaskStep
  <1>8. CASE SeesLapse(t)
    <2>1. DogLeaves(t) \/ tasks' = [tasks EXCEPT ![t] = [tasks[t] EXCEPT !.cut = TRUE, !.dog = "failing"]]
      BY <1>1, <1>8 DEF SeesLapse
    <2>2. [tasks[t] EXCEPT !.cut = TRUE, !.dog = "failing"] \in TaskRec
      BY <1>1 DEF TaskRec, Dogs
    <2> QED BY <1>5, <2>1, <2>2, TaskStep
  <1>9. CASE Wake(t)
    BY <1>3, <1>5, <1>9 DEF Wake, Dogs
  <1>10. CASE Probe(t)
    BY <1>3, <1>10 DEF Probe, LeaseSeen, Dogs
  <1>11. CASE ProbeFails(t) \/ SeesProgress(t) \/ RecordsAbort(t) \/ SeesLoss(t)
    BY <1>4, <1>5, <1>11 DEF ProbeFails, SeesProgress, RecordsAbort, SeesLoss
  <1> QED BY <1>6, <1>7, <1>8, <1>9, <1>10, <1>11 DEF JobTask, Watchdog

LEMMA RowsTyped ==
  ASSUME Typed, NEW t \in TaskIds, JobTask(t) \/ Watchdog(t)
  PROVE  /\ row' \in [Jobs -> RowRec]
         /\ \A j \in Jobs : row'[j].at = "queued" => row'[j].attempts < MaxAttempts
  <1> DEFINE j == JobOf(t)
  <1>1. j \in Jobs /\ row \in [Jobs -> RowRec] /\ row[j] \in RowRec
        /\ \A i \in Jobs : row[i].at = "queued" => row[i].attempts < MaxAttempts
    BY JobOfTask, TypeFacts DEF Typed
  <1>2. ASSUME NEW r \in RowRec, r.at = "queued" => r.attempts < MaxAttempts, row' = [row EXCEPT ![j] = r]
        PROVE  /\ row' \in [Jobs -> RowRec]
               /\ \A i \in Jobs : row'[i].at = "queued" => row'[i].attempts < MaxAttempts
    BY <1>1, <1>2
  <1>3. CASE row' = row
    BY <1>1, <1>3
  <1>4. CASE row' = [row EXCEPT ![j] = FailedRow(j)]
    BY <1>1, <1>2, <1>4, FailedRowTyped
  <1>5. CASE row[j].at = "mine" /\ row' = [row EXCEPT ![j].lease = Lease]
    <2>1. row' = [row EXCEPT ![j] = [row[j] EXCEPT !.lease = Lease]]
      BY <1>5
    <2>2. [row[j] EXCEPT !.lease = Lease] \in RowRec /\ [row[j] EXCEPT !.lease = Lease].at = "mine"
      BY <1>1, <1>5, Bounds DEF RowRec
    <2> QED BY <1>2, <2>1, <2>2
  <1>6. ASSUME NEW outcome \in {"done", "review"}, row' = [row EXCEPT ![j].at = IF HasRow(j) THEN outcome ELSE @]
        PROVE  /\ row' \in [Jobs -> RowRec]
               /\ \A i \in Jobs : row'[i].at = "queued" => row'[i].attempts < MaxAttempts
    <2> DEFINE at == IF HasRow(j) THEN outcome ELSE row[j].at
    <2>1. row' = [row EXCEPT ![j] = [row[j] EXCEPT !.at = at]]
      BY <1>1, <1>6
    <2>2. at \in {"queued", "mine", "review", "away", "done"} /\ (at = "queued" => row[j].at = "queued")
      BY <1>1 DEF RowRec
    <2> HIDE DEF at
    <2>3. /\ [row[j] EXCEPT !.at = at] \in RowRec /\ [row[j] EXCEPT !.at = at].at = at
          /\ [row[j] EXCEPT !.at = at].attempts = row[j].attempts
      BY <1>1, <2>2 DEF RowRec
    <2> QED BY <1>1, <1>2, <2>1, <2>2, <2>3
  <1>7. CASE Write(t)
    <2>1. \/ row' = [row EXCEPT ![j] = FailedRow(j)]
          \/ \E outcome \in {"done", "review"} : row' = [row EXCEPT ![j].at = IF HasRow(j) THEN outcome ELSE @]
      BY <1>7 DEF Write
    <2> QED BY <1>4, <1>6, <2>1
  <1>8. CASE Renew(t)
    BY <1>3, <1>5, <1>8 DEF Renew
  <1> QED BY <1>3, <1>4, <1>7, <1>8 DEF JobTask, Watchdog, Hang, End, Wake, Probe, ProbeFails, SeesProgress,
          SeesLapse, RecordsAbort, SeesLoss

LEMMA TaskTyped ==
  ASSUME Typed, NEW t \in TaskIds, JobTask(t) \/ Watchdog(t)
  PROVE  Typed'
  <1>1. UNCHANGED <<claim, phase, restarts, shared>>
    BY DEF JobTask, Watchdog, Renew, Hang, Write, End, Wake, Probe, ProbeFails, SeesProgress, SeesLapse,
           RecordsAbort, SeesLoss
  <1>2. errors' \in 0..MaxErrors
    BY TypeFacts, Bounds DEF JobTask, Watchdog, Renew, Hang, Write, End, Wake, Probe, ProbeFails, SeesProgress,
           SeesLapse, RecordsAbort, SeesLoss
  <1>3. entries' = entries \/ entries' = Touched(JobOf(t)) \/ entries' = Finished(JobOf(t))
    BY DEF JobTask, Watchdog, Renew, Hang, Write, End, Wake, Probe, ProbeFails, SeesProgress, SeesLapse,
           RecordsAbort, SeesLoss
  <1>4. DOMAIN entries' \subseteq Jobs /\ \A j \in DOMAIN entries' : entries'[j] \in -1..ProgressDeadline
    <2> DEFINE j == JobOf(t)
    <2>0. j \in Jobs
      BY JobOfTask
    <2>1. CASE entries' = entries
      BY <2>1, TypeFacts
    <2>2. CASE entries' = Touched(j)
      BY <2>0, <2>2, TouchedEntries
    <2>3. CASE entries' = Finished(j)
      <3>1. DOMAIN entries' \subseteq DOMAIN entries /\ \A k \in DOMAIN entries' : entries'[k] = entries[k]
        BY <2>0, <2>3, FinishedEntries
      <3> QED BY <3>1, TypeFacts
    <2> QED BY <1>3, <2>1, <2>2, <2>3
  <1> QED BY <1>1, <1>2, <1>4, TasksTyped, RowsTyped, TypeFacts, TypedFrom DEF Typed

LEMMA TickTyped ==
  ASSUME Typed, Tick
  PROVE  Typed'
  <1>1. ASSUME NEW n \in Int, NEW floor \in Int, n >= floor
        PROVE  Down(n, floor) \in Int /\ Down(n, floor) >= floor /\ Down(n, floor) =< n
    BY <1>1 DEF Down
  <1>2. row' \in [Jobs -> RowRec] /\ \A j \in Jobs : row'[j].at = "queued" => row'[j].attempts < MaxAttempts
    <2>1. row' = [j \in Jobs |-> IF HasRow(j) THEN [row[j] EXCEPT !.lease = Down(@, -(Grace + 1))] ELSE row[j]]
      BY DEF Tick
    <2>2. ASSUME NEW j \in Jobs
          PROVE  row'[j] \in RowRec /\ row'[j].at = row[j].at /\ row'[j].attempts = row[j].attempts
      <3> DEFINE l == Down(row[j].lease, -(Grace + 1))
      <3>1. row[j] \in RowRec
        BY TypeFacts
      <3>2. l \in -(Grace + 1)..Lease
        BY <3>1, Bounds DEF RowRec, Down
      <3>3. CASE HasRow(j)
        <4>1. row'[j] = [row[j] EXCEPT !.lease = l]
          BY <2>1, <3>1, <3>3
        <4> HIDE DEF l
        <4> QED BY <3>1, <3>2, <4>1 DEF RowRec
      <3>4. CASE ~HasRow(j)
        BY <2>1, <3>1, <3>4
      <3> QED BY <3>3, <3>4
    <2> QED BY <2>1, <2>2 DEF Typed
  <1>3. DOMAIN entries' = DOMAIN entries /\ \A j \in DOMAIN entries' : entries'[j] \in -1..ProgressDeadline
    BY TypeFacts, Bounds DEF Tick, Down
  <1>4. tasks' \in [TaskIds -> TaskRec]
    <2>1. tasks' = [t \in TaskIds |-> [tasks[t] EXCEPT !.sleep = Down(@, 0)]]
      BY DEF Tick
    <2>2. ASSUME NEW t \in TaskIds PROVE [tasks[t] EXCEPT !.sleep = Down(@, 0)] \in TaskRec
      <3>1. tasks[t] \in TaskRec
        BY TypeFacts
      <3>2. Down(tasks[t].sleep, 0) \in 0..Interval
        BY <3>1, Bounds DEF TaskRec, Down
      <3> QED BY <3>1, <3>2 DEF TaskRec
    <2> QED BY <2>1, <2>2
  <1>5. claim' \in ClaimRec /\ claim'.at = claim.at /\ claim'.batch = claim.batch
    <2> DEFINE l == Down(claim.left, -1)
    <2>1. claim' = [claim EXCEPT !.left = l]
      BY DEF Tick
    <2>2. l \in -1..StallLimit
      BY TypeFacts, Bounds DEF ClaimRec, Down
    <2> HIDE DEF l
    <2> QED BY <2>1, <2>2, TypeFacts DEF ClaimRec
  <1>6. UNCHANGED <<phase, errors, restarts, shared>>
    BY DEF Tick
  <1> QED BY <1>2, <1>3, <1>4, <1>5, <1>6, TypeFacts, TypedFrom DEF Typed

LEMMA ProcessTyped ==
  ASSUME Typed, Kill \/ Shutdown \/ Exit \/ Restart
  PROVE  Typed'
  <1> DEFINE none == [j \in {} |-> 0]
             idle == [t \in TaskIds |-> NoTask]
  <1>1. DOMAIN none = {} /\ idle \in [TaskIds -> TaskRec]
    BY NothingTyped
  <1>2. /\ entries' = entries \/ entries' = none
        /\ tasks' = tasks \/ tasks' = idle
        /\ claim' = claim \/ claim' = NoClaim
        /\ phase' \in {"up", "draining", "drained", "gone"} /\ UNCHANGED errors
        /\ shared' \subseteq Jobs
    BY TypeFacts DEF Kill, Gone, Shutdown, Exit, Restart
  <1>3. restarts' \in 0..MaxRestarts
    <2>1. restarts' = restarts \/ (restarts < MaxRestarts /\ restarts' = restarts + 1)
      BY DEF Kill, Shutdown, Exit, Restart
    <2> QED BY <2>1, TypeFacts, Bounds
  <1>4. row' \in [Jobs -> RowRec] /\ \A j \in Jobs : row'[j].at = "queued" => row'[j].attempts < MaxAttempts
    <2>1. CASE row' = row
      BY <2>1, TypeFacts DEF Typed
    <2>2. CASE Restart
      <3>1. row' = [j \in Jobs |->
              CASE row[j].at = "mine"   -> [row[j] EXCEPT !.at = "away", !.lease = 0]
                [] row[j].at = "review" -> [row[j] EXCEPT !.at = "done", !.lease = 0]
                [] OTHER -> row[j]]
        BY <2>2 DEF Restart
      <3>2. ASSUME NEW j \in Jobs
            PROVE  row'[j] \in RowRec /\ (row'[j].at = "queued" => row'[j] = row[j])
        <4>1. row[j] \in RowRec
          BY TypeFacts
        <4>2. \/ row'[j] = [row[j] EXCEPT !.at = "away", !.lease = 0]
              \/ row'[j] = [row[j] EXCEPT !.at = "done", !.lease = 0]
              \/ row'[j] = row[j]
          BY <3>1
        <4>3. \A x \in {"away", "done"} : [row[j] EXCEPT !.at = x, !.lease = 0] \in RowRec
                                         /\ [row[j] EXCEPT !.at = x, !.lease = 0].at = x
          BY <4>1, Bounds DEF RowRec
        <4> QED BY <4>1, <4>2, <4>3
      <3> QED BY <3>1, <3>2 DEF Typed
    <2> QED BY <2>1, <2>2 DEF Kill, Shutdown, Exit
  <1> HIDE DEF none, idle
  <1> QED BY <1>1, <1>2, <1>3, <1>4, NothingTyped, TypeFacts, TypedFrom DEF Typed

LEMMA NextTyped ==
  ASSUME Typed, [Next]_vars
  PROVE  Typed'
  <1>1. CASE UNCHANGED vars
    BY <1>1 DEF vars, Typed, TypeOK
  <1> QED BY <1>1, OthersTyped, CycleTyped, ClaimTyped, ClientTyped, SpawnTyped, TaskTyped, TickTyped,
             ProcessTyped DEF Next, ClaimCycle

-----------------------------------------------------------------------------
(* Deadlines. *)

LEMMA Slacks ==
  ASSUME NEW e \in 0..MaxErrors
  PROVE  /\ Slack(e) \in Nat
         /\ WindowCoversErrors => Slack(e) + Interval =< ProgressDeadline
         /\ e < MaxErrors => Slack(e + 1) + Interval = Slack(e)
  <1>1. Interval \in Nat /\ MaxErrors \in Nat /\ e \in Nat /\ e =< MaxErrors /\ ProgressDeadline \in Nat
    BY Bounds
  <1>2. ASSUME NEW m \in Nat, NEW n \in Nat, m =< n
        PROVE  m * Interval \in Nat /\ m * Interval + Interval = (m + 1) * Interval /\ m * Interval =< n * Interval
    BY <1>1, <1>2
  <1>3. Slack(e) \in Nat
    <2>1. MaxErrors - e \in Nat
      BY <1>1
    <2> QED BY <2>1, <1>2 DEF Slack
  <1>4. WindowCoversErrors => Slack(e) + Interval =< ProgressDeadline
    <2> DEFINE m == MaxErrors - e
               n == MaxErrors + 1
    <2>1. m \in Nat /\ n \in Nat /\ m + 1 \in Nat /\ m + 1 =< n
      BY <1>1
    <2>2. Slack(e) = m * Interval
      BY DEF Slack
    <2>3. WindowCoversErrors => n * Interval =< ProgressDeadline
      BY DEF WindowCoversErrors
    <2> HIDE DEF m, n
    <2>4. m * Interval + Interval = (m + 1) * Interval /\ (m + 1) * Interval =< n * Interval
      BY <2>1, <1>2
    <2>5. n * Interval \in Nat /\ m * Interval \in Nat
      BY <2>1, <1>2
    <2> QED BY <1>1, <2>2, <2>3, <2>4, <2>5
  <1>5. e < MaxErrors => Slack(e + 1) + Interval = Slack(e)
    <2> SUFFICES ASSUME e < MaxErrors PROVE Slack(e + 1) + Interval = Slack(e)
      OBVIOUS
    <2> DEFINE m == MaxErrors - (e + 1)
    <2>1. m \in Nat /\ m + 1 = MaxErrors - e
      BY <1>1
    <2>2. Slack(e + 1) = m * Interval /\ Slack(e) = (MaxErrors - e) * Interval
      BY DEF Slack
    <2> HIDE DEF m
    <2>3. m * Interval + Interval = (m + 1) * Interval
      BY <2>1, <1>2
    <2> QED BY <2>1, <2>2, <2>3
  <1> QED BY <1>3, <1>4, <1>5

LEMMA NeedsFew ==
  ASSUME NEW k \in TaskRec
  PROVE  Needs(k) \in Nat /\ Needs(k) =< Interval
  BY Bounds DEF Needs, TaskRec

(* A step that sets no watchdog to a later probe than its slot allows. *)
LEMMA PunctualFrom ==
  ASSUME Typed, WindowCoversErrors, Punctual, NEW j \in Jobs,
         entries' = entries \/ entries' = Touched(j) \/ entries' = Finished(j),
         UNCHANGED errors, tasks' \in [TaskIds -> TaskRec],
         \A t \in TaskIds : tasks'[t].dog # "off" =>
            \/ tasks[t].dog # "off" /\ Needs(tasks'[t]) =< Needs(tasks[t])
            \/ JobOf(t) = j /\ entries' = Touched(j)
  PROVE  Punctual'
  <1>1. SUFFICES ASSUME NEW t \in TaskIds, tasks'[t].dog # "off", JobOf(t) \in DOMAIN entries'
                 PROVE  entries'[JobOf(t)] >= Slack(errors) + Needs(tasks'[t])
    BY DEF Punctual, Slack, Needs
  <1>2. /\ tasks[t] \in TaskRec /\ tasks'[t] \in TaskRec /\ errors \in 0..MaxErrors
        /\ ProgressDeadline \in Nat /\ Interval \in Nat
        /\ \A i \in DOMAIN entries : entries[i] \in Int
    BY TypeFacts, Bounds
  <1>3. /\ Needs(tasks[t]) \in Nat /\ Needs(tasks'[t]) \in Nat /\ Needs(tasks'[t]) =< Interval
        /\ Slack(errors) \in Nat /\ Slack(errors) + Interval =< ProgressDeadline
    BY <1>2, NeedsFew, Slacks
  <1>4. CASE entries' = Touched(j) /\ JobOf(t) = j
    <2>1. entries'[JobOf(t)] = ProgressDeadline
      BY <1>4, TouchedEntries
    <2> QED BY <1>2, <1>3, <2>1
  <1>5. CASE ~(entries' = Touched(j) /\ JobOf(t) = j)
    <2>1. tasks[t].dog # "off" /\ Needs(tasks'[t]) =< Needs(tasks[t])
      BY <1>1, <1>5
    <2>2. JobOf(t) \in DOMAIN entries /\ entries'[JobOf(t)] = entries[JobOf(t)]
      <3> DEFINE i == JobOf(t)
      <3>1. CASE entries' = entries
        BY <1>1, <3>1
      <3>2. CASE entries' = Touched(j)
        <4>1. i # j /\ i \in DOMAIN entries \cup {j}
          BY <1>1, <1>5, <3>2, TouchedEntries
        <4> QED BY <3>2, <4>1, TouchedEntries
      <3>3. CASE entries' = Finished(j)
        <4>1. i \in DOMAIN entries
          BY <1>1, <3>3, FinishedEntries
        <4> QED BY <1>1, <3>3, <4>1, FinishedEntries
      <3> QED BY <3>1, <3>2, <3>3
    <2>3. entries[JobOf(t)] >= Slack(errors) + Needs(tasks[t])
      BY <2>1, <2>2 DEF Punctual
    <2> QED BY <1>2, <1>3, <2>1, <2>2, <2>3
  <1> QED BY <1>4, <1>5

LEMMA SpawnPunctual ==
  ASSUME Typed, WindowCoversErrors, Punctual, NEW j \in Jobs, Spawn(j)
  PROVE  Punctual'
  <1> DEFINE k == [pc |-> "running", cut |-> FALSE, dog |-> "asleep", sleep |-> Interval]
  <1>1. PICK g \in Generations : tasks' = [tasks EXCEPT ![<<j, g>>] = k]
    BY DEF Spawn, NewTask
  <1>2. entries' = Touched(j) /\ UNCHANGED errors
    BY DEF Spawn, NewTask
  <1>3. tasks' \in [TaskIds -> TaskRec] /\ tasks \in [TaskIds -> TaskRec]
    <2>1. Typed'
      BY SpawnTyped
    <2> QED BY <2>1, TypeFacts DEF Typed, TypeOK, TaskRec, Places, Dogs
  <1>4. ASSUME NEW t \in TaskIds, tasks'[t].dog # "off"
        PROVE  \/ tasks[t].dog # "off" /\ Needs(tasks'[t]) =< Needs(tasks[t])
               \/ JobOf(t) = j /\ entries' = Touched(j)
    <2>1. CASE t = <<j, g>>
      BY <1>2, <2>1 DEF JobOf
    <2>2. CASE t # <<j, g>>
      <3>1. tasks'[t] = tasks[t]
        BY <1>1, <1>3, <2>2
      <3> QED BY <1>3, <1>4, <3>1, NeedsFew
    <2> QED BY <2>1, <2>2
  <1> QED BY <1>2, <1>3, <1>4, PunctualFrom

(* A step of a task or of its watchdog leaves the other tasks alone. *)
LEMMA OtherTasks ==
  ASSUME Typed, NEW t \in TaskIds, JobTask(t) \/ Watchdog(t), NEW u \in TaskIds, u # t
  PROVE  tasks'[u] = tasks[u]
  <1>0. tasks \in [TaskIds -> TaskRec]
    BY TypeFacts
  <1> QED BY <1>0 DEF JobTask, Watchdog, Renew, Hang, Write, End, Wake, Probe, ProbeFails, SeesProgress, SeesLapse,
           RecordsAbort, SeesLoss, SetTask, SetDog, SleepAgain, DogLeaves

(* What it does to the watchdog: only a probe sends it back to sleep. *)
LEMMA DogStep ==
  ASSUME Typed, NEW t \in TaskIds, JobTask(t) \/ Watchdog(t), ~ProbeFails(t), ~SeesProgress(t),
         tasks'[t].dog # "off"
  PROVE  tasks[t].dog # "off" /\ Needs(tasks'[t]) =< Needs(tasks[t])
  <1>0. tasks[t] \in TaskRec /\ tasks \in [TaskIds -> TaskRec] /\ Needs(tasks[t]) \in Nat
    BY TypeFacts, NeedsFew
  <1> DEFINE Goal == tasks[t].dog # "off" /\ Needs(tasks'[t]) =< Needs(tasks[t])
  <1>1. ASSUME tasks'[t].dog = tasks[t].dog, tasks'[t].sleep = tasks[t].sleep
        PROVE  Goal
    <2>1. Needs(tasks'[t]) = Needs(tasks[t])
      BY <1>1 DEF Needs
    <2> QED BY <1>0, <1>1, <2>1
  <1>2. ASSUME tasks[t].dog # "off", tasks'[t].dog # "asleep"
        PROVE  Goal
    <2>1. Needs(tasks'[t]) = 0
      BY <1>2 DEF Needs
    <2> QED BY <1>0, <1>2, <2>1
  <1> SUFFICES Goal
    OBVIOUS
  <1> HIDE DEF Goal
  <1>3. ASSUME NEW pc, SetTask(t, pc)
        PROVE  Goal
    <2>1. tasks'[t] = [tasks[t] EXCEPT !.pc = pc]
      BY <1>0, <1>3 DEF SetTask
    <2>2. tasks'[t].dog = tasks[t].dog /\ tasks'[t].sleep = tasks[t].sleep
      BY <1>0, <2>1 DEF TaskRec
    <2> QED BY <1>1, <2>2
  <1>4. ASSUME NEW dog, SetDog(t, dog)
        PROVE  tasks'[t].dog = dog
    BY <1>0, <1>4 DEF SetDog, TaskRec
  <1>5. ~DogLeaves(t)
    <2> SUFFICES ASSUME DogLeaves(t) PROVE tasks'[t].dog = "off"
      OBVIOUS
    <2> QED BY <1>0 DEF DogLeaves, NoTask, TaskRec
  <1>6. CASE Renew(t)
    BY <1>0, <1>1, <1>3, <1>6 DEF Renew
  <1>7. CASE Hang(t)
    BY <1>3, <1>7 DEF Hang
  <1>8. CASE Write(t)
    BY <1>3, <1>8 DEF Write
  <1>9. CASE End(t)
    <2>1. tasks'[t] = NoTask \/ tasks'[t] = [tasks[t] EXCEPT !.pc = "ended"]
      BY <1>0, <1>9 DEF End
    <2>2. tasks'[t] = [tasks[t] EXCEPT !.pc = "ended"]
      BY <2>1 DEF NoTask
    <2>3. tasks'[t].dog = tasks[t].dog /\ tasks'[t].sleep = tasks[t].sleep
      BY <1>0, <2>2 DEF TaskRec
    <2> QED BY <1>1, <2>3
  <1>10. CASE Wake(t)
    <2>1. SetDog(t, "probing") /\ tasks[t].dog = "asleep"
      BY <1>5, <1>10 DEF Wake
    <2> QED BY <1>2, <1>4, <2>1
  <1>11. CASE Probe(t)
    <2>1. SetDog(t, LeaseSeen(JobOf(t))) /\ tasks[t].dog = "probing" /\ LeaseSeen(JobOf(t)) # "asleep"
      BY <1>11 DEF Probe, LeaseSeen
    <2>2. tasks'[t].dog # "asleep"
      BY <1>4, <2>1
    <2> QED BY <1>2, <2>1, <2>2
  <1>12. CASE SeesLapse(t)
    <2>1. tasks'[t] = [tasks[t] EXCEPT !.cut = TRUE, !.dog = "failing"] /\ tasks[t].dog = "lapsed"
      BY <1>0, <1>5, <1>12 DEF SeesLapse
    <2>2. tasks'[t].dog = "failing"
      BY <1>0, <2>1 DEF TaskRec
    <2> QED BY <1>2, <2>1, <2>2
  <1> QED BY <1>5, <1>6, <1>7, <1>8, <1>9, <1>10, <1>11, <1>12 DEF JobTask, Watchdog, RecordsAbort, SeesLoss

LEMMA TaskPunctual ==
  ASSUME Typed, WindowCoversErrors, Punctual, NEW t \in TaskIds, JobTask(t) \/ Watchdog(t)
  PROVE  Punctual'
  <1>0. tasks' \in [TaskIds -> TaskRec] /\ tasks \in [TaskIds -> TaskRec] /\ JobOf(t) \in Jobs
    BY TasksTyped, TypeFacts, JobOfTask
  <1>1. CASE ProbeFails(t)
    <2>1. /\ tasks[t].dog = "probing" /\ errors < MaxErrors /\ errors' = errors + 1 /\ entries' = entries
          /\ SleepAgain(t)
      BY <1>1 DEF ProbeFails
    <2>2. tasks'[t].sleep = Interval /\ tasks'[t].dog = "asleep"
      BY <1>0, <2>1 DEF SleepAgain, TaskRec
    <2>3. /\ Slack(errors) \in Nat /\ Slack(errors + 1) \in Nat /\ Slack(errors + 1) + Interval = Slack(errors)
          /\ Interval \in Nat /\ \A i \in DOMAIN entries : entries[i] \in Int
      <3>1. errors \in 0..MaxErrors /\ errors + 1 \in 0..MaxErrors
        BY <2>1, TypeFacts, Bounds
      <3> QED BY <2>1, <3>1, Slacks, Bounds, TypeFacts
    <2>4. ASSUME NEW u \in TaskIds, tasks'[u].dog # "off", JobOf(u) \in DOMAIN entries
          PROVE  entries[JobOf(u)] >= Slack(errors + 1) + Needs(tasks'[u])
      <3>1. CASE u = t
        <4>1. Needs(tasks'[u]) = Interval
          BY <2>2, <3>1 DEF Needs
        <4>2. entries[JobOf(u)] >= Slack(errors) + Needs(tasks[u]) /\ Needs(tasks[u]) = 0
          BY <2>1, <2>4, <3>1 DEF Punctual, Needs
        <4> QED BY <2>3, <2>4, <4>1, <4>2
      <3>2. CASE u # t
        <4>1. tasks'[u] = tasks[u]
          BY <3>2, OtherTasks
        <4>2. entries[JobOf(u)] >= Slack(errors) + Needs(tasks[u]) /\ Needs(tasks[u]) \in Nat
          BY <1>0, <2>4, <4>1, NeedsFew DEF Punctual
        <4> QED BY <2>3, <2>4, <4>1, <4>2
      <3> QED BY <3>1, <3>2
    <2> QED BY <2>1, <2>4 DEF Punctual, Slack, Needs
  <1>2. CASE ~ProbeFails(t)
    <2>1. UNCHANGED errors
      BY <1>2 DEF JobTask, Watchdog, Renew, Hang, Write, End, Wake, Probe, SeesProgress, SeesLapse,
           RecordsAbort, SeesLoss
    <2>2. /\ entries' = entries \/ entries' = Touched(JobOf(t)) \/ entries' = Finished(JobOf(t))
          /\ SeesProgress(t) => entries' = Touched(JobOf(t))
      BY DEF JobTask, Watchdog, Renew, Hang, Write, End, Wake, Probe, ProbeFails, SeesProgress, SeesLapse,
           RecordsAbort, SeesLoss
    <2>3. ASSUME NEW u \in TaskIds, tasks'[u].dog # "off"
          PROVE  \/ tasks[u].dog # "off" /\ Needs(tasks'[u]) =< Needs(tasks[u])
                 \/ JobOf(u) = JobOf(t) /\ entries' = Touched(JobOf(t))
      <3>1. CASE u = t
        BY <1>2, <2>2, <2>3, <3>1, DogStep
      <3>2. CASE u # t
        BY <1>0, <2>3, <3>2, OtherTasks, NeedsFew
      <3> QED BY <3>1, <3>2
    <2> QED BY <1>0, <2>1, <2>2, <2>3, PunctualFrom
  <1> QED BY <1>1, <1>2

LEMMA TickPunctual ==
  ASSUME Typed, WindowCoversErrors, Punctual, Tick
  PROVE  Punctual'
  <1>1. SUFFICES ASSUME NEW t \in TaskIds, tasks'[t].dog # "off", JobOf(t) \in DOMAIN entries'
                 PROVE  entries'[JobOf(t)] >= Slack(errors) + Needs(tasks'[t])
    BY DEF Punctual, Slack, Needs, Tick
  <1>2. tasks[t] \in TaskRec /\ tasks'[t] = [tasks[t] EXCEPT !.sleep = Down(tasks[t].sleep, 0)]
    BY TypeFacts DEF Tick
  <1>3. tasks'[t].dog = tasks[t].dog /\ tasks'[t].sleep = Down(tasks[t].sleep, 0)
    <2> DEFINE l == Down(tasks[t].sleep, 0)
    <2>1. tasks'[t] = [tasks[t] EXCEPT !.sleep = l]
      BY <1>2
    <2> HIDE DEF l
    <2>2. tasks'[t].dog = tasks[t].dog /\ tasks'[t].sleep = l
      BY <1>2, <2>1 DEF TaskRec
    <2> QED BY <2>2 DEF l
  <1>4. tasks[t].dog = "asleep" /\ tasks[t].sleep > 0 /\ tasks[t].sleep \in Nat
    BY <1>1, <1>2, <1>3, Bounds DEF Tick, TaskRec
  <1>5. Needs(tasks[t]) = tasks[t].sleep /\ Needs(tasks'[t]) = tasks[t].sleep - 1
    BY <1>3, <1>4 DEF Needs, Down
  <1>6. /\ JobOf(t) \in DOMAIN entries /\ entries[JobOf(t)] \in Int
        /\ entries'[JobOf(t)] = Down(entries[JobOf(t)], -1)
    BY <1>1, TypeFacts, Bounds DEF Tick
  <1>7. entries[JobOf(t)] >= Slack(errors) + tasks[t].sleep /\ Slack(errors) \in Nat
    BY <1>4, <1>5, <1>6, TypeFacts, Slacks DEF Punctual
  <1> QED BY <1>4, <1>5, <1>6, <1>7 DEF Down

LEMMA NextPunctual ==
  ASSUME Typed, WindowCoversErrors, Punctual, [Next]_vars
  PROVE  Punctual'
  <1>1. CASE UNCHANGED <<entries, tasks, errors>>
    BY <1>1 DEF Punctual, Slack, Needs
  <1>2. CASE entries' = [j \in {} |-> 0]
    <2>1. DOMAIN entries' = {}
      BY <1>2
    <2> QED BY <2>1 DEF Punctual
  <1>3. CASE StartCycle \/ ClaimRows \/ ClientFails \/ Shutdown \/ \E j \in Jobs : Others(j)
    BY <1>1, <1>3 DEF StartCycle, ClaimRows, ClientFails, Shutdown, Others
  <1>4. CASE Kill \/ Restart
    BY <1>2, <1>4 DEF Kill, Gone, Restart
  <1>5. CASE Exit
    BY <1>1, <1>2, <1>5 DEF Exit, Gone
  <1>6. CASE UNCHANGED vars
    BY <1>1, <1>6 DEF vars
  <1> QED BY <1>3, <1>4, <1>5, <1>6, SpawnPunctual, TaskPunctual, TickPunctual DEF Next, ClaimCycle

-----------------------------------------------------------------------------
(* Slots: what the exempted jobs leave to the others. *)

LEMMA NobodyLives ==
  ASSUME tasks' = [t \in TaskIds |-> NoTask], NEW t \in TaskIds
  PROVE  ~Live(t)'
  BY DEF Live, Works, NoTask

(* A step of a task or its watchdog starts no other; an ending task is over. *)
LEMMA TaskLife ==
  ASSUME Typed, NEW t \in TaskIds, JobTask(t) \/ Watchdog(t)
  PROVE  /\ \A u \in TaskIds : (Live(u)' => Live(u)) /\ (Works(u)' => Works(u))
         /\ End(t) => ~Live(t)'
  <1>0. tasks[t] \in TaskRec /\ tasks \in [TaskIds -> TaskRec]
    BY TypeFacts
  <1>1. ASSUME NEW u \in TaskIds, u # t
        PROVE  (Live(u)' <=> Live(u)) /\ (Works(u)' <=> Works(u))
    BY <1>1, OtherTasks DEF Live, Works
  <1>2. \/ tasks'[t].pc = tasks[t].pc \/ tasks'[t].pc \in {"free", "ended"}
        \/ Works(t) /\ tasks'[t].pc \in {"hung", "blocked", "written"}
    <2>1. ASSUME NEW pc, SetTask(t, pc) PROVE tasks'[t].pc = pc
      BY <1>0, <2>1 DEF SetTask, TaskRec
    <2>2. ASSUME NEW dog, SetDog(t, dog) PROVE tasks'[t].pc = tasks[t].pc
      BY <1>0, <2>2 DEF SetDog, TaskRec
    <2>3. ASSUME DogLeaves(t) PROVE tasks'[t].pc = tasks[t].pc \/ tasks'[t].pc = "free"
      BY <1>0, <2>3 DEF DogLeaves, TaskRec, NoTask
    <2>4. ASSUME SleepAgain(t) PROVE tasks'[t].pc = tasks[t].pc
      BY <1>0, <2>4 DEF SleepAgain, TaskRec
    <2>5. CASE SeesLapse(t)
      BY <1>0, <2>3, <2>5 DEF SeesLapse, TaskRec
    <2>6. CASE Renew(t)
      BY <2>1, <2>6 DEF Renew, Works
    <2>7. CASE Hang(t)
      BY <2>1, <2>7 DEF Hang, Works
    <2>8. CASE Write(t)
      BY <2>1, <2>8 DEF Write, Works
    <2>9. CASE End(t)
      BY <1>0, <2>9 DEF End, TaskRec, NoTask
    <2>10. CASE Wake(t)
      BY <2>2, <2>3, <2>10 DEF Wake
    <2>11. CASE Probe(t)
      BY <2>2, <2>11 DEF Probe
    <2>12. CASE ProbeFails(t) \/ SeesProgress(t) \/ RecordsAbort(t) \/ SeesLoss(t)
      BY <2>3, <2>4, <2>12 DEF ProbeFails, SeesProgress, RecordsAbort, SeesLoss
    <2> QED BY <2>5, <2>6, <2>7, <2>8, <2>9, <2>10, <2>11, <2>12 DEF JobTask, Watchdog
  <1>3. (Live(t)' => Live(t)) /\ (Works(t)' => Works(t))
    BY <1>2 DEF Live, Works
  <1>4. End(t) => ~Live(t)'
    <2>1. End(t) => tasks'[t].pc \in {"free", "ended"}
      BY <1>0 DEF End, TaskRec, NoTask
    <2> QED BY <2>1 DEF Live, Works
  <1> QED BY <1>1, <1>3, <1>4

LEMMA TickLife ==
  ASSUME Typed, Tick
  PROVE  /\ UNCHANGED phase /\ DOMAIN entries' = DOMAIN entries
         /\ claim'.at = claim.at /\ claim'.batch = claim.batch /\ claim'.free = claim.free
         /\ \A t \in TaskIds : (Live(t)' <=> Live(t)) /\ (Works(t)' <=> Works(t))
  <1>1. UNCHANGED phase /\ DOMAIN entries' = DOMAIN entries
    BY DEF Tick
  <1>2. claim'.at = claim.at /\ claim'.batch = claim.batch /\ claim'.free = claim.free
    <2> DEFINE l == Down(claim.left, -1)
    <2>1. claim' = [claim EXCEPT !.left = l]
      BY DEF Tick
    <2> HIDE DEF l
    <2> QED BY <2>1, TypeFacts DEF ClaimRec
  <1>3. ASSUME NEW t \in TaskIds
        PROVE  (Live(t)' <=> Live(t)) /\ (Works(t)' <=> Works(t))
    <2>1. tasks[t] \in TaskRec /\ tasks'[t] = [tasks[t] EXCEPT !.sleep = Down(tasks[t].sleep, 0)]
      BY TypeFacts DEF Tick
    <2> DEFINE l == Down(tasks[t].sleep, 0)
    <2>2. tasks'[t] = [tasks[t] EXCEPT !.sleep = l]
      BY <2>1
    <2> HIDE DEF l
    <2>3. tasks'[t].pc = tasks[t].pc
      BY <2>1, <2>2 DEF TaskRec
    <2> QED BY <2>3 DEF Live, Works
  <1> QED BY <1>1, <1>2, <1>3

LEMMA PairedKept ==
  ASSUME Paired, \A t \in TaskIds : Alone(t)' => Alone(t) /\ JobOf(t) \in DOMAIN entries',
         claim'.at = claim.at, claim'.batch = claim.batch, UNCHANGED phase
  PROVE  Paired'
  BY DEF Paired

LEMMA StartPaired ==
  ASSUME Typed, Paired, StartCycle
  PROVE  Paired'
  <1>1. PICK target \in 1..Cap :
          IF InFlight >= target THEN CycleDone
          ELSE claim' = [claim EXCEPT !.at = "claiming", !.free = target - InFlight]
    BY DEF StartCycle
  <1>2. /\ UNCHANGED <<entries, tasks, phase>> /\ phase = "up" /\ claim.batch = {}
        /\ \A t \in TaskIds : Alone(t)' <=> Alone(t)
    BY DEF StartCycle, Alone, Live, Works, Typed
  <1>3. claim'.batch = {}
    BY <1>1, <1>2, NothingTyped, TypeFacts DEF CycleDone, ClaimRec
  <1> QED BY <1>2, <1>3 DEF Paired

(* A claim under a live task makes its job a shared one. *)
LEMMA ClaimPaired ==
  ASSUME Typed, Paired, ClaimRows
  PROVE  Paired'
  <1>1. UNCHANGED <<entries, tasks, phase>> /\ phase # "drained" /\ \A t \in TaskIds : Live(t)' <=> Live(t)
    BY DEF ClaimRows, Live, Works, Alive
  <1>2. PICK S \in SUBSET Jobs :
          /\ IF S = {} THEN CycleDone ELSE claim' = [claim EXCEPT !.at = "claimed", !.batch = S]
          /\ shared' = (shared \ S) \cup (S \cap LiveJobs)
    BY DEF ClaimRows
  <1>3. claim'.batch = S
    BY <1>2, NothingTyped, TypeFacts DEF CycleDone, ClaimRec
  <1>4. ASSUME NEW t \in TaskIds, Alone(t)'
        PROVE  Alone(t) /\ JobOf(t) \notin claim'.batch
    <2>1. Live(t) /\ JobOf(t) \in LiveJobs /\ JobOf(t) \notin shared'
      BY <1>1, <1>4 DEF Alone, LiveJobs, JobOf
    <2> QED BY <1>2, <1>3, <2>1 DEF Alone
  <1> QED BY <1>1, <1>4 DEF Paired

LEMMA SpawnPaired ==
  ASSUME Typed, Paired, NEW j \in Jobs, Spawn(j)
  PROVE  Paired'
  <1>1. j \in claim.batch /\ phase # "drained" /\ UNCHANGED phase /\ entries' = Touched(j)
    BY DEF Spawn, NewTask, Alive
  <1>0. UNCHANGED shared
    BY DEF Spawn, NewTask
  <1>2. \A t \in TaskIds : Alone(t) => JobOf(t) # j
    BY <1>1 DEF Paired
  <1>3. claim'.batch = claim.batch \ {j}
    <2>1. CASE claim.batch = {j}
      BY <2>1, NothingTyped DEF Spawn, NewTask, CycleDone
    <2>2. CASE claim.batch # {j}
      BY <2>2, TypeFacts DEF Spawn, NewTask, ClaimRec
    <2> QED BY <2>1, <2>2
  <1>4. PICK g \in Generations : tasks' = [tasks EXCEPT ![<<j, g>>] =
            [pc |-> "running", cut |-> FALSE, dog |-> "asleep", sleep |-> Interval]]
    BY DEF Spawn, NewTask
  <1>5. ASSUME NEW t \in TaskIds, Alone(t)', t # <<j, g>>
        PROVE  Alone(t) /\ JobOf(t) # j
    <2>1. tasks'[t] = tasks[t]
      BY <1>4, <1>5, TypeFacts
    <2> QED BY <1>0, <1>2, <1>5, <2>1 DEF Alone, Live, Works, JobOf
  <1>6. JobOf(<<j, g>>) = j /\ j \in DOMAIN entries' /\ DOMAIN entries \subseteq DOMAIN entries'
    BY <1>1, TouchedEntries DEF JobOf
  <1>7. \A t \in TaskIds : Alone(t)' => JobOf(t) \in DOMAIN entries' /\ JobOf(t) \notin claim'.batch
    BY <1>3, <1>5, <1>6 DEF Paired
  <1>8. \A t, u \in TaskIds : Alone(t)' /\ Alone(u)' /\ JobOf(t) = JobOf(u) => t = u
    BY <1>5, <1>6 DEF Paired
  <1> QED BY <1>1, <1>7, <1>8 DEF Paired

LEMMA TaskPaired ==
  ASSUME Typed, Paired, NEW t \in TaskIds, JobTask(t) \/ Watchdog(t)
  PROVE  Paired'
  <1>1. UNCHANGED <<claim, phase>> /\ JobOf(t) \in Jobs
    BY JobOfTask DEF JobTask, Watchdog, Renew, Hang, Write, End, Wake, Probe, ProbeFails, SeesProgress,
           SeesLapse, RecordsAbort, SeesLoss
  <1>2. \A u \in TaskIds : Alone(u)' => Alone(u)
    <2>1. UNCHANGED shared
      BY DEF JobTask, Watchdog, Renew, Hang, Write, End, Wake, Probe, ProbeFails, SeesProgress,
             SeesLapse, RecordsAbort, SeesLoss
    <2> QED BY <2>1, TaskLife DEF Alone, JobOf
  <1>3. CASE ~End(t)
    <2>1. DOMAIN entries \subseteq DOMAIN entries'
      BY <1>1, <1>3, TouchedEntries DEF JobTask, Watchdog, Renew, Hang, Write, Wake, Probe, ProbeFails,
             SeesProgress, SeesLapse, RecordsAbort, SeesLoss
    <2> QED BY <1>1, <1>2, <2>1, PairedKept DEF Paired
  <1>4. CASE End(t)
    <2>1. ~Alone(t)'
      BY <1>4, TaskLife DEF Alone
    <2>2. DOMAIN entries' = DOMAIN entries \ {JobOf(t)}
      BY <1>1, <1>4, FinishedEntries DEF End
    <2>3. \A u \in TaskIds : Alone(u)' => JobOf(u) # JobOf(t)
      <3> SUFFICES ASSUME NEW u \in TaskIds, Alone(u)', JobOf(u) = JobOf(t) PROVE FALSE
        OBVIOUS
      <3>1. Alone(u) /\ u # t
        BY <1>2, <2>1
      <3>2. Alone(t)
        BY <1>4, <3>1 DEF End, Alone, Live, Works
      <3> QED BY <3>1, <3>2 DEF Paired
    <2> QED BY <1>1, <1>2, <2>2, <2>3, PairedKept DEF Paired
  <1> QED BY <1>3, <1>4

LEMMA ProcessPaired ==
  ASSUME Typed, Paired, Kill \/ Shutdown \/ Exit \/ Restart
  PROVE  Paired'
  <1>1. CASE tasks' = [t \in TaskIds |-> NoTask] /\ claim' = NoClaim
    BY <1>1, NobodyLives, NothingTyped DEF Paired, Alone
  <1>2. CASE Shutdown
    <2>1. phase' # "drained" /\ UNCHANGED <<entries, claim>> /\ \A t \in TaskIds : Alone(t)' <=> Alone(t)
      BY <1>2 DEF Shutdown, Alone, Live, Works
    <2> QED BY <2>1 DEF Paired
  <1>3. CASE Exit /\ DrainedCleanly
    <2>1. claim.at = "idle" /\ DOMAIN entries = {} /\ UNCHANGED <<entries, claim>>
          /\ \A t \in TaskIds : Alone(t)' <=> Alone(t)
      BY <1>3 DEF Exit, DrainedCleanly, Alone, Live, Works
    <2> QED BY <2>1 DEF Paired
  <1> QED BY <1>1, <1>2, <1>3 DEF Kill, Exit, Restart, Gone

LEMMA NextPaired ==
  ASSUME Typed, Paired, [Next]_vars
  PROVE  Paired'
  <1>1. CASE UNCHANGED <<entries, tasks, claim, phase, shared>>
    <2>1. \A t \in TaskIds : Alone(t)' <=> Alone(t)
      BY <1>1 DEF Alone, Live, Works
    <2> QED BY <1>1, <2>1 DEF Paired
  <1>2. CASE \E j \in Jobs : Others(j)
    BY <1>1, <1>2 DEF Others
  <1>3. CASE ClientFails
    <2>1. \A t \in TaskIds : Alone(t)' <=> Alone(t)
      BY <1>3 DEF ClientFails, Alone, Live, Works
    <2>2. claim' = NoClaim /\ UNCHANGED <<entries, phase>> /\ phase # "drained"
      BY <1>3 DEF ClientFails, CycleDone, Alive
    <2> QED BY <2>1, <2>2, NothingTyped DEF Paired
  <1>4. CASE UNCHANGED vars
    BY <1>1, <1>4 DEF vars
  <1>5. CASE Tick
    <2>1. \A t \in TaskIds : Alone(t)' => Alone(t)
      BY <1>5, TickLife DEF Alone, Tick
    <2> QED BY <1>5, <2>1, TickLife, PairedKept DEF Paired
  <1> QED BY <1>2, <1>3, <1>4, <1>5, StartPaired, ClaimPaired, SpawnPaired, TaskPaired, ProcessPaired
          DEF Next, ClaimCycle

LEMMA NoneWork ==
  ASSUME tasks' = [t \in TaskIds |-> NoTask], claim' = NoClaim
  PROVE  Room'
  <1>1. \A t \in TaskIds : ~Works(t)'
    BY DEF Works, NoTask
  <1>2. Working' = {}
    BY <1>1 DEF Working
  <1> QED BY <1>2, FS_EmptySet, Bounds DEF Room, Pending, NoClaim

LEMMA PendingNat ==
  ASSUME Typed
  PROVE  Pending \in Nat
  <1>1. IsFiniteSet(claim.batch) /\ claim.free \in Nat
    BY TypeFacts, Bounds, FS_Subset DEF ClaimRec
  <1> QED BY <1>1, FS_CardinalityType DEF Pending

LEMMA RoomKept ==
  ASSUME Typed, Room, Working' \subseteq Working, Pending' \in Nat, Pending' =< Pending
  PROVE  Room'
  <1>2. IsFiniteSet(Working') /\ Cardinality(Working') =< Cardinality(Working)
        /\ Cardinality(Working) \in Nat /\ Cardinality(Working') \in Nat
    BY FS_Subset, FS_CardinalityType DEF Room
  <1>3. Pending \in Nat
    BY PendingNat
  <1> QED BY <1>2, <1>3, Bounds DEF Room

LEMMA StartRoom ==
  ASSUME Typed, Paired, Room, StartCycle
  PROVE  Room'
  <1>1. PICK target \in 1..Cap :
          IF InFlight >= target THEN CycleDone
          ELSE claim' = [claim EXCEPT !.at = "claiming", !.free = target - InFlight]
    BY DEF StartCycle
  <1>2. UNCHANGED tasks /\ claim.batch = {} /\ Working' = Working
    BY DEF StartCycle, Works, Working, Typed
  <1>3. CASE CycleDone
    BY <1>2, <1>3, RoomKept, PendingNat, FS_EmptySet DEF CycleDone, Pending, NoClaim
  <1>4. CASE ~(InFlight >= target) /\ claim' = [claim EXCEPT !.at = "claiming", !.free = target - InFlight]
    <2>2. Pending' = target - InFlight
      BY <1>4, TypeFacts DEF Pending, ClaimRec
    <2> DEFINE f == [t \in Working |-> JobOf(t)]
    <2>3. f \in [Working -> DOMAIN entries]
      BY DEF Paired, Alone, Working, Live
    <2>4. \A t, u \in Working : f[t] = f[u] => t = u
      BY DEF Paired, Alone, Working, Live
    <2>5. f \in Injection(Working, DOMAIN entries)
      BY <2>3, <2>4 DEF Injection, IsInjective
    <2> HIDE DEF f
    <2>6. Cardinality(Working) =< InFlight /\ IsFiniteSet(Working)
      BY <2>5, InFlightNat, FS_Injection DEF InFlight
    <2>7. Cardinality(Working) \in Nat /\ InFlight \in Nat /\ target \in Nat /\ target =< Cap /\ Cap \in Nat
      BY <2>6, InFlightNat, FS_CardinalityType, Bounds
    <2>8. Cardinality(Working) + (target - InFlight) =< Cap
      BY <2>6, <2>7
    <2> QED BY <1>2, <2>2, <2>6, <2>8 DEF Room
  <1> QED BY <1>1, <1>3, <1>4

LEMMA ClaimRoom ==
  ASSUME Typed, Room, ClaimRows
  PROVE  Room'
  <1> DEFINE spent == {j \in Jobs : Expired(j) /\ ~Requeue(j)}
             claimable == {j \in Jobs \ spent : row[j].at = "queued" \/ Expired(j)}
  <1>1. PICK S \in SUBSET claimable :
          /\ Cardinality(S) <= claim.free
          /\ IF S = {} THEN CycleDone ELSE claim' = [claim EXCEPT !.at = "claimed", !.batch = S]
          /\ shared' = (shared \ S) \cup (S \cap LiveJobs)
    BY DEF ClaimRows
  <1>2. claim.at = "claiming" /\ Working' \subseteq Working
    <2>1. claim.at = "claiming" /\ UNCHANGED tasks
      BY DEF ClaimRows
    <2>2. ASSUME NEW t \in TaskIds, Works(t)', JobOf(t) \notin shared'
          PROVE  Works(t) /\ JobOf(t) \notin shared
      <3>1. Works(t) /\ JobOf(t) \in LiveJobs
        BY <2>1, <2>2 DEF Works, Live, LiveJobs
      <3> QED BY <1>1, <2>2, <3>1
    <2> QED BY <2>1, <2>2 DEF Working, JobOf
  <1>3. Pending = claim.free
    BY <1>2 DEF Pending
  <1>4. Pending' \in Nat /\ Pending' =< Pending
    <2>1. CASE S = {}
      BY <1>1, <2>1, PendingNat, FS_EmptySet DEF CycleDone, Pending, NoClaim
    <2>2. CASE S # {}
      <3>1. claim'.at = "claimed" /\ claim'.batch = S
        BY <1>1, <2>2, TypeFacts DEF ClaimRec
      <3>2. IsFiniteSet(S) /\ Cardinality(S) \in Nat
        BY Bounds, FS_Subset, FS_CardinalityType
      <3>3. Pending' = Cardinality(S)
        BY <3>1 DEF Pending
      <3> QED BY <1>1, <1>3, <3>2, <3>3
    <2> QED BY <2>1, <2>2
  <1> QED BY <1>2, <1>4, RoomKept

LEMMA SpawnRoom ==
  ASSUME Typed, Paired, Room, NEW j \in Jobs, Spawn(j)
  PROVE  Room'
  <1>1. claim.at \in {"claimed", "spawning"} /\ j \in claim.batch
    BY DEF Spawn, NewTask
  <1>2. claim'.batch = claim.batch \ {j} /\ claim'.at # "claiming"
    <2>1. CASE claim.batch = {j}
      BY <2>1 DEF Spawn, NewTask, CycleDone, NoClaim
    <2>2. CASE claim.batch # {j}
      BY <2>2, TypeFacts DEF Spawn, NewTask, ClaimRec
    <2> QED BY <2>1, <2>2
  <1>3. /\ Pending = Cardinality(claim.batch) /\ Pending' = Cardinality(claim.batch \ {j})
        /\ IsFiniteSet(claim.batch)
    <2>1. IsFiniteSet(claim.batch)
      BY TypeFacts, Bounds, FS_Subset DEF ClaimRec
    <2> QED BY <1>1, <1>2, <2>1 DEF Pending
  <1>4. Pending \in Nat /\ Pending' = Pending - 1
    BY <1>1, <1>3, FS_RemoveElement, FS_CardinalityType
  <1>5. PICK g \in Generations : tasks' = [tasks EXCEPT ![<<j, g>>] =
            [pc |-> "running", cut |-> FALSE, dog |-> "asleep", sleep |-> Interval]]
    BY DEF Spawn, NewTask
  <1>6. Working' \subseteq Working \cup {<<j, g>>}
    <2>0. UNCHANGED shared
      BY DEF Spawn, NewTask
    <2>1. ASSUME NEW t \in TaskIds, Works(t)', t # <<j, g>>
          PROVE  Works(t)
      <3>1. tasks'[t] = tasks[t]
        BY <1>5, <2>1, TypeFacts
      <3> QED BY <2>1, <3>1 DEF Works
    <2> QED BY <2>0, <2>1 DEF Working, JobOf
  <1>7. /\ IsFiniteSet(Working \cup {<<j, g>>}) /\ Cardinality(Working) \in Nat
        /\ Cardinality(Working \cup {<<j, g>>}) =< Cardinality(Working) + 1
    <2>1. IsFiniteSet(Working)
      BY DEF Room
    <2>2. Cardinality(Working) \in Nat
      BY <2>1, FS_CardinalityType
    <2>3. /\ IsFiniteSet(Working \cup {<<j, g>>})
          /\ Cardinality(Working \cup {<<j, g>>}) =
                IF <<j, g>> \in Working THEN Cardinality(Working) ELSE Cardinality(Working) + 1
      BY <2>1, FS_AddElement
    <2> QED BY <2>2, <2>3
  <1>8. IsFiniteSet(Working') /\ Cardinality(Working') \in Nat /\ Cardinality(Working') =< Cardinality(Working) + 1
    <2>1. /\ IsFiniteSet(Working') /\ Cardinality(Working') =< Cardinality(Working \cup {<<j, g>>})
          /\ Cardinality(Working \cup {<<j, g>>}) \in Nat
      BY <1>6, <1>7, FS_Subset, FS_CardinalityType
    <2>2. Cardinality(Working') \in Nat
      BY <2>1, FS_CardinalityType
    <2> QED BY <1>7, <2>1, <2>2
  <1> QED BY <1>4, <1>7, <1>8, Bounds DEF Room

LEMMA NextRoom ==
  ASSUME Typed, Paired, Room, [Next]_vars
  PROVE  Room'
  <1>0. ASSUME \A t \in TaskIds : Works(t)' => Works(t), UNCHANGED shared
        PROVE  Working' \subseteq Working
    BY <1>0 DEF Working, JobOf
  <1>1. ASSUME \A t \in TaskIds : Works(t)' => Works(t), UNCHANGED shared, claim'.at = claim.at,
               claim'.batch = claim.batch, claim'.free = claim.free
        PROVE  Room'
    <2>1. Pending' = Pending
      BY <1>1 DEF Pending
    <2> QED BY <1>0, <1>1, <2>1, PendingNat, RoomKept
  <1>2. CASE UNCHANGED <<tasks, claim, shared>>
    BY <1>1, <1>2 DEF Works
  <1>3. CASE (\E j \in Jobs : Others(j)) \/ Shutdown \/ UNCHANGED vars
    BY <1>2, <1>3 DEF Others, Shutdown, vars
  <1>4. CASE ClientFails
    <2>1. Working' \subseteq Working
      BY <1>0, <1>4 DEF ClientFails, Works
    <2>2. Pending' = 0
      BY <1>4, FS_EmptySet DEF ClientFails, CycleDone, Pending, NoClaim
    <2> QED BY <2>1, <2>2, PendingNat, RoomKept
  <1>5. CASE Kill \/ Exit \/ Restart
    BY <1>2, <1>5, NoneWork DEF Kill, Exit, Restart, Gone
  <1>6. CASE Tick
    BY <1>1, <1>6, TickLife DEF Tick
  <1>7. CASE \E t \in TaskIds : JobTask(t) \/ Watchdog(t)
    <2>1. UNCHANGED <<claim, shared>>
      BY <1>7 DEF JobTask, Watchdog, Renew, Hang, Write, End, Wake, Probe, ProbeFails, SeesProgress,
           SeesLapse, RecordsAbort, SeesLoss
    <2>2. \A u \in TaskIds : Works(u)' => Works(u)
      BY <1>7, TaskLife
    <2> QED BY <1>1, <2>1, <2>2
  <1> QED BY <1>3, <1>4, <1>5, <1>6, <1>7, StartRoom, ClaimRoom, SpawnRoom DEF Next, ClaimCycle

-----------------------------------------------------------------------------
LEMMA InitIInv == Init => IInv
  <1> SUFFICES ASSUME Init PROVE IInv
    OBVIOUS
  <1> DEFINE r == [at |-> "queued", lease |-> 0, attempts |-> 0]
  <1>1. r \in RowRec /\ r.attempts < MaxAttempts
    BY Bounds DEF RowRec
  <1>2. DOMAIN entries = {} /\ phase = "up" /\ claim = NoClaim /\ tasks = [t \in TaskIds |-> NoTask]
        /\ errors \in 0..MaxErrors /\ restarts \in 0..MaxRestarts /\ shared = {}
    BY Bounds DEF Init
  <1>3. row \in [Jobs -> RowRec] /\ \A j \in Jobs : row[j].attempts < MaxAttempts
    <2> HIDE DEF r
    <2>1. row = [j \in Jobs |-> r]
      BY DEF Init, r
    <2> QED BY <1>1, <2>1
  <1>4. Typed
    BY <1>2, <1>3, NothingTyped DEF Typed, TypeOK, RowRec, TaskRec, ClaimRec, Dogs, Places
  <1>5. Punctual
    BY <1>2 DEF Punctual
  <1>7. Paired
    BY <1>2, NothingTyped DEF Paired, Alone, Live, Works, NoTask
  <1>8. Room
    <2>1. Working = {}
      BY <1>2 DEF Working, Works, NoTask
    <2> QED BY <1>2, <2>1, FS_EmptySet, Bounds DEF Room, Pending, NoClaim
  <1> QED BY <1>4, <1>5, <1>7, <1>8 DEF IInv

LEMMA NextIInv == IInv /\ [Next]_vars => IInv'
  <1> SUFFICES ASSUME IInv, [Next]_vars PROVE IInv'
    OBVIOUS
  <1>1. Typed'
    BY NextTyped DEF IInv
  <1>2. WindowCoversErrors => Punctual'
    BY NextPunctual DEF IInv
  <1>3. Paired' /\ Room'
    BY NextPaired, NextRoom DEF IInv
  <1> QED BY <1>1, <1>2, <1>3 DEF IInv, WindowCoversErrors, ProgressDeadline

(* Types, whatever the numbers: a queued job has an attempt left, and a claim
   cycle that is over holds no job back. *)
THEOREM WorkerTypeAlwaysOK == Spec => []Typed
  <1>1. IInv => Typed
    BY DEF IInv
  <1> QED BY <1>1, InitIInv, NextIInv, PTL DEF Spec

(* The progress deadline of a slot lies after the abort of its watchdog,
   failed probes included, as long as these fit in the window between two
   deadlines: the liveness probe does not kill a process whose watchdogs work. *)
THEOREM WindowGivesNoFalseAlarm ==
  ASSUME WindowCoversErrors
  PROVE  Spec => []NoFalseAlarm
  <1>1. IInv => NoFalseAlarm
    <2> SUFFICES ASSUME IInv, NEW t \in TaskIds, JobOf(t) \in DOMAIN entries, entries[JobOf(t)] < 0
                 PROVE  tasks[t].dog = "off"
      BY DEF NoFalseAlarm
    <2>1. Typed /\ Punctual
      BY DEF IInv
    <2>2. /\ entries[JobOf(t)] \in Int /\ Slack(errors) \in Nat /\ Needs(tasks[t]) \in Nat
      BY <2>1, TypeFacts, Bounds, Slacks, NeedsFew
    <2> QED BY <2>1, <2>2 DEF Punctual
  <1> QED BY <1>1, InitIInv, NextIInv, PTL DEF Spec

(* A task holds the slot of its job for as long as it lives, its lease lost or
   not, however many slots there are, unless this process claimed the job again
   under it: that claim is the only way to lose a slot. *)
THEOREM LiveTasksStayRegistered == Spec => []LiveTaskRegistered
  <1>1. IInv => LiveTaskRegistered
    BY DEF IInv, Typed, Paired, Alone, LiveTaskRegistered
  <1> QED BY <1>1, InitIInv, NextIInv, PTL DEF Spec

(* When a drain is reported clean, no claimed job waits to be spawned and no
   task is left but one whose job was claimed again beside it. *)
THEOREM DrainStaysClean == Spec => []CleanDrain
  <1>1. IInv => CleanDrain
    BY DEF IInv, Typed, Paired, Alone, LiveJobs, CleanDrain
  <1> QED BY <1>1, InitIInv, NextIInv, PTL DEF Spec

(* Without the tasks of the jobs claimed again, no more tasks are at work than
   the hard cap allows: with no such job, CapacityRespected. *)
OnlySharedExceed ==
  /\ Cardinality(Working) =< Cap
  /\ shared = {} => CapacityRespected

(* The cap is kept, however stale the count of free slots is, however the
   settings move the target and whoever takes the leases meanwhile. *)
THEOREM CapacityKept == Spec => []OnlySharedExceed
  <1>1. IInv => OnlySharedExceed
    <2> SUFFICES ASSUME IInv PROVE OnlySharedExceed
      OBVIOUS
    <2>1. Cardinality(Working) =< Cap
      BY PendingNat, FS_CardinalityType, Bounds DEF IInv, Room
    <2>2. ASSUME shared = {} PROVE CapacityRespected
      <3>1. Working = {t \in TaskIds : Works(t)}
        BY <2>2 DEF Working
      <3> QED BY <2>1, <3>1 DEF CapacityRespected
    <2> QED BY <2>1, <2>2 DEF OnlySharedExceed
  <1> QED BY <1>1, InitIInv, NextIInv, PTL DEF Spec
=============================================================================
