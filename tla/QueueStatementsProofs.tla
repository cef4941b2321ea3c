------------------------- MODULE QueueStatementsProofs -------------------------
(***************************************************************************)
(* What QueueStatements promises, for any number of sessions and runs.     *)
(*                                                                         *)
(* A statement of one session is seen by no other until it commits (Own),  *)
(* so what another session relies on survives it (UnseenSession).  What is *)
(* left is, for each statement, its own session, and for a commit, the     *)
(* rows it makes visible and the sessions that read or will write them:    *)
(* two sessions outside the document lock never hold jobs of one run       *)
(* (OneWriter), so only the holder of the document lock, which starts or   *)
(* reopens one run, can surprise a completion or a failure.                *)
(***************************************************************************)
EXTENDS QueueStatements, TLAPS

(* A job is a run and a slot; the OCR job and the metadata jobs are apart. *)
LEMMA Slotting ==
    /\ \A j \in Jobs : j[1] \in Runs /\ j[2] \in Slots /\ j = <<j[1], j[2]>> /\ j \in JobsOf(j[1])
    /\ \A r \in Runs, k \in Slots : <<r, k>> \in JobsOf(r)
    /\ \A r \in Runs : \A j \in JobsOf(r) : j \in Jobs /\ j[1] = r /\ j[2] \in Slots /\ j = <<r, j[2]>>
    /\ \A r \in Runs : OcrJob(r) \in JobsOf(r) /\ OcrJob(r) \notin MetadataJobsOf(r)
    /\ \A r \in Runs : \A j \in MetadataJobsOf(r) : j \in JobsOf(r)
    /\ \A r \in Runs : \A j \in JobsOf(r) : j # OcrJob(r) => j \in MetadataJobsOf(r)
    /\ \A r \in Runs, s \in Sessions : <<r, s>> \in MetadataJobsOf(r)
    /\ \A k \in Created : k \in Slots /\ k \notin Sessions
    /\ \A k \in Sessions : k \in Slots
  BY SlotAssumption DEF Jobs, JobsOf, OcrJob, MetadataJobsOf, Slots, Created

(* The status vocabularies, as far as the proofs tell statuses apart. *)
LEMMA Statuses ==
    /\ ActiveRunStatuses \subseteq RunStatuses /\ TerminalRunStatuses \subseteq RunStatuses
    /\ ActiveJobStatuses \subseteq JobStatuses
    /\ \A x \in ActiveRunStatuses : x \notin TerminalRunStatuses /\ x # "none"
    /\ \A x \in RunStatuses : x \in ActiveRunStatuses \/ x \in TerminalRunStatuses
    /\ {"queued", "running"} \subseteq ActiveRunStatuses
    /\ {"succeeded", "failed"} \subseteq TerminalRunStatuses
    /\ "none" \notin RunStatuses /\ "none" \notin JobStatuses
    /\ {"queued", "running"} \subseteq ActiveJobStatuses
    /\ \A x \in ActiveJobStatuses : x \notin {"succeeded", "failed", "cancelled", "none"}
    /\ {"succeeded", "failed", "cancelled"} \subseteq JobStatuses
  BY DEF ActiveRunStatuses, RunStatuses, TerminalRunStatuses, ActiveJobStatuses, JobStatuses

(* What the transitions of job transactions allow and lead to. *)
LEMMA JobEvents ==
  ASSUME NEW event \in {"Claimed", "StageAdvanced", "Succeeded", "LeaseReleased", "Failed"}
  PROVE  /\ RunFrom(event) \subseteq ActiveRunStatuses
         /\ RunTo(event) \in RunStatuses
         /\ event \in {"Claimed", "StageAdvanced", "LeaseReleased"} => RunTo(event) \in ActiveRunStatuses
         /\ event = "Succeeded" => RunTo(event) = "succeeded"
         /\ event = "Failed" => RunTo(event) = "failed"
  BY DEF RunFrom, RunTo, ActiveRunStatuses, RunStatuses, TerminalRunStatuses

(* What the transitions of the repairs allow and lead to. *)
LEMMA RepairEvents ==
    /\ RunFrom("MetadataBackfilled") = {"succeeded"} /\ RunTo("MetadataBackfilled") = "queued"
    /\ RunTo("VisionCrashRequeued") = "queued"
  BY DEF RunFrom, RunTo

-----------------------------------------------------------------------------
(* Types. *)

(* The initial rows have their types. *)
LEMMA InitType == Init => TypeOK
  BY DEF Init, TypeOK, InventoryRow, Holders, Steps

(* A write of rows keeps their types. *)
LEMMA WriteTypes ==
  ASSUME TypeOK, NEW s \in Sessions
  PROVE  /\ \A r, x : x \in RunStatuses \cup {"none"} /\ WriteRun(s, r, x) =>
                newRun' \in [Runs -> RunStatuses \cup {"none"}] /\ runLock' \in [Runs -> Holders]
         /\ \A J, x : x \in JobStatuses \cup {"none"} /\ WriteJobs(s, J, x) =>
                newJob' \in [Jobs -> JobStatuses \cup {"none"}] /\ jobLock' \in [Jobs -> Holders]
         /\ \A x \in InventoryRow : WriteInv(s, x) => newInv' \in InventoryRow /\ invLock' \in Holders
         /\ \A x \in Steps : Goto(s, x) => pc' \in [Sessions -> Steps] /\ target' = target
         /\ \A x \in Steps, r \in Runs \cup {NoRun} : GotoFor(s, x, r) =>
                pc' \in [Sessions -> Steps] /\ target' \in [Sessions -> Runs \cup {NoRun}]
  BY DEF TypeOK, WriteRun, WriteJobs, WriteInv, Goto, GotoFor, Holders

(* What a session sees of a row has the type of the row. *)
LEMMA SeenTypes ==
  ASSUME TypeOK, NEW s \in Sessions
  PROVE  /\ \A r \in Runs : SeenRun(s, r) \in RunStatuses \cup {"none"}
         /\ \A j \in Jobs : SeenJob(s, j) \in JobStatuses \cup {"none"}
         /\ SeenInv(s) \in InventoryRow
  BY DEF TypeOK, SeenRun, SeenJob, SeenInv

-----------------------------------------------------------------------------
(* What a statement of s may touch: its own steps, rows nobody else holds. *)

Own(s) ==
    /\ UNCHANGED committed
    /\ \A t \in Sessions \ {s} : pc'[t] = pc[t] /\ target'[t] = target[t]
    /\ \A r \in Runs :
          \/ runLock'[r] = runLock[r] /\ newRun'[r] = newRun[r]
          \/ runLock[r] \in {NoSession, s} /\ runLock'[r] = s
    /\ \A j \in Jobs :
          \/ jobLock'[j] = jobLock[j] /\ newJob'[j] = newJob[j]
          \/ jobLock[j] \in {NoSession, s} /\ jobLock'[j] = s
    /\ \/ invLock' = invLock /\ newInv' = newInv
       \/ invLock \in {NoSession, s} /\ invLock' = s
    /\ \/ docLock' = docLock
       \/ docLock = NoSession /\ docLock' = s

(* A session moves on alone. *)
LEMMA GotoOwn ==
  ASSUME TypeOK, NEW s \in Sessions
  PROVE  /\ \A x : Goto(s, x) => \A t \in Sessions \ {s} : pc'[t] = pc[t] /\ target'[t] = target[t]
         /\ \A x : Goto(s, x) => pc'[s] = x /\ target'[s] = target[s]
         /\ \A x, r : GotoFor(s, x, r) => \A t \in Sessions \ {s} : pc'[t] = pc[t] /\ target'[t] = target[t]
         /\ \A x, r : GotoFor(s, x, r) => pc'[s] = x /\ target'[s] = r
  BY DEF TypeOK, Goto, GotoFor

(* What a write changes, row by row. *)
LEMMA WriteOwn ==
  ASSUME TypeOK, NEW s \in Sessions
  PROVE  /\ \A r \in Runs : \A x : WriteRun(s, r, x) =>
               /\ newRun'[r] = x /\ runLock'[r] = s
               /\ \A q \in Runs \ {r} : newRun'[q] = newRun[q] /\ runLock'[q] = runLock[q]
         /\ \A J, x : WriteJobs(s, J, x) =>
               /\ \A j \in Jobs \cap J : newJob'[j] = x /\ jobLock'[j] = s
               /\ \A j \in Jobs \ J : newJob'[j] = newJob[j] /\ jobLock'[j] = jobLock[j]
  BY DEF TypeOK, WriteRun, WriteJobs

(* A job that does not exist yet is locked by nobody but the holder of the
   document lock. *)
LEMMA NobodyElseHolds ==
  ASSUME StatementsConsistent, NEW s \in Sessions, docLock = s, NEW j \in Jobs, job[j] = "none"
  PROVE  jobLock[j] \in {NoSession, s}
<1> SUFFICES ASSUME NEW t \in Sessions, jobLock[j] = t, t # s PROVE FALSE
  BY DEF StatementsConsistent, TypeOK, Holders
<1>1. JobTransaction(t)
  BY DEF StatementsConsistent, SessionOK
<1> QED
  BY <1>1, Statuses DEF JobTransaction

(* A creation or repair past its first step holds the document lock. *)
LEMMA DocumentOwn ==
  ASSUME StatementsConsistent, NEW s \in Sessions, pc[s] \in DocumentSteps
  PROVE  docLock = s
  BY DEF StatementsConsistent, SessionOK, KnowsItsLocks

(* Every statement keeps the types and touches only what its session may touch. *)
LEMMA LockDocumentOwn ==
  ASSUME StatementsConsistent, NEW s \in Sessions, NEW x \in Steps, LockDocument(s, x)
  PROVE  TypeOK' /\ Own(s)
<1>1. Own(s)
  BY GotoOwn DEF StatementsConsistent, LockDocument, Own, runRows, jobRows, invRow
<1>2. TypeOK'
  BY WriteTypes DEF StatementsConsistent, LockDocument, TypeOK, Holders, runRows, jobRows, invRow, committed
<1> QED
  BY <1>1, <1>2

LEMMA CreateInsertOwn ==
  ASSUME StatementsConsistent, NEW s \in Sessions, CreateInsert(s)
  PROVE  TypeOK' /\ Own(s)
<1>d. docLock = s
  BY DocumentOwn DEF CreateInsert, DocumentSteps, SelectSteps
<1>1. CASE Goto(s, "commit") /\ UNCHANGED <<runRows, jobRows>>
  <2>1. Own(s)
    BY <1>1, GotoOwn DEF StatementsConsistent, CreateInsert, Own, runRows, jobRows, invRow
  <2>2. TypeOK'
    BY <1>1, WriteTypes DEF StatementsConsistent, CreateInsert, TypeOK, Steps, runRows, jobRows, invRow, committed
  <2> QED
    BY <2>1, <2>2
<1>2. CASE \E r \in Runs, S \in (SUBSET Created) \ {{}} :
               /\ run[r] = "none" /\ runLock[r] = NoSession
               /\ WriteRun(s, r, "queued")
               /\ WriteJobs(s, {r} \X S, "queued")
               /\ GotoFor(s, "create_inventory", r)
  <2> PICK r \in Runs, S \in (SUBSET Created) \ {{}} :
               /\ run[r] = "none" /\ runLock[r] = NoSession
               /\ WriteRun(s, r, "queued")
               /\ WriteJobs(s, {r} \X S, "queued")
               /\ GotoFor(s, "create_inventory", r)
    BY <1>2
  <2>1. \A j \in Jobs \cap ({r} \X S) : jobLock[j] \in {NoSession, s}
    <3> TAKE j \in Jobs \cap ({r} \X S)
    <3>1. j \in JobsOf(r)
      BY Slotting
    <3>2. job[j] = "none"
      BY <3>1 DEF StatementsConsistent, CommittedOK, UnbornRunHasNoJobs
    <3> QED
      BY <3>2, <1>d, NobodyElseHolds
  <2>2. \A j \in Jobs : \/ jobLock'[j] = jobLock[j] /\ newJob'[j] = newJob[j]
                        \/ jobLock[j] \in {NoSession, s} /\ jobLock'[j] = s
    BY <2>1, WriteOwn DEF StatementsConsistent
  <2>3. \A q \in Runs : \/ runLock'[q] = runLock[q] /\ newRun'[q] = newRun[q]
                        \/ runLock[q] \in {NoSession, s} /\ runLock'[q] = s
    BY WriteOwn DEF StatementsConsistent
  <2>4. Own(s)
    BY <2>2, <2>3, GotoOwn DEF StatementsConsistent, CreateInsert, Own, invRow
  <2>5. TypeOK'
    BY WriteTypes, Statuses DEF StatementsConsistent, CreateInsert, TypeOK, Steps, invRow, committed
  <2> QED
    BY <2>4, <2>5
<1> QED
  BY <1>1, <1>2 DEF CreateInsert

LEMMA CreateInventoryOwn ==
  ASSUME StatementsConsistent, NEW s \in Sessions, CreateInventory(s)
  PROVE  TypeOK' /\ Own(s)
<1>1. Own(s)
  BY GotoOwn DEF StatementsConsistent, CreateInventory, Own, WriteInv, Lockable, runRows, jobRows
<1>2. [lastRun |-> target[s], status |-> "queued"] \in InventoryRow
  BY Statuses DEF StatementsConsistent, TypeOK, InventoryRow
<1>3. TypeOK'
  BY <1>2, WriteTypes DEF StatementsConsistent, CreateInventory, TypeOK, Steps, runRows, jobRows, committed
<1> QED
  BY <1>1, <1>3

LEMMA ClaimJobOwn ==
  ASSUME StatementsConsistent, NEW s \in Sessions, ClaimJob(s)
  PROVE  TypeOK' /\ Own(s)
<1> PICK j \in Jobs : /\ jobLock[j] = NoSession
                      /\ WriteJobs(s, {j}, "running")
                      /\ GotoFor(s, "claim_run", j[1])
  BY DEF ClaimJob
<1>1. Own(s)
  BY GotoOwn, WriteOwn DEF StatementsConsistent, ClaimJob, Own, runRows, invRow
<1>2. TypeOK'
  BY WriteTypes, Statuses, Slotting DEF StatementsConsistent, ClaimJob, TypeOK, Steps, runRows, invRow, committed
<1> QED
  BY <1>1, <1>2

LEMMA EndJobOwn ==
  ASSUME StatementsConsistent, NEW s \in Sessions, NEW x \in JobStatuses, NEW y \in Steps, EndJob(s, x, y)
  PROVE  TypeOK' /\ Own(s)
<1> PICK j \in Jobs : /\ jobLock[j] = NoSession
                      /\ WriteJobs(s, {j}, x)
                      /\ GotoFor(s, y, j[1])
  BY DEF EndJob
<1>1. Own(s)
  BY GotoOwn, WriteOwn DEF StatementsConsistent, EndJob, Own, runRows, invRow
<1>2. TypeOK'
  BY WriteTypes, Statuses, Slotting DEF StatementsConsistent, EndJob, TypeOK, Steps, runRows, invRow, committed
<1> QED
  BY <1>1, <1>2

LEMMA ReadRemainingOwn ==
  ASSUME StatementsConsistent, NEW s \in Sessions, ReadRemaining(s)
  PROVE  TypeOK' /\ Own(s)
<1>1. PICK x \in {"StageAdvanced", "Succeeded"} : Goto(s, x)
  BY DEF ReadRemaining
<1>2. Own(s)
  BY <1>1, GotoOwn DEF StatementsConsistent, ReadRemaining, Own, runRows, jobRows, invRow
<1>3. TypeOK'
  BY <1>1, WriteTypes DEF StatementsConsistent, ReadRemaining, TypeOK, Steps, runRows, jobRows, invRow, committed
<1> QED
  BY <1>2, <1>3

LEMMA CancelSiblingsOwn ==
  ASSUME StatementsConsistent, NEW s \in Sessions, CancelSiblings(s)
  PROVE  TypeOK' /\ Own(s)
<1> DEFINE J == {j \in JobsOf(target[s]) : SeenJob(s, j) \in ActiveJobStatuses}
<1>0. /\ \A j \in J : Lockable(jobLock[j], s)
      /\ WriteJobs(s, J, "cancelled") /\ Goto(s, "failed")
  BY DEF CancelSiblings
<1> HIDE DEF J
<1>1. Own(s)
  BY <1>0, GotoOwn, WriteOwn DEF StatementsConsistent, CancelSiblings, Own, Lockable, runRows, invRow
<1>2. TypeOK'
  BY <1>0, WriteTypes, Statuses DEF StatementsConsistent, CancelSiblings, TypeOK, Steps, runRows, invRow, committed
<1> QED
  BY <1>1, <1>2

LEMMA TransitionOwn ==
  ASSUME StatementsConsistent, NEW s \in Sessions,
         NEW event \in {"Claimed", "StageAdvanced", "Succeeded", "LeaseReleased", "Failed"},
         Transition(s, event)
  PROVE  /\ newRun' \in [Runs -> RunStatuses \cup {"none"}] /\ runLock' \in [Runs -> Holders]
         /\ \A r \in Runs : \/ runLock'[r] = runLock[r] /\ newRun'[r] = newRun[r]
                            \/ runLock[r] \in {NoSession, s} /\ runLock'[r] = s
<1>1. CASE Moves(s, target[s], event)
  <2>1. Lockable(runLock[target[s]], s) /\ WriteRun(s, target[s], RunTo(event))
    BY <1>1 DEF Transition
  <2> QED
    BY <2>1, WriteTypes, JobEvents DEF StatementsConsistent, TypeOK, WriteRun, Lockable
<1>2. CASE ~Moves(s, target[s], event)
  BY <1>2 DEF Transition, StatementsConsistent, TypeOK, runRows
<1> QED
  BY <1>1, <1>2

LEMMA TransitionStepOwn ==
  ASSUME StatementsConsistent, NEW s \in Sessions, TransitionStep(s)
  PROVE  TypeOK' /\ Own(s)
<1>1. PICK x \in {"mirror", "failed_mirror"},
           event \in {"Claimed", "StageAdvanced", "Succeeded", "LeaseReleased", "Failed"} :
        Transition(s, event) /\ Goto(s, x)
  BY DEF TransitionStep
<1>2. Own(s)
  BY <1>1, TransitionOwn, GotoOwn DEF StatementsConsistent, TransitionStep, Own, jobRows, invRow
<1>3. TypeOK'
  BY <1>1, TransitionOwn, WriteTypes DEF StatementsConsistent, TransitionStep, TypeOK, Steps, jobRows, invRow, committed
<1> QED
  BY <1>2, <1>3

LEMMA MirrorStepOwn ==
  ASSUME StatementsConsistent, NEW s \in Sessions, MirrorStep(s)
  PROVE  TypeOK' /\ Own(s)
<1>1. PICK x \in {"commit", "cancel_siblings"} : Goto(s, x)
  BY DEF MirrorStep
<1>2. /\ newInv' \in InventoryRow /\ invLock' \in Holders
      /\ \/ invLock' = invLock /\ newInv' = newInv
         \/ invLock \in {NoSession, s} /\ invLock' = s
  <2>1. CASE SeenInv(s).lastRun = target[s]
    <3>1. Lockable(invLock, s) /\ WriteInv(s, [SeenInv(s) EXCEPT !.status = SeenRun(s, target[s])])
      BY <2>1 DEF MirrorStep, Mirror
    <3>2. target[s] \in Runs => SeenRun(s, target[s]) \in RunStatuses \cup {"none"}
      BY SeenTypes DEF StatementsConsistent
    <3>3. target[s] \in Runs
      BY DEF StatementsConsistent, SessionOK, KnowsItsLocks, JobTransaction, MirrorStep, WriteSteps,
             DocumentSteps, SelectSteps, JobSteps, Steps
    <3>4. [SeenInv(s) EXCEPT !.status = SeenRun(s, target[s])] \in InventoryRow
      BY <3>2, <3>3, SeenTypes DEF StatementsConsistent, InventoryRow
    <3> QED
      BY <3>1, <3>4, WriteTypes DEF StatementsConsistent, Lockable, WriteInv
  <2>2. CASE SeenInv(s).lastRun # target[s]
    BY <2>2 DEF MirrorStep, Mirror, StatementsConsistent, TypeOK, invRow
  <2> QED
    BY <2>1, <2>2
<1>3. Own(s)
  BY <1>1, <1>2, GotoOwn DEF StatementsConsistent, MirrorStep, Own, runRows, jobRows
<1>4. TypeOK'
  BY <1>1, <1>2, WriteTypes DEF StatementsConsistent, MirrorStep, TypeOK, Steps, runRows, jobRows, committed
<1> QED
  BY <1>3, <1>4

LEMMA StageStatusOwn ==
  ASSUME StatementsConsistent, NEW s \in Sessions, StageStatus(s)
  PROVE  TypeOK' /\ Own(s)
<1>1. PICK x \in {"read_remaining", "Failed"} : Goto(s, x)
  BY DEF StageStatus
<1>2. target[s] \in Runs
  BY DEF StatementsConsistent, SessionOK, KnowsItsLocks, JobTransaction, StageStatus, WriteSteps,
         DocumentSteps, SelectSteps, JobSteps, Steps
<1>3. /\ [SeenInv(s) EXCEPT !.lastRun = target[s]] \in InventoryRow
      /\ [lastRun |-> target[s], status |-> "failed"] \in InventoryRow
  BY <1>2, SeenTypes, Statuses DEF StatementsConsistent, InventoryRow
<1>4. PICK y \in InventoryRow : WriteInv(s, y)
  BY <1>3 DEF StageStatus
<1>5. /\ newInv' \in InventoryRow /\ invLock' \in Holders
      /\ invLock \in {NoSession, s} /\ invLock' = s
  BY <1>4, WriteTypes DEF StatementsConsistent, StageStatus, Lockable, WriteInv
<1>6. Own(s)
  BY <1>1, <1>5, GotoOwn DEF StatementsConsistent, StageStatus, Own, runRows, jobRows
<1>7. TypeOK'
  BY <1>1, <1>5, WriteTypes DEF StatementsConsistent, StageStatus, TypeOK, Steps, runRows, jobRows, committed
<1> QED
  BY <1>6, <1>7

LEMMA BackfillSelectOwn ==
  ASSUME StatementsConsistent, NEW s \in Sessions, BackfillSelect(s)
  PROVE  TypeOK' /\ Own(s)
<1>d. docLock = s
  BY DocumentOwn DEF BackfillSelect, DocumentSteps, SelectSteps
<1>1. CASE Goto(s, "commit") /\ UNCHANGED <<runRows, jobRows>>
  <2>1. Own(s)
    BY <1>1, GotoOwn DEF StatementsConsistent, BackfillSelect, Own, runRows, jobRows, invRow
  <2>2. TypeOK'
    BY <1>1, WriteTypes DEF StatementsConsistent, BackfillSelect, TypeOK, Steps, runRows, jobRows, invRow, committed
  <2> QED
    BY <2>1, <2>2
<1>2. CASE \E r \in BackfillCandidates :
               /\ runLock[r] = NoSession
               /\ WriteRun(s, r, IF run[r] \in RunFrom("MetadataBackfilled")
                                 THEN RunTo("MetadataBackfilled") ELSE run[r])
               /\ WriteJobs(s, {<<r, s>>}, "queued")
               /\ GotoFor(s, "repair_mirror", r)
  <2>0. PICK r \in BackfillCandidates, x \in RunStatuses \cup {"none"} :
               /\ runLock[r] = NoSession
               /\ WriteRun(s, r, x)
               /\ WriteJobs(s, {<<r, s>>}, "queued")
               /\ GotoFor(s, "repair_mirror", r)
    <3>1. PICK r \in BackfillCandidates :
               /\ runLock[r] = NoSession
               /\ WriteRun(s, r, IF run[r] \in RunFrom("MetadataBackfilled")
                                 THEN RunTo("MetadataBackfilled") ELSE run[r])
               /\ WriteJobs(s, {<<r, s>>}, "queued")
               /\ GotoFor(s, "repair_mirror", r)
      BY <1>2
    <3>2. /\ run[r] \in RunStatuses \cup {"none"}
          /\ RunTo("MetadataBackfilled") \in RunStatuses
      BY RepairEvents, Statuses DEF StatementsConsistent, TypeOK, BackfillCandidates
    <3> QED
      BY <3>1, <3>2
  <2> r \in Runs
    BY DEF BackfillCandidates
  <2>1. jobLock[<<r, s>>] \in {NoSession, s}
    <3>1. job[<<r, s>>] = "none" /\ <<r, s>> \in Jobs
      BY Slotting DEF BackfillCandidates
    <3> QED
      BY <3>1, <1>d, NobodyElseHolds
  <2>2. \A j \in Jobs : \/ jobLock'[j] = jobLock[j] /\ newJob'[j] = newJob[j]
                        \/ jobLock[j] \in {NoSession, s} /\ jobLock'[j] = s
    BY <2>0, <2>1, WriteOwn DEF StatementsConsistent
  <2>3. \A q \in Runs : \/ runLock'[q] = runLock[q] /\ newRun'[q] = newRun[q]
                        \/ runLock[q] \in {NoSession, s} /\ runLock'[q] = s
    BY <2>0, WriteOwn DEF StatementsConsistent
  <2>4. Own(s)
    BY <2>0, <2>2, <2>3, GotoOwn DEF StatementsConsistent, BackfillSelect, Own, invRow
  <2>5. TypeOK'
    BY <2>0, WriteTypes, Statuses DEF StatementsConsistent, BackfillSelect, TypeOK, Steps, invRow, committed
  <2> QED
    BY <2>4, <2>5
<1> QED
  BY <1>1, <1>2 DEF BackfillSelect

LEMMA VisionSelectOwn ==
  ASSUME StatementsConsistent, NEW s \in Sessions, VisionSelect(s)
  PROVE  TypeOK' /\ Own(s)
<1>1. CASE Goto(s, "commit") /\ UNCHANGED <<runRows, jobRows>>
  <2>1. Own(s)
    BY <1>1, GotoOwn DEF StatementsConsistent, VisionSelect, Own, runRows, jobRows, invRow
  <2>2. TypeOK'
    BY <1>1, WriteTypes DEF StatementsConsistent, VisionSelect, TypeOK, Steps, runRows, jobRows, invRow, committed
  <2> QED
    BY <2>1, <2>2
<1>2. CASE \E r \in CrashedRuns :
               LET requeued == {OcrJob(r)} \cup {j \in JobsOf(r) : job[j] = "cancelled"}
               IN  /\ runLock[r] = NoSession /\ \A j \in requeued : jobLock[j] = NoSession
                   /\ WriteRun(s, r, RunTo("VisionCrashRequeued"))
                   /\ WriteJobs(s, requeued, "queued")
                   /\ GotoFor(s, "vision_inventory", r)
  <2>0. PICK r \in CrashedRuns, J \in SUBSET Jobs :
               /\ runLock[r] = NoSession /\ \A j \in J : jobLock[j] = NoSession
               /\ WriteRun(s, r, "queued")
               /\ WriteJobs(s, J, "queued")
               /\ GotoFor(s, "vision_inventory", r)
    BY <1>2, RepairEvents, Slotting DEF CrashedRuns
  <2> r \in Runs
    BY DEF CrashedRuns
  <2>2. \A j \in Jobs : \/ jobLock'[j] = jobLock[j] /\ newJob'[j] = newJob[j]
                        \/ jobLock[j] \in {NoSession, s} /\ jobLock'[j] = s
    BY <2>0, WriteOwn DEF StatementsConsistent
  <2>3. \A q \in Runs : \/ runLock'[q] = runLock[q] /\ newRun'[q] = newRun[q]
                        \/ runLock[q] \in {NoSession, s} /\ runLock'[q] = s
    BY <2>0, WriteOwn DEF StatementsConsistent
  <2>4. Own(s)
    BY <2>0, <2>2, <2>3, GotoOwn DEF StatementsConsistent, VisionSelect, Own, invRow
  <2>5. TypeOK'
    BY <2>0, WriteTypes, Statuses DEF StatementsConsistent, VisionSelect, TypeOK, Steps, invRow, committed
  <2> QED
    BY <2>4, <2>5
<1> QED
  BY <1>1, <1>2 DEF VisionSelect

LEMMA VisionInventoryOwn ==
  ASSUME StatementsConsistent, NEW s \in Sessions, VisionInventory(s)
  PROVE  TypeOK' /\ Own(s)
<1>1. /\ newInv' \in InventoryRow /\ invLock' \in Holders
      /\ \/ invLock' = invLock /\ newInv' = newInv
         \/ invLock \in {NoSession, s} /\ invLock' = s
  BY SeenTypes, WriteTypes DEF StatementsConsistent, TypeOK, VisionInventory, Lockable, WriteInv, invRow
<1>2. Own(s)
  BY <1>1, GotoOwn DEF StatementsConsistent, VisionInventory, Own, runRows, jobRows
<1>3. TypeOK'
  BY <1>1, WriteTypes DEF StatementsConsistent, VisionInventory, TypeOK, Steps, runRows, jobRows, committed
<1> QED
  BY <1>2, <1>3

-----------------------------------------------------------------------------
(* A statement of s is not seen by the others. *)

(* A statement leaves what is committed consistent, and unlocked rows clean. *)
LEMMA OwnKeepsCommitted ==
  ASSUME StatementsConsistent, NEW s \in Sessions, Own(s)
  PROVE  CommittedOK'
<1>1. run' = run /\ job' = job /\ inv' = inv
  BY DEF Own, committed
<1>2. UnlockedRowsClean'
  BY <1>1, NoSessionAssumption DEF Own, StatementsConsistent, CommittedOK, UnlockedRowsClean
<1> QED
  BY <1>1, <1>2 DEF StatementsConsistent, CommittedOK, UnbornRunHasNoJobs, StageOrder, OneMetadataJob,
     OneActiveRun, BadgeFollowsRun, ActiveRunHasWork, OnlyBackfilledWorkStrands

(* What t has locked and what is committed stay as they are. *)
Unseen(t) ==
    /\ run' = run /\ job' = job /\ inv' = inv
    /\ pc'[t] = pc[t] /\ target'[t] = target[t]
    /\ docLock' = t <=> docLock = t
    /\ invLock' = t <=> invLock = t
    /\ invLock = t => newInv' = newInv
    /\ \A r \in Runs : runLock'[r] = t <=> runLock[r] = t
    /\ \A r \in Runs : runLock[r] = t => newRun'[r] = newRun[r]
    /\ \A j \in Jobs : jobLock'[j] = t <=> jobLock[j] = t
    /\ \A j \in Jobs : jobLock[j] = t => newJob'[j] = newJob[j]

(* No statement is seen by another session. *)
LEMMA OwnIsUnseen ==
  ASSUME NEW s \in Sessions, NEW t \in Sessions \ {s}, Own(s)
  PROVE  Unseen(t)
  BY NoSessionAssumption DEF Own, Unseen, committed

(* The target of a job transaction is a run. *)
LEMMA JobTarget ==
  ASSUME StatementsConsistent, NEW t \in Sessions, pc[t] \in JobSteps
  PROVE  docLock # t /\ target[t] \in Runs /\ HoldsJob(t, target[t])
<1>1. KnowsItsLocks(t) /\ JobTransaction(t)
  BY DEF StatementsConsistent, SessionOK
<1>2. pc[t] \notin DocumentSteps \cup {"commit"}
  BY DEF JobSteps
<1> QED
  BY <1>1, <1>2 DEF KnowsItsLocks, JobTransaction

(* What a session relies on survives the statements of the others. *)
LEMMA UnseenSession ==
  ASSUME StatementsConsistent, NEW t \in Sessions, Unseen(t)
  PROVE  SessionOK(t)'
<1>0. SessionOK(t)
  BY DEF StatementsConsistent
<1>1. /\ run' = run /\ job' = job /\ inv' = inv
      /\ pc'[t] = pc[t] /\ target'[t] = target[t]
      /\ docLock' = t <=> docLock = t
      /\ invLock' = t <=> invLock = t
      /\ invLock = t => newInv' = newInv
      /\ \A r \in Runs : runLock'[r] = t <=> runLock[r] = t
      /\ \A r \in Runs : runLock[r] = t => newRun'[r] = newRun[r]
      /\ \A j \in Jobs : jobLock'[j] = t <=> jobLock[j] = t
      /\ \A j \in Jobs : jobLock[j] = t => newJob'[j] = newJob[j]
  BY DEF Unseen
<1>2. /\ \A r \in Runs : SeenRun(t, r)' = SeenRun(t, r)
      /\ \A j \in Jobs : SeenJob(t, j)' = SeenJob(t, j)
      /\ \A r \in Runs : HoldsJob(t, r)' = HoldsJob(t, r)
      /\ \A r \in Runs : \A S \in SUBSET Slots : NoneActive(t, r, S)' = NoneActive(t, r, S)
  BY <1>1, Slotting DEF SeenRun, SeenJob, HoldsJob, NoneActive
<1>3. KnowsItsLocks(t)'
  BY <1>0, <1>1 DEF SessionOK, KnowsItsLocks, HoldsNothing
<1>4. JobTransaction(t)'
  BY <1>0, <1>1, <1>2, Slotting DEF SessionOK, JobTransaction
<1>5. DocumentTransaction(t)'
  BY <1>0, <1>1, <1>2, Slotting DEF SessionOK, DocumentTransaction
<1>6. SettlesWhatIsDone(t)'
  <2>1. pc[t] = "Succeeded" => target[t] \in Runs
    BY JobTarget DEF JobSteps, Steps, DocumentSteps, SelectSteps, WriteSteps
  <2>2. Created \in SUBSET Slots /\ Slots \in SUBSET Slots
    BY Slotting
  <2>3. pc[t] = "Succeeded" => NoneActive(t, target[t], Created)' = NoneActive(t, target[t], Created)
    BY <1>1, <1>2, <2>1, <2>2
  <2>4. \A r \in Runs : NoneActive(t, r, Created)' = NoneActive(t, r, Created)
                       /\ NoneActive(t, r, Slots)' = NoneActive(t, r, Slots)
    BY <1>2, <2>2
  <2> QED
    BY <1>0, <1>1, <2>3, <2>4 DEF SessionOK, SettlesWhatIsDone
<1>7. KeepsBadge(t)'
  <2>1. \A r \in Runs : runLock[r] = t => SeenRun(t, r) = newRun[r]
    BY DEF SeenRun
  <2>2. ASSUME invLock' = t
        PROVE  /\ \/ newInv'.lastRun = inv'.lastRun
                  \/ newInv'.lastRun \in Runs /\ docLock' # t /\ HoldsJob(t, newInv.lastRun)'
                  \/ newInv'.lastRun \in Runs /\ runLock'[newInv'.lastRun] = t /\ run'[newInv'.lastRun] = "none"
               /\ pc'[t] \notin BadgeOpen \/ newInv'.lastRun # target'[t] =>
                     newInv'.status = IF newInv'.lastRun = NoRun THEN "none" ELSE SeenRun(t, newInv.lastRun)'
    <3>1. invLock = t /\ newInv' = newInv
      BY <2>2, <1>1
    <3>2. newInv.lastRun = NoRun \/ newInv.lastRun \in Runs
      BY DEF StatementsConsistent, TypeOK, InventoryRow
    <3>3. newInv.lastRun \in Runs => HoldsJob(t, newInv.lastRun)' = HoldsJob(t, newInv.lastRun)
                                   /\ SeenRun(t, newInv.lastRun)' = SeenRun(t, newInv.lastRun)
      BY <1>2, <3>1
    <3>4. KeepsBadge(t)
      BY <1>0 DEF SessionOK
    <3> QED
      BY <1>1, <3>1, <3>2, <3>3, <3>4, NoRunAssumption DEF KeepsBadge
  <2>3. \A r \in Runs :
          /\ runLock'[r] = t /\ newRun'[r] # run'[r] /\ inv'.lastRun = r
          /\ ~(target'[t] = r /\ pc'[t] \in BeforeMirror)
          => invLock' = t
    BY <1>0, <1>1 DEF SessionOK, KeepsBadge
  <2> QED
    BY <2>2, <2>3 DEF KeepsBadge
<1>8. LeavesNoIdleRun(t)'
  <2>0. LeavesNoIdleRun(t)
    BY <1>0 DEF SessionOK
  <2>1. pc[t] \in {"failed_mirror", "cancel_siblings"} => target[t] \in Runs
    BY JobTarget DEF JobSteps, Steps, DocumentSteps, SelectSteps, WriteSteps
  <2>2. pc[t] \in {"failed_mirror", "cancel_siblings"} => SeenRun(t, target[t])' = SeenRun(t, target[t])
    BY <1>1, <1>2, <2>1 DEF SeenRun
  <2>3. \A r \in Runs : \A j \in JobsOf(r) : SeenJob(t, j)' = SeenJob(t, j)
    BY <1>2, Slotting
  <2>4. \A r \in Runs : Active(SeenRun(t, r))' <=> Active(SeenRun(t, r))
    BY <1>2 DEF Active
  <2>5. pc[t] \in {"failed_mirror", "cancel_siblings"} =>
           (Active(SeenRun(t, target[t]))' <=> Active(SeenRun(t, target[t])))
    BY <2>2 DEF Active
  <2> QED
    BY <1>1, <1>2, <2>0, <2>3, <2>4, <2>5 DEF LeavesNoIdleRun
<1> QED
  BY <1>3, <1>4, <1>5, <1>6, <1>7, <1>8 DEF SessionOK

-----------------------------------------------------------------------------
(* Each statement keeps what its own session relies on. *)

(* A session that holds nothing owes nothing but its own steps. *)
LEMMA HoldingNothing ==
  \A s \in Sessions :
     /\ HoldsNothing(s) /\ pc[s] \in SelectSteps \cup {"idle", "commit"}
     /\ pc[s] \in SelectSteps => docLock = s
     /\ docLock = s => pc[s] \in SelectSteps \cup {"commit"}
     => SessionOK(s)
<1> SUFFICES ASSUME NEW s \in Sessions,
                    HoldsNothing(s), pc[s] \in SelectSteps \cup {"idle", "commit"},
                    pc[s] \in SelectSteps => docLock = s,
                    docLock = s => pc[s] \in SelectSteps \cup {"commit"}
             PROVE  SessionOK(s)
  OBVIOUS
<1>0. pc[s] \notin JobSteps /\ pc[s] \notin WriteSteps /\ pc[s] \notin {"Succeeded", "create_inventory"}
  BY DEF JobSteps, SelectSteps, WriteSteps, DocumentSteps
<1>1. KnowsItsLocks(s)
  BY <1>0 DEF KnowsItsLocks, DocumentSteps
<1>2. JobTransaction(s)
  BY <1>0, Slotting DEF JobTransaction, HoldsNothing
<1>3. DocumentTransaction(s)
  BY <1>0 DEF DocumentTransaction, HoldsNothing
<1>4. SettlesWhatIsDone(s)
  BY <1>0 DEF SettlesWhatIsDone, HoldsNothing
<1>5. KeepsBadge(s)
  BY <1>0 DEF KeepsBadge, HoldsNothing
<1>6. LeavesNoIdleRun(s)
  <2>1. \A r \in Runs : ~HoldsJob(s, r)
    BY Slotting DEF HoldsNothing, HoldsJob
  <2>2. pc[s] \notin {"failed_mirror", "cancel_siblings"}
    BY DEF SelectSteps
  <2> QED
    BY <2>1, <2>2 DEF LeavesNoIdleRun
<1> QED
  BY <1>1, <1>2, <1>3, <1>4, <1>5, <1>6 DEF SessionOK

(* The same, after a step. *)
LEMMA HoldingNothingNext ==
  (\A s \in Sessions :
     /\ HoldsNothing(s) /\ pc[s] \in SelectSteps \cup {"idle", "commit"}
     /\ pc[s] \in SelectSteps => docLock = s
     /\ docLock = s => pc[s] \in SelectSteps \cup {"commit"}
     => SessionOK(s))'
  BY HoldingNothing, PTL

(* Taking the document lock. *)
LEMMA LockDocumentSession ==
  ASSUME StatementsConsistent, NEW s \in Sessions, NEW x \in SelectSteps, LockDocument(s, x)
  PROVE  SessionOK(s)'
<1>1. HoldsNothing(s)
  BY DEF StatementsConsistent, SessionOK, KnowsItsLocks, LockDocument
<1>2. HoldsNothing(s)' /\ pc'[s] = x /\ docLock' = s
  BY <1>1, GotoOwn DEF StatementsConsistent, HoldsNothing, LockDocument, runRows, jobRows, invRow
<1> QED
  BY <1>2, HoldingNothingNext

(* A selection that finds nothing goes on to an empty commit. *)
LEMMA SelectedNothing ==
  ASSUME StatementsConsistent, NEW s \in Sessions, pc[s] \in SelectSteps,
         Goto(s, "commit"), UNCHANGED <<runRows, jobRows, invRow, docLock>>
  PROVE  SessionOK(s)'
<1>1. HoldsNothing(s)
  BY DEF StatementsConsistent, SessionOK, KnowsItsLocks
<1>2. HoldsNothing(s)' /\ pc'[s] = "commit"
  BY <1>1, GotoOwn DEF StatementsConsistent, HoldsNothing, runRows, jobRows, invRow
<1>3. "commit" \notin SelectSteps
  BY DEF SelectSteps
<1> QED
  BY <1>2, <1>3, HoldingNothingNext

(* The three statements that choose a run behind the document lock. *)
LEMMA SelectedRun ==
  ASSUME StatementsConsistent, NEW s \in Sessions, pc[s] \in SelectSteps,
         NEW r \in Runs, NEW J \in (SUBSET JobsOf(r)) \ {{}}, NEW x, NEW step \in WriteSteps,
         WriteRun(s, r, x), WriteJobs(s, J, "queued"), GotoFor(s, step, r),
         UNCHANGED <<committed, invRow, docLock>>,
         \/ Active(run[r]) /\ x = run[r] /\ step = "repair_mirror"
         \/ run[r] \in {"none", "succeeded", "failed"} /\ x = "queued" /\ \A q \in Runs : ~Active(run[q]),
         \A j \in J : \/ run[r] = "none" /\ j[2] \in Created
                      \/ run[r] = "failed" /\ job[j] \in {"failed", "cancelled"}
                      \/ (Active(run[r]) \/ run[r] = "succeeded") /\ j = <<r, s>>,
         Active(run[r]) \/ run[r] = "succeeded" => \A j \in MetadataJobsOf(r) : job[j] = "none",
         step = "create_inventory" => run[r] = "none"
  PROVE  SessionOK(s)'
<1>1. docLock = s /\ HoldsNothing(s)
  BY DEF StatementsConsistent, SessionOK, KnowsItsLocks, DocumentSteps
<1>2. /\ run' = run /\ job' = job /\ inv' = inv /\ docLock' = s
      /\ pc'[s] = step /\ target'[s] = r /\ invLock' # s
      /\ newRun'[r] = x
      /\ \A q \in Runs : runLock'[q] = s <=> q = r
      /\ \A j \in Jobs : jobLock'[j] = s <=> j \in J
      /\ \A j \in J : newJob'[j] = "queued"
  <2>1. J \subseteq Jobs
    BY Slotting
  <2> QED
    BY <1>1, <2>1, WriteOwn, GotoOwn DEF StatementsConsistent, HoldsNothing, committed, invRow
<1>3. step \notin SelectSteps \cup {"idle", "commit"} /\ step \in DocumentSteps /\ step \in BeforeMirror
  BY DEF SelectSteps, WriteSteps, DocumentSteps, BeforeMirror
<1>4. KnowsItsLocks(s)'
  BY <1>2, <1>3 DEF KnowsItsLocks
<1>5. JobTransaction(s)'
  BY <1>2 DEF JobTransaction
<1>6. DocumentTransaction(s)'
  <2>1. HoldsJob(s, r)'
    BY <1>2, Slotting DEF HoldsJob
  <2> QED
    BY <1>2, <2>1, Slotting DEF DocumentTransaction
<1>9. LeavesNoIdleRun(s)'
  BY <1>2 DEF LeavesNoIdleRun
<1>7. SettlesWhatIsDone(s)'
  <2>1. x \in ActiveRunStatuses /\ x # "succeeded" /\ x # "failed"
    BY Statuses DEF Active, ActiveRunStatuses
  <2>2. step # "Succeeded"
    BY DEF WriteSteps
  <2> QED
    BY <1>2, <2>1, <2>2 DEF SettlesWhatIsDone
<1>8. KeepsBadge(s)'
  BY <1>2, <1>3 DEF KeepsBadge
<1> QED
  BY <1>4, <1>5, <1>6, <1>7, <1>8, <1>9 DEF SessionOK

(* A creation finds no active run or inserts the only one. *)
LEMMA CreateInsertSession ==
  ASSUME StatementsConsistent, NEW s \in Sessions, CreateInsert(s)
  PROVE  SessionOK(s)'
<1>1. pc[s] \in SelectSteps /\ UNCHANGED <<committed, invRow, docLock>>
  BY DEF CreateInsert, SelectSteps
<1>2. CASE Goto(s, "commit") /\ UNCHANGED <<runRows, jobRows>>
  BY <1>1, <1>2, SelectedNothing
<1>3. CASE /\ \A q \in Runs : ~Active(run[q])
           /\ \E r \in Runs, S \in (SUBSET Created) \ {{}} :
               /\ run[r] = "none" /\ runLock[r] = NoSession
               /\ WriteRun(s, r, "queued")
               /\ WriteJobs(s, {r} \X S, "queued")
               /\ GotoFor(s, "create_inventory", r)
  <2> PICK r \in Runs, S \in (SUBSET Created) \ {{}} :
               /\ run[r] = "none"
               /\ WriteRun(s, r, "queued")
               /\ WriteJobs(s, {r} \X S, "queued")
               /\ GotoFor(s, "create_inventory", r)
    BY <1>3
  <2>1. {r} \X S \in (SUBSET JobsOf(r)) \ {{}} /\ \A j \in {r} \X S : j[2] \in Created
    <3>1. {r} \X S \in SUBSET JobsOf(r) /\ \A j \in {r} \X S : j[2] \in Created
      BY Slotting DEF JobsOf
    <3>2. PICK k \in S : <<r, k>> \in {r} \X S
      OBVIOUS
    <3> QED
      BY <3>1, <3>2
  <2>2. "create_inventory" \in WriteSteps
    BY DEF WriteSteps
  <2>3. ~(Active(run[r]) \/ run[r] = "succeeded")
    BY Statuses DEF Active
  <2> QED
    BY <1>1, <1>3, <2>1, <2>2, <2>3, SelectedRun
<1> QED
  BY <1>2, <1>3 DEF CreateInsert

(* A backfill keeps an active run or reopens one while none is active. *)
LEMMA BackfillSelectSession ==
  ASSUME StatementsConsistent, NEW s \in Sessions, BackfillSelect(s)
  PROVE  SessionOK(s)'
<1>1. pc[s] \in SelectSteps /\ UNCHANGED <<committed, invRow, docLock>>
  BY DEF BackfillSelect, SelectSteps
<1>2. CASE Goto(s, "commit") /\ UNCHANGED <<runRows, jobRows>>
  BY <1>1, <1>2, SelectedNothing
<1>3. CASE \E r \in BackfillCandidates :
               /\ runLock[r] = NoSession
               /\ WriteRun(s, r, IF run[r] \in RunFrom("MetadataBackfilled")
                                 THEN RunTo("MetadataBackfilled") ELSE run[r])
               /\ WriteJobs(s, {<<r, s>>}, "queued")
               /\ GotoFor(s, "repair_mirror", r)
  <2>0. PICK r \in BackfillCandidates :
               /\ WriteRun(s, r, IF run[r] \in RunFrom("MetadataBackfilled")
                                 THEN RunTo("MetadataBackfilled") ELSE run[r])
               /\ WriteJobs(s, {<<r, s>>}, "queued")
               /\ GotoFor(s, "repair_mirror", r)
    BY <1>3
  <2>1. /\ r \in Runs
        /\ Active(run[r]) \/ run[r] = "succeeded"
        /\ \A j \in MetadataJobsOf(r) : job[j] = "none"
        /\ Active(run[r]) \/ \A q \in Runs : ~Active(run[q])
    BY DEF BackfillCandidates
  <2>2. PICK x : x = IF run[r] = "succeeded" THEN "queued" ELSE run[r]
    OBVIOUS
  <2>3. WriteRun(s, r, x)
    BY <2>0, <2>2, RepairEvents
  <2>4. \/ Active(run[r]) /\ x = run[r] /\ "repair_mirror" = "repair_mirror"
        \/ run[r] \in {"none", "succeeded", "failed"} /\ x = "queued" /\ \A q \in Runs : ~Active(run[q])
    BY <2>1, <2>2, Statuses DEF Active
  <2>5. {<<r, s>>} \in (SUBSET JobsOf(r)) \ {{}} /\ "repair_mirror" \in WriteSteps
    BY <2>1, Slotting DEF WriteSteps
  <2>6. \A j \in {<<r, s>>} : (Active(run[r]) \/ run[r] = "succeeded") /\ j = <<r, s>>
    BY <2>1
  <2> QED
    BY <1>1, <2>0, <2>1, <2>3, <2>4, <2>5, <2>6, SelectedRun
<1> QED
  BY <1>2, <1>3 DEF BackfillSelect

(* A vision requeue reopens a failed run while none is active. *)
LEMMA VisionSelectSession ==
  ASSUME StatementsConsistent, NEW s \in Sessions, VisionSelect(s)
  PROVE  SessionOK(s)'
<1>1. pc[s] \in SelectSteps /\ UNCHANGED <<committed, invRow, docLock>>
  BY DEF VisionSelect, SelectSteps
<1>2. CASE Goto(s, "commit") /\ UNCHANGED <<runRows, jobRows>>
  BY <1>1, <1>2, SelectedNothing
<1>3. CASE \E r \in CrashedRuns :
               LET requeued == {OcrJob(r)} \cup {j \in JobsOf(r) : job[j] = "cancelled"}
               IN  /\ runLock[r] = NoSession /\ \A j \in requeued : jobLock[j] = NoSession
                   /\ WriteRun(s, r, RunTo("VisionCrashRequeued"))
                   /\ WriteJobs(s, requeued, "queued")
                   /\ GotoFor(s, "vision_inventory", r)
  <2>0. PICK r \in CrashedRuns :
               /\ WriteRun(s, r, "queued")
               /\ WriteJobs(s, {OcrJob(r)} \cup {j \in JobsOf(r) : job[j] = "cancelled"}, "queued")
               /\ GotoFor(s, "vision_inventory", r)
    BY <1>3, RepairEvents
  <2>1. /\ r \in Runs /\ run[r] = "failed" /\ job[OcrJob(r)] = "failed"
        /\ \A q \in Runs : ~Active(run[q])
    BY DEF CrashedRuns
  <2>2. PICK J : J = {OcrJob(r)} \cup {j \in JobsOf(r) : job[j] = "cancelled"}
    OBVIOUS
  <2>3. WriteJobs(s, J, "queued")
    BY <2>0, <2>2
  <2>4. J \in (SUBSET JobsOf(r)) \ {{}} /\ \A j \in J : job[j] \in {"failed", "cancelled"}
    BY <2>1, <2>2, Slotting
  <2>5. "vision_inventory" \in WriteSteps
    BY DEF WriteSteps
  <2>6. ~(Active(run[r]) \/ run[r] = "succeeded")
    BY <2>1
  <2> QED
    BY <1>1, <2>0, <2>1, <2>3, <2>4, <2>5, <2>6, SelectedRun
<1> QED
  BY <1>2, <1>3 DEF VisionSelect

(* A statement on the inventory row alone leaves the view of runs and jobs. *)
LEMMA KeptRows ==
  ASSUME NEW s \in Sessions, UNCHANGED <<committed, runRows, jobRows, docLock>>
  PROVE  /\ run' = run /\ job' = job /\ inv' = inv /\ docLock' = docLock
         /\ newRun' = newRun /\ runLock' = runLock /\ newJob' = newJob /\ jobLock' = jobLock
         /\ \A r \in Runs : SeenRun(s, r)' = SeenRun(s, r)
         /\ \A j \in Jobs : SeenJob(s, j)' = SeenJob(s, j)
         /\ \A r \in Runs : HoldsJob(s, r)' = HoldsJob(s, r)
         /\ \A r \in Runs : /\ NoneActive(s, r, Created)' = NoneActive(s, r, Created)
                            /\ NoneActive(s, r, Slots)' = NoneActive(s, r, Slots)
<1>1. /\ run' = run /\ job' = job /\ inv' = inv /\ docLock' = docLock
      /\ newRun' = newRun /\ runLock' = runLock /\ newJob' = newJob /\ jobLock' = jobLock
  BY DEF committed, runRows, jobRows
<1>2. /\ \A r \in Runs : SeenRun(s, r)' = SeenRun(s, r)
      /\ \A j \in Jobs : SeenJob(s, j)' = SeenJob(s, j)
      /\ \A r \in Runs : HoldsJob(s, r)' = HoldsJob(s, r)
  BY <1>1 DEF SeenRun, SeenJob, HoldsJob
<1>3. \A r \in Runs, k \in Slots : SeenJob(s, <<r, k>>)' = SeenJob(s, <<r, k>>)
  BY <1>2, Slotting
<1> QED
  BY <1>1, <1>2, <1>3, Slotting DEF NoneActive

(* What a session that changes neither run nor job rows has to show. *)
LEMMA InventorySession ==
  ASSUME StatementsConsistent, NEW s \in Sessions, NEW y \in Steps, Goto(s, y),
         UNCHANGED <<committed, runRows, jobRows, docLock>>,
         \/ pc[s] \in WriteSteps /\ pc[s] # "vision_inventory" /\ y = "commit"
         \/ pc[s] = "vision_inventory" /\ y = "repair_mirror"
         \/ pc[s] = "mirror" /\ y = "commit"
         \/ pc[s] = "failed_mirror" /\ y = "cancel_siblings"
         \/ pc[s] \in {"stage_succeeded", "stage_failed", "read_remaining"}
               /\ y \in {"read_remaining", "Failed", "StageAdvanced", "Succeeded"},
         y = "Succeeded" => NoneActive(s, target[s], Created),
         y = "StageAdvanced" => \E j \in JobsOf(target[s]) : SeenJob(s, j) \in ActiveJobStatuses,
         KeepsBadge(s)'
  PROVE  SessionOK(s)'
<1>0. /\ KnowsItsLocks(s) /\ JobTransaction(s) /\ DocumentTransaction(s) /\ SettlesWhatIsDone(s)
      /\ pc'[s] = y /\ target'[s] = target[s]
  BY GotoOwn DEF StatementsConsistent, SessionOK
<1>r. pc[s] \in {"vision_inventory", "mirror", "failed_mirror", "stage_succeeded", "stage_failed", "read_remaining"}
        \/ pc[s] \in WriteSteps
  OBVIOUS
<1>s. pc[s] \in JobSteps \/ docLock = s
  BY <1>0, <1>r DEF KnowsItsLocks, WriteSteps, JobSteps, DocumentSteps, SelectSteps, Steps
<1>t. target[s] \in Runs
  BY <1>0, <1>r DEF KnowsItsLocks, JobTransaction, WriteSteps, JobSteps, DocumentSteps, SelectSteps, Steps
<1>1. KnowsItsLocks(s)'
  <2>1. docLock = s => pc[s] \in WriteSteps
    BY <1>0 DEF KnowsItsLocks, WriteSteps, DocumentSteps, SelectSteps
  <2>2. pc[s] \in WriteSteps => docLock = s /\ runLock[target[s]] = s
    BY <1>0 DEF KnowsItsLocks, DocumentSteps
  <2>3. y \notin SelectSteps \cup {"idle", "create_inventory"}
    BY DEF SelectSteps
  <2>4. pc[s] \in WriteSteps => y \in {"repair_mirror", "commit"}
    BY DEF WriteSteps
  <2>5. y \in DocumentSteps => y \in WriteSteps /\ pc[s] \in WriteSteps
    BY DEF WriteSteps, DocumentSteps, SelectSteps
  <2> QED
    BY <1>0, <1>t, <2>1, <2>2, <2>3, <2>4, <2>5, KeptRows DEF KnowsItsLocks, WriteSteps, DocumentSteps
<1>2. JobTransaction(s)'
  <2>1. y \in JobSteps => pc[s] \in JobSteps
    BY DEF JobSteps, WriteSteps, DocumentSteps, SelectSteps, Steps
  <2> QED
    BY <1>0, <2>1, KeptRows, Slotting DEF JobTransaction
<1>3. DocumentTransaction(s)'
  <2>1. docLock = s => y \in {"repair_mirror", "commit"}
    BY <1>0 DEF KnowsItsLocks, WriteSteps, DocumentSteps, SelectSteps
  <2> QED
    BY <1>0, <2>1, KeptRows, Slotting DEF DocumentTransaction
<1>4. SettlesWhatIsDone(s)'
  <2>1. \A r \in Runs : docLock = s /\ runLock[r] = s => newRun[r] # "failed"
    BY <1>0, Statuses DEF DocumentTransaction, Active
  <2>2. pc[s] \in {"failed_mirror", "cancel_siblings"} => y = "cancel_siblings" /\ docLock # s
    BY <1>0 DEF KnowsItsLocks, DocumentSteps, SelectSteps, WriteSteps
  <2> QED
    BY <1>0, <1>t, <2>1, <2>2, KeptRows DEF SettlesWhatIsDone
<1>5. LeavesNoIdleRun(s)'
  <2> SUFFICES ASSUME docLock # s PROVE LeavesNoIdleRun(s)'
    BY KeptRows DEF LeavesNoIdleRun
  <2>0. LeavesNoIdleRun(s)
    BY DEF StatementsConsistent, SessionOK
  <2>1. \A r \in Runs : \A j \in JobsOf(r) : SeenJob(s, j)' = SeenJob(s, j)
    BY KeptRows, Slotting
  <2>2. \A r \in Runs : Active(SeenRun(s, r))' <=> Active(SeenRun(s, r))
    BY KeptRows DEF Active
  <2>3. pc[s] \notin WriteSteps
    BY <1>0 DEF KnowsItsLocks, DocumentSteps
  <2>4. pc[s] \in Unsettled => y \in Unsettled \cup {"StageAdvanced"}
    BY <2>3 DEF Unsettled, WriteSteps
  <2>5. y \in {"failed_mirror", "cancel_siblings"} => pc[s] = "failed_mirror" /\ ~Active(SeenRun(s, target[s]))
    BY <2>0, <2>3 DEF LeavesNoIdleRun, WriteSteps
  <2>6. ASSUME NEW r \in Runs, HoldsJob(s, r)'
        PROVE  \/ \E j \in JobsOf(r) : SeenJob(s, j)' \in ActiveJobStatuses
               \/ ~Active(SeenRun(s, r))'
               \/ target'[s] = r /\ pc'[s] \in Unsettled
    BY <1>0, <2>0, <2>1, <2>2, <2>4, <2>6, KeptRows DEF LeavesNoIdleRun
  <2>7. Active(SeenRun(s, target[s]))' <=> Active(SeenRun(s, target[s]))
    BY <1>0, <1>t, KeptRows DEF Active, SeenRun
  <2> QED
    BY <1>0, <2>5, <2>6, <2>7 DEF LeavesNoIdleRun
<1> QED
  BY <1>1, <1>2, <1>3, <1>4, <1>5 DEF SessionOK

(* The badge a session sees belongs to a run it works on, or is committed. *)
LEMMA SeenInventory ==
  ASSUME StatementsConsistent, NEW s \in Sessions
  PROVE  /\ SeenInv(s).lastRun \in Runs \cup {NoRun}
         /\ \/ SeenInv(s).lastRun = inv.lastRun
            \/ SeenInv(s).lastRun \in Runs /\ docLock # s /\ HoldsJob(s, SeenInv(s).lastRun)
            \/ /\ SeenInv(s).lastRun \in Runs /\ runLock[SeenInv(s).lastRun] = s
               /\ run[SeenInv(s).lastRun] = "none"
         /\ invLock # s => SeenInv(s).lastRun = inv.lastRun
  BY DEF StatementsConsistent, TypeOK, InventoryRow, SessionOK, KeepsBadge, SeenInv

(* The inventory row of a new run. *)
LEMMA CreateInventorySession ==
  ASSUME StatementsConsistent, NEW s \in Sessions, CreateInventory(s)
  PROVE  SessionOK(s)'
<1>0. /\ pc[s] = "create_inventory" /\ Goto(s, "commit")
      /\ UNCHANGED <<committed, runRows, jobRows, docLock>>
      /\ invLock' = s /\ newInv' = [lastRun |-> target[s], status |-> "queued"]
  BY DEF CreateInventory, WriteInv
<1>1. /\ target[s] \in Runs /\ runLock[target[s]] = s /\ run[target[s]] = "none" /\ docLock = s
  BY <1>0 DEF StatementsConsistent, SessionOK, KnowsItsLocks, WriteSteps, DocumentSteps
<1>2. newRun[target[s]] = "queued"
  BY <1>0, <1>1, Statuses DEF StatementsConsistent, SessionOK, DocumentTransaction, Active
<1>3. KeepsBadge(s)'
  <2>1. newInv'.lastRun = target[s] /\ newInv'.status = "queued"
    BY <1>0
  <2>2. pc'[s] = "commit" /\ target'[s] = target[s]
    BY <1>0, GotoOwn DEF StatementsConsistent
  <2>3. SeenRun(s, target[s]) = "queued" /\ target[s] # NoRun
    BY <1>1, <1>2, NoRunAssumption DEF SeenRun
  <2>4. SeenRun(s, newInv.lastRun)' = "queued"
    BY <1>0, <1>1, <2>1, <2>3, KeptRows DEF SeenRun
  <2> QED
    BY <1>0, <1>1, <2>1, <2>2, <2>3, <2>4, KeptRows DEF KeepsBadge
<1> QED
  BY <1>0, <1>3, InventorySession DEF WriteSteps, Steps

(* The vision requeue may lock the inventory row. *)
LEMMA VisionInventorySession ==
  ASSUME StatementsConsistent, NEW s \in Sessions, VisionInventory(s)
  PROVE  SessionOK(s)'
<1>0. /\ pc[s] = "vision_inventory" /\ Goto(s, "repair_mirror")
      /\ UNCHANGED <<committed, runRows, jobRows, docLock>>
      /\ (invLock' = s /\ newInv' = SeenInv(s)) \/ (invLock' = invLock /\ newInv' = newInv)
  BY DEF VisionInventory, WriteInv, invRow
<1>1. target[s] \in Runs /\ runLock[target[s]] = s /\ docLock = s
  BY <1>0 DEF StatementsConsistent, SessionOK, KnowsItsLocks, WriteSteps, DocumentSteps
<1>2. pc'[s] = "repair_mirror" /\ target'[s] = target[s]
  BY <1>0, GotoOwn DEF StatementsConsistent
<1>3. KeepsBadge(s) /\ DocumentTransaction(s)
  BY DEF StatementsConsistent, SessionOK
<1>4. KeepsBadge(s)'
  <2>1. ASSUME invLock' = s
        PROVE  /\ \/ newInv'.lastRun = inv'.lastRun
                  \/ newInv'.lastRun \in Runs /\ docLock' # s /\ HoldsJob(s, newInv.lastRun)'
                  \/ newInv'.lastRun \in Runs /\ runLock'[newInv'.lastRun] = s /\ run'[newInv'.lastRun] = "none"
               /\ newInv'.lastRun # target'[s] =>
                     newInv'.status = IF newInv'.lastRun = NoRun THEN "none" ELSE SeenRun(s, newInv.lastRun)'
    <3>1. newInv' = SeenInv(s)
      BY <1>0, <2>1 DEF SeenInv
    <3>2. SeenInv(s).lastRun # target[s] =>
             SeenInv(s).status = IF SeenInv(s).lastRun = NoRun THEN "none" ELSE SeenRun(s, SeenInv(s).lastRun)
      <4>1. CASE invLock = s
        BY <4>1, <1>3 DEF KeepsBadge, SeenInv
      <4>2. CASE invLock # s
        <5>1. SeenInv(s) = inv
          BY <4>2 DEF SeenInv
        <5>2. inv.lastRun \in Runs => (runLock[inv.lastRun] = s => target[s] = inv.lastRun)
          BY <1>1, <1>3 DEF DocumentTransaction
        <5>3. inv.lastRun \in Runs /\ inv.lastRun # target[s] => SeenRun(s, inv.lastRun) = run[inv.lastRun]
          BY <5>2 DEF SeenRun
        <5> QED
          BY <5>1, <5>3, SeenInventory DEF StatementsConsistent, CommittedOK, BadgeFollowsRun
      <4> QED
        BY <4>1, <4>2
    <3>3. SeenInv(s).lastRun \in Runs =>
             /\ SeenRun(s, newInv.lastRun)' = SeenRun(s, SeenInv(s).lastRun)
             /\ HoldsJob(s, newInv.lastRun)' <=> HoldsJob(s, SeenInv(s).lastRun)
      BY <1>0, <3>1, KeptRows DEF SeenRun, HoldsJob
    <3> QED
      BY <1>0, <1>2, <3>1, <3>2, <3>3, SeenInventory, KeptRows, NoRunAssumption
  <2>2. "repair_mirror" \in BadgeOpen /\ "repair_mirror" \in BeforeMirror /\ "vision_inventory" \in BeforeMirror
    BY DEF BadgeOpen, BeforeMirror
  <2>3. \A r \in Runs :
          /\ runLock'[r] = s /\ newRun'[r] # run'[r] /\ inv'.lastRun = r
          /\ ~(target'[s] = r /\ pc'[s] \in BeforeMirror)
          => invLock' = s
    BY <1>0, <1>2, <1>3, <2>2, KeptRows DEF KeepsBadge
  <2> QED
    BY <1>2, <2>1, <2>2, <2>3 DEF KeepsBadge
<1> QED
  BY <1>0, <1>4, InventorySession DEF WriteSteps, Steps

(* The read of the remaining jobs decides what stays true of the created ones. *)
LEMMA ReadRemainingSession ==
  ASSUME StatementsConsistent, NEW s \in Sessions, ReadRemaining(s)
  PROVE  SessionOK(s)'
<1>0. /\ pc[s] = "read_remaining" /\ UNCHANGED <<committed, runRows, jobRows, invRow, docLock>>
  BY DEF ReadRemaining
<1>1. PICK y \in {"StageAdvanced", "Succeeded"} :
        /\ Goto(s, y)
        /\ y = "Succeeded" => \A j \in JobsOf(target[s]) : SeenJob(s, j) \notin ActiveJobStatuses
        /\ y = "StageAdvanced" => \E j \in JobsOf(target[s]) : SeenJob(s, j) \in ActiveJobStatuses
  BY DEF ReadRemaining
<1>2. target[s] \in Runs
  BY <1>0, JobTarget DEF JobSteps, Steps, DocumentSteps, SelectSteps, WriteSteps
<1>3. y = "Succeeded" => NoneActive(s, target[s], Created)
  BY <1>1, <1>2, Slotting DEF NoneActive
<1>4. pc'[s] = y /\ target'[s] = target[s]
  BY <1>1, GotoOwn DEF StatementsConsistent
<1>5. KeepsBadge(s)'
  <2>1. KeepsBadge(s)
    BY DEF StatementsConsistent, SessionOK
  <2>2. invLock' = invLock /\ newInv' = newInv
    BY <1>0 DEF invRow
  <2>3. newInv.lastRun \in Runs \cup {NoRun}
    BY DEF StatementsConsistent, TypeOK, InventoryRow
  <2>4. newInv.lastRun \in Runs =>
             /\ SeenRun(s, newInv.lastRun)' = SeenRun(s, newInv.lastRun)
             /\ HoldsJob(s, newInv.lastRun)' <=> HoldsJob(s, newInv.lastRun)
    BY <1>0, <2>2, KeptRows DEF SeenRun, HoldsJob
  <2>5. {"read_remaining", "StageAdvanced", "Succeeded"} \subseteq BadgeOpen \ BeforeMirror
    BY DEF BadgeOpen, BeforeMirror
  <2> QED
    BY <1>0, <1>4, <2>1, <2>2, <2>3, <2>4, <2>5, KeptRows, NoRunAssumption DEF KeepsBadge
<1> QED
  BY <1>0, <1>1, <1>3, <1>5, InventorySession DEF Steps

(* The inventory row points at the run whose stage ended. *)
LEMMA StageStatusSession ==
  ASSUME StatementsConsistent, NEW s \in Sessions, StageStatus(s)
  PROVE  SessionOK(s)'
<1>0. /\ pc[s] \in {"stage_succeeded", "stage_failed"} /\ UNCHANGED <<committed, runRows, jobRows, docLock>>
  BY DEF StageStatus
<1>1. PICK y \in {"read_remaining", "Failed"} : Goto(s, y)
  BY DEF StageStatus
<1>2. docLock # s /\ target[s] \in Runs /\ HoldsJob(s, target[s])
  BY <1>0, JobTarget DEF JobSteps, Steps, DocumentSteps, SelectSteps, WriteSteps
<1>3. pc'[s] = y /\ target'[s] = target[s]
  BY <1>1, GotoOwn DEF StatementsConsistent
<1>4. invLock' = s /\ newInv'.lastRun = target[s]
  <2>1. SeenInv(s) \in InventoryRow
    BY SeenTypes DEF StatementsConsistent
  <2>2. [SeenInv(s) EXCEPT !.lastRun = target[s]].lastRun = target[s]
    BY <2>1 DEF InventoryRow
  <2>3. [lastRun |-> target[s], status |-> "failed"].lastRun = target[s]
    OBVIOUS
  <2>4. \/ WriteInv(s, [SeenInv(s) EXCEPT !.lastRun = target[s]])
        \/ WriteInv(s, [lastRun |-> target[s], status |-> "failed"])
    BY DEF StageStatus
  <2>5. CASE WriteInv(s, [SeenInv(s) EXCEPT !.lastRun = target[s]])
    BY <2>2, <2>5 DEF WriteInv
  <2>6. CASE WriteInv(s, [lastRun |-> target[s], status |-> "failed"])
    BY <2>3, <2>6 DEF WriteInv
  <2> QED
    BY <2>4, <2>5, <2>6
<1>5. KeepsBadge(s)'
  <2>1. HoldsJob(s, newInv.lastRun)'
    BY <1>0, <1>2, <1>4, KeptRows DEF HoldsJob
  <2>2. y \in BadgeOpen
    BY DEF BadgeOpen
  <2> QED
    BY <1>0, <1>2, <1>3, <1>4, <2>1, <2>2, KeptRows DEF KeepsBadge
<1> QED
  BY <1>0, <1>1, <1>5, InventorySession DEF Steps

(* After its mirror a session owes the badge nothing. *)
LEMMA MirrorStepSession ==
  ASSUME StatementsConsistent, NEW s \in Sessions, MirrorStep(s)
  PROVE  SessionOK(s)'
<1>0. /\ UNCHANGED <<committed, runRows, jobRows, docLock>> /\ Mirror(s)
  BY DEF MirrorStep
<1>1. PICK y \in {"commit", "cancel_siblings"} :
        /\ Goto(s, y)
        /\ \/ pc[s] \in {"mirror", "repair_mirror"} /\ y = "commit"
           \/ pc[s] = "failed_mirror" /\ y = "cancel_siblings"
  BY DEF MirrorStep
<1>2. target[s] \in Runs /\ target[s] # NoRun
  BY <1>1, NoRunAssumption DEF StatementsConsistent, SessionOK, KnowsItsLocks, JobTransaction, WriteSteps,
     DocumentSteps, SelectSteps, JobSteps, Steps
<1>3. pc'[s] = y /\ target'[s] = target[s]
  BY <1>1, GotoOwn DEF StatementsConsistent
<1>4. KeepsBadge(s)
  BY DEF StatementsConsistent, SessionOK
<1>5. {"mirror", "repair_mirror", "failed_mirror"} \subseteq BeforeMirror /\ y \notin BeforeMirror /\ y \notin BadgeOpen
  BY DEF BeforeMirror, BadgeOpen
<1>6. KeepsBadge(s)'
  <2>1. CASE SeenInv(s).lastRun = target[s]
    <3>1. invLock' = s /\ newInv' = [SeenInv(s) EXCEPT !.status = SeenRun(s, target[s])]
      BY <1>0, <2>1 DEF Mirror, WriteInv
    <3>2. SeenInv(s) \in InventoryRow
      BY SeenTypes DEF StatementsConsistent
    <3>3. newInv'.lastRun = target[s] /\ newInv'.status = SeenRun(s, target[s])
      BY <2>1, <3>1, <3>2 DEF InventoryRow
    <3>4. /\ SeenRun(s, newInv.lastRun)' = SeenRun(s, target[s])
          /\ HoldsJob(s, newInv.lastRun)' <=> HoldsJob(s, target[s])
      BY <1>0, <1>2, <3>3, KeptRows DEF SeenRun, HoldsJob
    <3> QED
      BY <1>0, <1>2, <1>3, <2>1, <3>1, <3>3, <3>4, SeenInventory, KeptRows DEF KeepsBadge
  <2>2. CASE SeenInv(s).lastRun # target[s]
    <3>1. invLock' = invLock /\ newInv' = newInv
      BY <1>0, <2>2 DEF Mirror, invRow
    <3>2. newInv.lastRun \in Runs \cup {NoRun}
      BY DEF StatementsConsistent, TypeOK, InventoryRow
    <3>3. newInv.lastRun \in Runs =>
             /\ SeenRun(s, newInv.lastRun)' = SeenRun(s, newInv.lastRun)
             /\ HoldsJob(s, newInv.lastRun)' <=> HoldsJob(s, newInv.lastRun)
      BY <1>0, <3>1, KeptRows DEF SeenRun, HoldsJob
    <3>4. invLock = s => newInv.lastRun # target[s]
      BY <2>2 DEF SeenInv
    <3>5. inv.lastRun = target[s] => invLock = s
      BY <2>2 DEF SeenInv
    <3> QED
      BY <1>0, <1>1, <1>3, <1>4, <1>5, <3>1, <3>2, <3>3, <3>4, <3>5, KeptRows, NoRunAssumption DEF KeepsBadge
  <2> QED
    BY <2>1, <2>2
<1> QED
  BY <1>0, <1>1, <1>6, InventorySession DEF Steps, WriteSteps

(* A session that begins a transaction holds nothing. *)
LEMMA BeginsWithNothing ==
  ASSUME StatementsConsistent, NEW s \in Sessions, pc[s] = "idle"
  PROVE  HoldsNothing(s) /\ docLock # s
  BY DEF StatementsConsistent, SessionOK, KnowsItsLocks, DocumentSteps, SelectSteps, WriteSteps

(* What a session without the document lock that locks jobs has to show.  *)
LEMMA JobsTaken ==
  ASSUME StatementsConsistent, NEW s \in Sessions, docLock # s,
         NEW J \in SUBSET Jobs, NEW x, NEW step \in JobSteps \cup {"commit"},
         WriteJobs(s, J, x), pc'[s] = step, UNCHANGED <<committed, runRows, invRow, docLock>>,
         step \in JobSteps => target'[s] \in Runs /\ HoldsJob(s, target[s])',
         \A j \in J : job[j] \in ActiveJobStatuses,
         \A r \in Runs : \A j \in MetadataJobsOf(r) : j \in J =>
            /\ job[OcrJob(r)] \in ActiveJobStatuses => jobLock'[OcrJob(r)] = s
            /\ x = "running" => SeenJob(s, OcrJob(r)) \notin ActiveJobStatuses,
         \A r \in Runs : OcrJob(r) \in J => SeenJob(s, OcrJob(r)) \in ActiveJobStatuses
  PROVE  /\ KnowsItsLocks(s)' /\ JobTransaction(s)' /\ DocumentTransaction(s)'
         /\ \A r \in Runs : HoldsJob(s, r) => HoldsJob(s, r)'
<1>0. KnowsItsLocks(s) /\ JobTransaction(s)
  BY DEF StatementsConsistent, SessionOK
<1>1. /\ run' = run /\ job' = job /\ inv' = inv /\ docLock' = docLock
      /\ newRun' = newRun /\ runLock' = runLock
      /\ \A j \in J : newJob'[j] = x /\ jobLock'[j] = s
      /\ \A j \in Jobs \ J : newJob'[j] = newJob[j] /\ jobLock'[j] = jobLock[j]
  BY WriteOwn DEF StatementsConsistent, committed, runRows
<1>2. \A r \in Runs : HoldsJob(s, r) => HoldsJob(s, r)'
  BY <1>1, Slotting DEF HoldsJob
<1>3. KnowsItsLocks(s)'
  BY <1>1, <1>0 DEF KnowsItsLocks, JobSteps, DocumentSteps, SelectSteps, WriteSteps
<1>4. \A r \in Runs : \A j \in MetadataJobsOf(r) : jobLock'[j] = s =>
          /\ job'[OcrJob(r)] \in ActiveJobStatuses => jobLock'[OcrJob(r)] = s
          /\ newJob'[j] = "running" => SeenJob(s, OcrJob(r))' \notin ActiveJobStatuses
  <2> TAKE r \in Runs
  <2> TAKE j \in MetadataJobsOf(r)
  <2> HAVE jobLock'[j] = s
  <2>0. j \in Jobs /\ OcrJob(r) \in Jobs /\ j # OcrJob(r)
    BY Slotting
  <2>1. job[OcrJob(r)] \in ActiveJobStatuses => jobLock'[OcrJob(r)] = s
    BY <1>0, <1>1, <2>0 DEF JobTransaction
  <2>2. ASSUME newJob'[j] = "running"
        PROVE  SeenJob(s, OcrJob(r)) \notin ActiveJobStatuses
    BY <1>0, <1>1, <2>0, <2>2 DEF JobTransaction
  <2>3. ASSUME newJob'[j] = "running"
        PROVE  OcrJob(r) \notin J
    BY <2>2, <2>3
  <2>4. newJob'[j] = "running" => SeenJob(s, OcrJob(r))' = SeenJob(s, OcrJob(r))
    BY <1>1, <2>0, <2>3 DEF SeenJob
  <2> QED
    BY <1>1, <2>1, <2>2, <2>4
<1>5. JobTransaction(s)'
  <2>1. \A j \in Jobs : jobLock'[j] = s => job'[j] \in ActiveJobStatuses
    BY <1>0, <1>1 DEF JobTransaction
  <2>2. \A r \in Runs : runLock'[r] = s => Active(run[r])' /\ HoldsJob(s, r)'
    BY <1>0, <1>1, <1>2 DEF JobTransaction, Active
  <2> QED
    BY <1>1, <1>4, <2>1, <2>2 DEF JobTransaction
<1>6. DocumentTransaction(s)'
  BY <1>1 DEF DocumentTransaction
<1> QED
  BY <1>2, <1>3, <1>5, <1>6

(* A statement that leaves runs and inventory alone leaves the badge. *)
LEMMA KeptBadge ==
  ASSUME StatementsConsistent, NEW s \in Sessions, UNCHANGED <<committed, runRows, invRow, docLock>>,
         \A r \in Runs : HoldsJob(s, r) => HoldsJob(s, r)',
         pc[s] \notin BadgeOpen, pc'[s] \notin BadgeOpen
  PROVE  KeepsBadge(s)'
<1>0. KeepsBadge(s)
  BY DEF StatementsConsistent, SessionOK
<1>1. /\ run' = run /\ inv' = inv /\ docLock' = docLock
      /\ newRun' = newRun /\ runLock' = runLock /\ newInv' = newInv /\ invLock' = invLock
  BY DEF committed, runRows, invRow
<1>2. newInv.lastRun \in Runs \cup {NoRun}
  BY DEF StatementsConsistent, TypeOK, InventoryRow
<1>3. newInv.lastRun \in Runs =>
             /\ SeenRun(s, newInv.lastRun)' = SeenRun(s, newInv.lastRun)
             /\ HoldsJob(s, newInv.lastRun) => HoldsJob(s, newInv.lastRun)'
  BY <1>1 DEF SeenRun, HoldsJob
<1>4. pc[s] \notin BeforeMirror /\ pc'[s] \notin BeforeMirror
  BY DEF BadgeOpen
<1> QED
  BY <1>0, <1>1, <1>2, <1>3, <1>4, NoRunAssumption DEF KeepsBadge

(* The end of a job is its own, whatever becomes of the run. *)
LEMMA EndJobSession ==
  ASSUME StatementsConsistent, NEW s \in Sessions,
         NEW x \in {"succeeded", "queued", "failed"},
         NEW step \in {"stage_succeeded", "commit", "stage_failed", "LeaseReleased"}, EndJob(s, x, step),
         step \in {"commit", "LeaseReleased"} => x = "queued"
  PROVE  SessionOK(s)'
<1>0. pc[s] = "idle" /\ UNCHANGED <<committed, runRows, invRow, docLock>>
  BY DEF EndJob
<1>1. PICK j \in Jobs : /\ job[j] = "running" /\ jobLock[j] = NoSession
                        /\ WriteJobs(s, {j}, x) /\ GotoFor(s, step, j[1])
  BY DEF EndJob
<1>2. HoldsNothing(s) /\ docLock # s
  BY <1>0, BeginsWithNothing
<1>3. pc'[s] = step /\ target'[s] = j[1]
  BY <1>1, GotoOwn DEF StatementsConsistent
<1>4. /\ run' = run /\ job' = job /\ inv' = inv /\ docLock' = docLock
      /\ newRun' = newRun /\ runLock' = runLock
      /\ newJob'[j] = x /\ jobLock'[j] = s
      /\ \A k \in Jobs \ {j} : newJob'[k] = newJob[k] /\ jobLock'[k] = jobLock[k]
  BY <1>0, <1>1, WriteOwn DEF StatementsConsistent, committed, runRows
<1>5. KnowsItsLocks(s)' /\ JobTransaction(s)' /\ DocumentTransaction(s)'
      /\ \A r \in Runs : HoldsJob(s, r) => HoldsJob(s, r)'
  <2>1. step \in JobSteps \cup {"commit"}
    BY DEF JobSteps, Steps, DocumentSteps, SelectSteps, WriteSteps
  <2>2. target'[s] \in Runs /\ HoldsJob(s, target[s])'
    BY <1>3, <1>4, Slotting DEF HoldsJob
  <2>3. \A k \in {j} : job[k] \in ActiveJobStatuses
    BY <1>1, Statuses
  <2>4. \A r \in Runs : \A k \in MetadataJobsOf(r) : k \in {j} =>
            /\ job[OcrJob(r)] \in ActiveJobStatuses => jobLock'[OcrJob(r)] = s
            /\ x = "running" => SeenJob(s, OcrJob(r)) \notin ActiveJobStatuses
    BY <1>1 DEF StatementsConsistent, CommittedOK, StageOrder
  <2>5. \A r \in Runs : OcrJob(r) \in {j} => SeenJob(s, OcrJob(r)) \in ActiveJobStatuses
    BY <1>1, NoSessionAssumption, Statuses DEF SeenJob
  <2>6. {j} \in SUBSET Jobs
    OBVIOUS
  <2> QED
    BY <1>0, <1>1, <1>2, <1>3, <2>1, <2>2, <2>3, <2>4, <2>5, <2>6, JobsTaken
<1>6. SettlesWhatIsDone(s)'
  <2>1. step # "Succeeded"
    OBVIOUS
  <2>2. \A k \in Jobs : jobLock'[k] = s => k = j
    BY <1>2, <1>4 DEF HoldsNothing
  <2> QED
    BY <1>1, <1>2, <1>3, <1>4, <2>1, <2>2, Statuses DEF SettlesWhatIsDone, HoldsNothing
<1>7. KeepsBadge(s)'
  <2>1. pc[s] \notin BadgeOpen /\ pc'[s] \notin BadgeOpen
    BY <1>0, <1>3 DEF BadgeOpen, BeforeMirror
  <2> QED
    BY <1>0, <1>5, <2>1, KeptBadge
<1>8. LeavesNoIdleRun(s)'
  <2>1. \A r \in Runs : HoldsJob(s, r)' => r = j[1]
    BY <1>2, <1>4, Slotting DEF HoldsJob, HoldsNothing
  <2>2. step \in Unsettled \/ SeenJob(s, j)' \in ActiveJobStatuses
    <3>1. step \in {"stage_succeeded", "stage_failed"} \/ x = "queued"
      OBVIOUS
    <3>2. SeenJob(s, j)' = x
      BY <1>4 DEF SeenJob
    <3> QED
      BY <3>1, <3>2, Statuses DEF Unsettled
  <2>3. step \notin {"failed_mirror", "cancel_siblings"} /\ j \in JobsOf(j[1])
    BY Slotting
  <2> QED
    BY <1>3, <2>1, <2>2, <2>3 DEF LeavesNoIdleRun
<1> QED
  BY <1>5, <1>6, <1>7, <1>8 DEF SessionOK

(* A claim takes an active job whose earlier stage is resolved. *)
LEMMA ClaimJobSession ==
  ASSUME StatementsConsistent, NEW s \in Sessions, ClaimJob(s)
  PROVE  SessionOK(s)'
<1>0. pc[s] \in {"idle", "failed"} /\ UNCHANGED <<committed, runRows, invRow, docLock>>
  BY DEF ClaimJob
<1>1. PICK j \in Jobs : /\ SeenJob(s, j) \in {"queued", "running"} /\ jobLock[j] = NoSession
                        /\ EarlierStagesResolved(s, j)
                        /\ WriteJobs(s, {j}, "running") /\ GotoFor(s, "claim_run", j[1])
  BY DEF ClaimJob
<1>2. docLock # s
  BY <1>0, BeginsWithNothing, JobTarget DEF JobSteps, Steps, DocumentSteps, SelectSteps, WriteSteps
<1>3. pc'[s] = "claim_run" /\ target'[s] = j[1]
  BY <1>1, GotoOwn DEF StatementsConsistent
<1>4. /\ run' = run /\ job' = job /\ inv' = inv /\ docLock' = docLock
      /\ newRun' = newRun /\ runLock' = runLock
      /\ newJob'[j] = "running" /\ jobLock'[j] = s
      /\ \A k \in Jobs \ {j} : newJob'[k] = newJob[k] /\ jobLock'[k] = jobLock[k]
  BY <1>0, <1>1, WriteOwn DEF StatementsConsistent, committed, runRows
<1>5. job[j] \in {"queued", "running"} /\ SeenJob(s, j) \in ActiveJobStatuses /\ job[j] \in ActiveJobStatuses
  BY <1>1, NoSessionAssumption, Statuses DEF SeenJob
<1>6. KnowsItsLocks(s)' /\ JobTransaction(s)' /\ DocumentTransaction(s)'
      /\ \A r \in Runs : HoldsJob(s, r) => HoldsJob(s, r)'
  <2>1. "claim_run" \in JobSteps \cup {"commit"}
    BY DEF JobSteps, Steps, DocumentSteps, SelectSteps, WriteSteps
  <2>2. target'[s] \in Runs /\ HoldsJob(s, target[s])'
    BY <1>3, <1>4, Slotting DEF HoldsJob
  <2>4. \A r \in Runs : \A k \in MetadataJobsOf(r) : k \in {j} =>
            /\ job[OcrJob(r)] \in ActiveJobStatuses => jobLock'[OcrJob(r)] = s
            /\ "running" = "running" => SeenJob(s, OcrJob(r)) \notin ActiveJobStatuses
    <3> TAKE r \in Runs
    <3> TAKE k \in MetadataJobsOf(r)
    <3> HAVE k \in {j}
    <3>1. j[1] = r /\ j # OcrJob(r) /\ OcrJob(r) \in Jobs
      BY Slotting
    <3>2. SeenJob(s, OcrJob(r)) \notin ActiveJobStatuses
      BY <1>1, <3>1 DEF EarlierStagesResolved
    <3>3. job[OcrJob(r)] \in ActiveJobStatuses => jobLock[OcrJob(r)] = s
      BY <3>2 DEF SeenJob
    <3> QED
      BY <1>4, <3>1, <3>2, <3>3
  <2>5. \A r \in Runs : OcrJob(r) \in {j} => SeenJob(s, OcrJob(r)) \in ActiveJobStatuses
    BY <1>5
  <2>6. {j} \in SUBSET Jobs /\ \A k \in {j} : job[k] \in ActiveJobStatuses
    BY <1>5
  <2> QED
    BY <1>0, <1>1, <1>2, <1>3, <2>1, <2>2, <2>4, <2>5, <2>6, JobsTaken
<1>7. SettlesWhatIsDone(s)'
  <2>0. SettlesWhatIsDone(s)
    BY DEF StatementsConsistent, SessionOK
  <2>1. \A r \in Runs : /\ NoneActive(s, r, Created) => NoneActive(s, r, Created)'
                        /\ NoneActive(s, r, Slots) => NoneActive(s, r, Slots)'
    <3> TAKE r \in Runs
    <3>1. \A k \in Slots : <<r, k>> # j => SeenJob(s, <<r, k>>)' = SeenJob(s, <<r, k>>)
      BY <1>4, Slotting DEF SeenJob
    <3> QED
      BY <1>5, <3>1, Slotting DEF NoneActive
  <2>2. \A k \in Jobs : jobLock'[k] = s /\ newJob'[k] \in ActiveJobStatuses => job'[k] \in ActiveJobStatuses
    BY <1>2, <1>4, <1>5, <2>0 DEF SettlesWhatIsDone
  <2>3. pc[s] \notin {"failed_mirror", "cancel_siblings"}
    BY <1>0
  <2> QED
    BY <1>3, <1>4, <2>0, <2>1, <2>2, <2>3 DEF SettlesWhatIsDone
<1>8. KeepsBadge(s)'
  <2>1. pc[s] \notin BadgeOpen /\ pc'[s] \notin BadgeOpen
    BY <1>0, <1>3 DEF BadgeOpen, BeforeMirror
  <2> QED
    BY <1>0, <1>6, <2>1, KeptBadge
<1>9. LeavesNoIdleRun(s)'
  <2>0. LeavesNoIdleRun(s)
    BY DEF StatementsConsistent, SessionOK
  <2>1. \A k \in Jobs : SeenJob(s, k)' = IF k = j THEN "running" ELSE SeenJob(s, k)
    BY <1>4 DEF SeenJob
  <2>2. \A r \in Runs : SeenRun(s, r)' = SeenRun(s, r)
    BY <1>4 DEF SeenRun
  <2>3. \A r \in Runs : HoldsJob(s, r)' => HoldsJob(s, r) \/ j \in JobsOf(r)
    BY <1>4, Slotting DEF HoldsJob
  <2>4. pc[s] \notin Unsettled
    BY <1>0 DEF Unsettled
  <2>5. ASSUME NEW r \in Runs, HoldsJob(s, r)'
        PROVE  (\E k \in JobsOf(r) : SeenJob(s, k)' \in ActiveJobStatuses) \/ ~Active(SeenRun(s, r))'
    <3>1. CASE j \in JobsOf(r)
      BY <2>1, <3>1, Statuses
    <3>2. CASE j \notin JobsOf(r)
      BY <1>2, <2>0, <2>1, <2>2, <2>3, <2>4, <2>5, <3>2, Slotting DEF LeavesNoIdleRun, Active
    <3> QED
      BY <3>1, <3>2
  <2> QED
    BY <1>3, <2>5 DEF LeavesNoIdleRun
<1> QED
  BY <1>6, <1>7, <1>8, <1>9 DEF SessionOK

(* After the siblings are cancelled no job of the failed run is active. *)
LEMMA CancelSiblingsSession ==
  ASSUME StatementsConsistent, NEW s \in Sessions, CancelSiblings(s)
  PROVE  SessionOK(s)'
<1>0. pc[s] = "cancel_siblings" /\ UNCHANGED <<committed, runRows, invRow, docLock>> /\ Goto(s, "failed")
  BY DEF CancelSiblings
<1>2. docLock # s /\ target[s] \in Runs /\ HoldsJob(s, target[s])
  BY <1>0, JobTarget DEF JobSteps, Steps, DocumentSteps, SelectSteps, WriteSteps
<1>1. PICK J \in SUBSET Jobs :
        /\ \A j \in Jobs : j \in J <=> j \in JobsOf(target[s]) /\ SeenJob(s, j) \in ActiveJobStatuses
        /\ WriteJobs(s, J, "cancelled")
  <2>1. {j \in JobsOf(target[s]) : SeenJob(s, j) \in ActiveJobStatuses} \in SUBSET Jobs
    BY <1>2, Slotting
  <2> QED
    BY <2>1 DEF CancelSiblings
<1>3. pc'[s] = "failed" /\ target'[s] = target[s]
  BY <1>0, GotoOwn DEF StatementsConsistent
<1>4. /\ run' = run /\ job' = job /\ inv' = inv /\ docLock' = docLock
      /\ newRun' = newRun /\ runLock' = runLock
      /\ \A k \in J : newJob'[k] = "cancelled" /\ jobLock'[k] = s
      /\ \A k \in Jobs \ J : newJob'[k] = newJob[k] /\ jobLock'[k] = jobLock[k]
  BY <1>0, <1>1, WriteOwn DEF StatementsConsistent, committed, runRows
<1>5. JobTransaction(s) /\ SettlesWhatIsDone(s)
  BY DEF StatementsConsistent, SessionOK
<1>6. KnowsItsLocks(s)' /\ JobTransaction(s)' /\ DocumentTransaction(s)'
      /\ \A r \in Runs : HoldsJob(s, r) => HoldsJob(s, r)'
  <2>1. "failed" \in JobSteps \cup {"commit"}
    BY DEF JobSteps, Steps, DocumentSteps, SelectSteps, WriteSteps
  <2>2. target'[s] \in Runs /\ HoldsJob(s, target[s])'
    <3>1. PICK k \in JobsOf(target[s]) : jobLock[k] = s
      BY <1>2 DEF HoldsJob
    <3>2. jobLock'[k] = s
      BY <1>2, <1>4, <3>1, Slotting
    <3> QED
      BY <1>2, <1>3, <3>1, <3>2 DEF HoldsJob
  <2>3. \A k \in J : job[k] \in ActiveJobStatuses
    BY <1>1, <1>2, <1>5 DEF JobTransaction, SeenJob
  <2>4. \A r \in Runs : \A k \in MetadataJobsOf(r) : k \in J =>
            /\ job[OcrJob(r)] \in ActiveJobStatuses => jobLock'[OcrJob(r)] = s
            /\ "cancelled" = "running" => SeenJob(s, OcrJob(r)) \notin ActiveJobStatuses
    <3> TAKE r \in Runs
    <3> TAKE k \in MetadataJobsOf(r)
    <3> HAVE k \in J
    <3>1. r = target[s] /\ OcrJob(r) \in Jobs /\ OcrJob(r) \in JobsOf(r)
      BY <1>1, <1>2, Slotting
    <3>2. job[OcrJob(r)] \in ActiveJobStatuses => jobLock[OcrJob(r)] = s \/ OcrJob(r) \in J
      BY <1>1, <3>1 DEF SeenJob
    <3> QED
      BY <1>4, <3>1, <3>2
  <2>5. \A r \in Runs : OcrJob(r) \in J => SeenJob(s, OcrJob(r)) \in ActiveJobStatuses
    BY <1>1
  <2> QED
    BY <1>0, <1>1, <1>2, <1>3, <2>1, <2>2, <2>3, <2>4, <2>5, JobsTaken
<1>7. SettlesWhatIsDone(s)'
  <2>1. \A k \in Jobs : SeenJob(s, k)' \in ActiveJobStatuses => SeenJob(s, k) \in ActiveJobStatuses /\ k \notin J
    BY <1>4, Statuses DEF SeenJob
  <2>2. \A r \in Runs : /\ NoneActive(s, r, Created) => NoneActive(s, r, Created)'
                        /\ NoneActive(s, r, Slots) => NoneActive(s, r, Slots)'
    BY <2>1, Slotting DEF NoneActive
  <2>3. NoneActive(s, target[s], Slots)'
    <3>1. PICK r \in Runs : r = target[s]
      BY <1>2
    <3>2. \A k \in Slots : <<r, k>> \in Jobs /\ <<r, k>> \in JobsOf(r)
      BY Slotting
    <3>3. \A k \in Slots : SeenJob(s, <<r, k>>)' \notin ActiveJobStatuses
      BY <1>1, <2>1, <3>1, <3>2
    <3>4. target'[s] = r
      BY <1>3, <3>1
    <3> QED
      BY <3>3, <3>4 DEF NoneActive, SeenJob
  <2>4. \A k \in Jobs : jobLock'[k] = s /\ newJob'[k] \in ActiveJobStatuses => job'[k] \in ActiveJobStatuses
    BY <1>2, <1>4, <1>5, Statuses DEF SettlesWhatIsDone
  <2> QED
    BY <1>3, <1>4, <1>5, <2>2, <2>3, <2>4 DEF SettlesWhatIsDone
<1>8. KeepsBadge(s)'
  <2>1. pc[s] \notin BadgeOpen /\ pc'[s] \notin BadgeOpen
    BY <1>0, <1>3 DEF BadgeOpen, BeforeMirror
  <2> QED
    BY <1>0, <1>6, <2>1, KeptBadge
<1>9. LeavesNoIdleRun(s)'
  <2>0. LeavesNoIdleRun(s)
    BY DEF StatementsConsistent, SessionOK
  <2>1. \A r \in Runs : SeenRun(s, r)' = SeenRun(s, r)
    BY <1>4 DEF SeenRun
  <2>2. ~Active(SeenRun(s, target[s]))
    BY <1>0, <1>2, <2>0 DEF LeavesNoIdleRun
  <2>3. ASSUME NEW r \in Runs, r # target[s], HoldsJob(s, r)'
        PROVE  (\E k \in JobsOf(r) : SeenJob(s, k)' \in ActiveJobStatuses) \/ ~Active(SeenRun(s, r))'
    <3>1. \A k \in JobsOf(r) : k \in Jobs /\ k \notin J
      BY <1>1, <1>2, <2>3, Slotting
    <3>2. \A k \in JobsOf(r) : SeenJob(s, k)' = SeenJob(s, k) /\ jobLock'[k] = jobLock[k]
      BY <1>4, <3>1 DEF SeenJob
    <3>3. HoldsJob(s, r)
      BY <2>3, <3>2 DEF HoldsJob
    <3> QED
      BY <1>2, <2>0, <2>1, <2>3, <3>2, <3>3 DEF LeavesNoIdleRun, Active
  <2>4. ASSUME NEW r \in Runs, r = target[s] PROVE ~Active(SeenRun(s, r))'
    BY <2>1, <2>2, <2>4 DEF Active
  <2> QED
    BY <1>3, <2>3, <2>4 DEF LeavesNoIdleRun
<1> QED
  BY <1>6, <1>7, <1>8, <1>9 DEF SessionOK

(* The run is moved by what its session has read or holds. *)
LEMMA TransitionStepSession ==
  ASSUME StatementsConsistent, NEW s \in Sessions, TransitionStep(s)
  PROVE  SessionOK(s)'
<1>0. UNCHANGED <<committed, jobRows, invRow, docLock>>
  BY DEF TransitionStep
<1>1. PICK event \in {"Claimed", "StageAdvanced", "Succeeded", "LeaseReleased", "Failed"},
           y \in {"mirror", "failed_mirror"} :
        /\ Transition(s, event) /\ Goto(s, y)
        /\ pc[s] \in {"claim_run", "StageAdvanced", "Succeeded", "LeaseReleased", "Failed"}
        /\ event = "Succeeded" => pc[s] = "Succeeded"
        /\ event = "Failed" => y = "failed_mirror"
        /\ y = "failed_mirror" => event = "Failed"
        /\ pc[s] \in Unsettled => event \in {"Succeeded", "Failed"}
  BY DEF TransitionStep, Unsettled
<1>2. docLock # s /\ target[s] \in Runs /\ HoldsJob(s, target[s])
  BY <1>1, JobTarget DEF JobSteps, Steps, DocumentSteps, SelectSteps, WriteSteps
<1>3. pc'[s] = y /\ target'[s] = target[s]
  BY <1>1, GotoOwn DEF StatementsConsistent
<1>4. /\ run' = run /\ job' = job /\ inv' = inv /\ docLock' = docLock
      /\ newJob' = newJob /\ jobLock' = jobLock /\ newInv' = newInv /\ invLock' = invLock
      /\ \A r \in Runs : HoldsJob(s, r)' <=> HoldsJob(s, r)
      /\ \A j \in Jobs : SeenJob(s, j)' = SeenJob(s, j)
  BY <1>0 DEF committed, jobRows, invRow, HoldsJob, SeenJob
<1>5. /\ JobTransaction(s) /\ SettlesWhatIsDone(s) /\ KeepsBadge(s)
  BY DEF StatementsConsistent, SessionOK
<1>6. /\ \/ runLock' = runLock /\ newRun' = newRun
         \/ /\ runLock'[target[s]] = s
            /\ newRun'[target[s]] = RunTo(event)
            /\ SeenRun(s, target[s]) \in RunFrom(event)
      /\ \A q \in Runs \ {target[s]} : newRun'[q] = newRun[q] /\ runLock'[q] = runLock[q]
  <2>1. CASE Moves(s, target[s], event)
    <3>1. WriteRun(s, target[s], RunTo(event)) /\ SeenRun(s, target[s]) \in RunFrom(event)
      BY <1>1, <2>1 DEF Transition, Moves
    <3> QED
      BY <1>2, <3>1, WriteOwn DEF StatementsConsistent
  <2>2. CASE ~Moves(s, target[s], event)
    BY <1>1, <2>2 DEF Transition, runRows
  <2> QED
    BY <2>1, <2>2
<1>m. event \in {"Succeeded", "Failed"} => ~Active(SeenRun(s, target[s]))'
  <2> SUFFICES ASSUME event \in {"Succeeded", "Failed"} PROVE ~Active(SeenRun(s, target[s]))'
    OBVIOUS
  <2>1. RunFrom(event) = ActiveRunStatuses /\ ~RequiresNoRunningJob(event)
    BY DEF RunFrom, RequiresNoRunningJob
  <2>2. CASE Moves(s, target[s], event)
    <3>1. WriteRun(s, target[s], RunTo(event))
      BY <1>1, <2>2 DEF Transition
    <3>2. SeenRun(s, target[s])' = RunTo(event)
      BY <1>2, <1>3, <3>1, WriteOwn DEF StatementsConsistent, SeenRun
    <3>3. RunTo(event) \in TerminalRunStatuses
      BY JobEvents, Statuses
    <3> QED
      BY <3>2, <3>3, Statuses DEF Active
  <2>3. CASE ~Moves(s, target[s], event)
    <3>1. SeenRun(s, target[s]) \notin ActiveRunStatuses
      BY <2>1, <2>3 DEF Moves
    <3>2. SeenRun(s, target[s])' = SeenRun(s, target[s])
      BY <1>1, <1>3, <1>4, <2>3 DEF Transition, runRows, SeenRun
    <3> QED
      BY <3>1, <3>2 DEF Active
  <2> QED
    BY <2>2, <2>3
<1>7. SeenRun(s, target[s]) \in RunFrom(event) => Active(run[target[s]])
  BY <1>2, <1>5, JobEvents DEF JobTransaction, SeenRun, Active
<1>n. \A r \in Runs : /\ NoneActive(s, r, Created)' <=> NoneActive(s, r, Created)
                      /\ NoneActive(s, r, Slots)' <=> NoneActive(s, r, Slots)
  BY <1>4, Slotting DEF NoneActive
<1>8. KnowsItsLocks(s)'
  BY <1>2, <1>3, <1>4 DEF KnowsItsLocks, DocumentSteps, SelectSteps, WriteSteps
<1>9. JobTransaction(s)'
  <2>1. \A r \in Runs : runLock'[r] = s => Active(run[r])' /\ HoldsJob(s, r)'
    BY <1>2, <1>4, <1>5, <1>6, <1>7 DEF JobTransaction, Active
  <2>2. HoldsJob(s, target[s])'
    BY <1>2, <1>3, <1>4 DEF HoldsJob
  <2> QED
    BY <1>2, <1>3, <1>4, <1>5, <2>1, <2>2, Slotting DEF JobTransaction
<1>10. DocumentTransaction(s)'
  BY <1>2, <1>4 DEF DocumentTransaction
<1>11. SettlesWhatIsDone(s)'
  <2>1. \A r \in Runs : runLock'[r] = s =>
          /\ newRun'[r] \in ActiveRunStatuses \cup {"succeeded", "failed"}
          /\ newRun'[r] = "succeeded" => NoneActive(s, r, Created)
          /\ newRun'[r] = "failed" => (target[s] = r /\ y = "failed_mirror") \/ NoneActive(s, r, Slots)
    <3> TAKE r \in Runs
    <3> HAVE runLock'[r] = s
    <3>0. pc[s] \notin {"failed_mirror", "cancel_siblings"}
      BY <1>1
    <3>1. CASE runLock'[r] = runLock[r] /\ newRun'[r] = newRun[r]
      BY <1>5, <3>0, <3>1 DEF SettlesWhatIsDone
    <3>2. CASE r = target[s] /\ newRun'[r] = RunTo(event)
      BY <1>1, <1>5, <3>2, JobEvents, Statuses DEF SettlesWhatIsDone
    <3> QED
      BY <1>6, <3>1, <3>2
  <2> QED
    BY <1>3, <1>4, <1>5, <1>n, <2>1 DEF SettlesWhatIsDone
<1>12. KeepsBadge(s)'
  <2>1. newInv.lastRun \in Runs \cup {NoRun}
    BY DEF StatementsConsistent, TypeOK, InventoryRow
  <2>2. newInv.lastRun \in Runs =>
             /\ newInv.lastRun # target[s] => SeenRun(s, newInv.lastRun)' = SeenRun(s, newInv.lastRun)
             /\ HoldsJob(s, newInv.lastRun)' <=> HoldsJob(s, newInv.lastRun)
    BY <1>4, <1>6 DEF SeenRun, HoldsJob
  <2>3. y \in BeforeMirror /\ y \in BadgeOpen /\ pc[s] \notin BeforeMirror
    BY <1>1 DEF BadgeOpen, BeforeMirror
  <2>4. invLock = s /\ newInv.lastRun \in Runs /\ newInv.lastRun # target[s] =>
             newInv.status = SeenRun(s, newInv.lastRun)
    BY <1>5, NoRunAssumption DEF KeepsBadge
  <2>5. invLock = s /\ newInv.lastRun = NoRun => newInv.status = "none"
    BY <1>2, <1>5, NoRunAssumption DEF KeepsBadge
  <2>6. invLock = s =>
          \/ newInv.lastRun = inv.lastRun
          \/ newInv.lastRun \in Runs /\ HoldsJob(s, newInv.lastRun)
    <3>1. \A r \in Runs : runLock[r] = s => run[r] # "none"
      BY <1>2, <1>5, Statuses DEF JobTransaction, Active
    <3> QED
      BY <1>5, <3>1 DEF KeepsBadge
  <2>7. \A r \in Runs :
          /\ runLock'[r] = s /\ newRun'[r] # run'[r] /\ inv'.lastRun = r
          /\ ~(target'[s] = r /\ pc'[s] \in BeforeMirror)
          => invLock' = s
    BY <1>3, <1>4, <1>5, <1>6, <2>3 DEF KeepsBadge
  <2> QED
    BY <1>2, <1>3, <1>4, <2>1, <2>2, <2>3, <2>4, <2>5, <2>6, <2>7 DEF KeepsBadge
<1>13. LeavesNoIdleRun(s)'
  <2>0. LeavesNoIdleRun(s)
    BY DEF StatementsConsistent, SessionOK
  <2>1. ASSUME NEW r \in Runs, HoldsJob(s, r)'
        PROVE  (\E k \in JobsOf(r) : SeenJob(s, k)' \in ActiveJobStatuses) \/ ~Active(SeenRun(s, r))'
    <3>1. HoldsJob(s, r) /\ \A k \in JobsOf(r) : SeenJob(s, k)' = SeenJob(s, k)
      BY <1>4, <2>1, Slotting
    <3>2. CASE \E k \in JobsOf(r) : SeenJob(s, k) \in ActiveJobStatuses
      BY <3>1, <3>2
    <3>3. CASE r = target[s] /\ pc[s] \in Unsettled
      <4>1. PICK q \in Runs : q = target[s]
        BY <1>2
      <4>2. ~Active(SeenRun(s, q))'
        BY <1>1, <1>m, <1>3, <3>3, <4>1 DEF Active, SeenRun
      <4> QED
        BY <3>3, <4>1, <4>2
    <3>4. CASE ~Active(SeenRun(s, r)) /\ r # target[s]
      <4>1. SeenRun(s, r)' = SeenRun(s, r)
        BY <1>4, <1>6, <3>4 DEF SeenRun
      <4> QED
        BY <3>4, <4>1 DEF Active
    <3>5. CASE ~Active(SeenRun(s, r)) /\ r = target[s]
      <4>1. SeenRun(s, target[s]) \notin RunFrom(event)
        BY <3>5, JobEvents DEF Active
      <4>2. SeenRun(s, r)' = SeenRun(s, r)
        BY <1>1, <1>4, <3>5, <4>1 DEF SeenRun, Transition, Moves, runRows
      <4> QED
        BY <3>5, <4>2 DEF Active
    <3> QED
      BY <1>2, <2>0, <3>1, <3>2, <3>3, <3>4, <3>5 DEF LeavesNoIdleRun
  <2>2. y = "failed_mirror" => ~Active(SeenRun(s, target[s]))'
    BY <1>1, <1>m
  <2> QED
    BY <1>3, <2>1, <2>2 DEF LeavesNoIdleRun
<1> QED
  BY <1>8, <1>9, <1>10, <1>11, <1>12, <1>13 DEF SessionOK

-----------------------------------------------------------------------------
(* Rolling back. *)

(* A rollback gives every row back as it was committed. *)
LEMMA RollbackStep ==
  ASSUME StatementsConsistent, NEW s \in Sessions, Rollback(s)
  PROVE  StatementsConsistent'
<1>1. /\ run' = run /\ job' = job /\ inv' = inv
      /\ pc'[s] = "idle" /\ target'[s] = NoRun
      /\ \A t \in Sessions \ {s} : pc'[t] = pc[t] /\ target'[t] = target[t]
      /\ \A r \in Runs : /\ runLock[r] = s => runLock'[r] = NoSession /\ newRun'[r] = run[r]
                         /\ runLock[r] # s => runLock'[r] = runLock[r] /\ newRun'[r] = newRun[r]
      /\ \A j \in Jobs : /\ jobLock[j] = s => jobLock'[j] = NoSession /\ newJob'[j] = job[j]
                         /\ jobLock[j] # s => jobLock'[j] = jobLock[j] /\ newJob'[j] = newJob[j]
      /\ invLock = s => invLock' = NoSession /\ newInv' = inv
      /\ invLock # s => invLock' = invLock /\ newInv' = newInv
      /\ docLock' = IF docLock = s THEN NoSession ELSE docLock
  BY GotoOwn DEF StatementsConsistent, Rollback, Release, committed
<1>2. TypeOK'
  <2>1. /\ newRun' \in [Runs -> RunStatuses \cup {"none"}] /\ runLock' \in [Runs -> Holders]
    BY DEF StatementsConsistent, TypeOK, Rollback, Release, Holders
  <2>2. /\ newJob' \in [Jobs -> JobStatuses \cup {"none"}] /\ jobLock' \in [Jobs -> Holders]
    BY DEF StatementsConsistent, TypeOK, Rollback, Release, Holders
  <2>3. pc' \in [Sessions -> Steps] /\ target' \in [Sessions -> Runs \cup {NoRun}]
    BY WriteTypes DEF StatementsConsistent, Rollback, Release, Steps
  <2> QED
    BY <1>1, <2>1, <2>2, <2>3 DEF StatementsConsistent, TypeOK, Holders
<1>3. CommittedOK'
  <2>1. UnlockedRowsClean'
    BY <1>1 DEF StatementsConsistent, CommittedOK, UnlockedRowsClean
  <2> QED
    BY <1>1, <2>1 DEF StatementsConsistent, CommittedOK, UnbornRunHasNoJobs, StageOrder, OneMetadataJob,
       OneActiveRun, BadgeFollowsRun, ActiveRunHasWork, OnlyBackfilledWorkStrands
<1>4. SessionOK(s)'
  <2>1. HoldsNothing(s)' /\ docLock' # s
    BY <1>1, NoSessionAssumption DEF HoldsNothing
  <2>2. "idle" \notin SelectSteps
    BY DEF SelectSteps
  <2> QED
    BY <1>1, <2>1, <2>2, HoldingNothingNext
<1>5. ASSUME NEW t \in Sessions \ {s} PROVE SessionOK(t)'
  <2>1. Unseen(t)
    BY <1>1, NoSessionAssumption DEF Unseen
  <2> QED
    BY <2>1, UnseenSession
<1> QED
  BY <1>2, <1>3, <1>4, <1>5 DEF StatementsConsistent

-----------------------------------------------------------------------------
(* Statements. *)

(* Every statement keeps the invariant. *)
LEMMA StatementStep ==
  ASSUME StatementsConsistent, NEW s \in Sessions, BeginOrRead(s) \/ Continue(s)
  PROVE  StatementsConsistent'
<1>1. TypeOK' /\ Own(s) /\ SessionOK(s)'
  <2>1. CASE \E x \in SelectSteps : LockDocument(s, x)
    BY <2>1, LockDocumentOwn, LockDocumentSession DEF SelectSteps, Steps
  <2>2. CASE ClaimJob(s)
    BY <2>2, ClaimJobOwn, ClaimJobSession
  <2>3. CASE \E x \in {"succeeded", "queued", "failed"},
                step \in {"stage_succeeded", "commit", "stage_failed", "LeaseReleased"} :
                   EndJob(s, x, step) /\ (step \in {"commit", "LeaseReleased"} => x = "queued")
    <3>1. {"succeeded", "queued", "failed"} \subseteq JobStatuses
          /\ {"stage_succeeded", "commit", "stage_failed", "LeaseReleased"} \subseteq Steps
      BY DEF JobStatuses, ActiveJobStatuses, Steps
    <3> QED
      BY <2>3, <3>1, EndJobOwn, EndJobSession
  <2>4. CASE CreateInsert(s)
    BY <2>4, CreateInsertOwn, CreateInsertSession
  <2>5. CASE CreateInventory(s)
    BY <2>5, CreateInventoryOwn, CreateInventorySession
  <2>6. CASE BackfillSelect(s)
    BY <2>6, BackfillSelectOwn, BackfillSelectSession
  <2>7. CASE VisionSelect(s)
    BY <2>7, VisionSelectOwn, VisionSelectSession
  <2>8. CASE VisionInventory(s)
    BY <2>8, VisionInventoryOwn, VisionInventorySession
  <2>9. CASE StageStatus(s)
    BY <2>9, StageStatusOwn, StageStatusSession
  <2>10. CASE ReadRemaining(s)
    BY <2>10, ReadRemainingOwn, ReadRemainingSession
  <2>11. CASE TransitionStep(s)
    BY <2>11, TransitionStepOwn, TransitionStepSession
  <2>12. CASE MirrorStep(s)
    BY <2>12, MirrorStepOwn, MirrorStepSession
  <2>13. CASE CancelSiblings(s)
    BY <2>13, CancelSiblingsOwn, CancelSiblingsSession
  <2> QED
    BY <2>1, <2>2, <2>3, <2>4, <2>5, <2>6, <2>7, <2>8, <2>9, <2>10, <2>11, <2>12, <2>13
       DEF BeginOrRead, Continue, BeginBackfill, BeginRequeue, CompleteJob, RetryJob, FailJob, ReleaseJob, SelectSteps
<1>2. CommittedOK'
  BY <1>1, OwnKeepsCommitted
<1>3. \A t \in Sessions \ {s} : SessionOK(t)'
  BY <1>1, OwnIsUnseen, UnseenSession
<1> QED
  BY <1>1, <1>2, <1>3 DEF StatementsConsistent

-----------------------------------------------------------------------------
(* Committing: who can hold what while s commits. *)

(* Two sessions without the document lock never hold jobs of one run. *)
LEMMA OneWriter ==
  ASSUME StatementsConsistent, NEW r \in Runs,
         NEW s \in Sessions, NEW t \in Sessions \ {s}, docLock \notin {s, t},
         HoldsJob(s, r), HoldsJob(t, r)
  PROVE  FALSE
<1>1. PICK j \in JobsOf(r), k \in JobsOf(r) : jobLock[j] = s /\ jobLock[k] = t
  BY DEF HoldsJob
<1>2. JobTransaction(s) /\ JobTransaction(t)
  BY DEF StatementsConsistent, SessionOK
<1>3. j \in Jobs /\ k \in Jobs /\ j # k /\ job[j] \in ActiveJobStatuses /\ job[k] \in ActiveJobStatuses
  BY <1>1, <1>2, Slotting DEF JobTransaction
<1>4. CASE j # OcrJob(r) /\ k # OcrJob(r)
  BY <1>3, <1>4, Slotting, Statuses DEF StatementsConsistent, CommittedOK, OneMetadataJob
<1>5. CASE j = OcrJob(r) /\ k # OcrJob(r)
  BY <1>1, <1>2, <1>3, <1>5, Slotting DEF JobTransaction
<1>6. CASE k = OcrJob(r) /\ j # OcrJob(r)
  BY <1>1, <1>2, <1>3, <1>6, Slotting DEF JobTransaction
<1> QED
  BY <1>3, <1>4, <1>5, <1>6

(* The run a session holds a job of is not the one whose status another
   session changes.                                                        *)
LEMMA HeldRunStays ==
  ASSUME StatementsConsistent, NEW r \in Runs,
         NEW s \in Sessions, NEW t \in Sessions \ {s}, docLock # t, HoldsJob(t, r),
         runLock[r] = s, newRun[r] # run[r]
  PROVE  FALSE
<1>1. JobTransaction(s) /\ JobTransaction(t) /\ DocumentTransaction(s)
  BY DEF StatementsConsistent, SessionOK
<1>2. CASE docLock # s
  BY <1>1, <1>2, OneWriter DEF JobTransaction
<1>3. CASE docLock = s
  <2>1. PICK j \in JobsOf(r) : jobLock[j] = t
    BY DEF HoldsJob
  <2>2. j \in Jobs /\ j[2] \in Slots /\ j = <<r, j[2]>> /\ job[j] \in ActiveJobStatuses
    BY <1>1, <2>1, Slotting DEF JobTransaction
  <2>4. run[r] # "none"
    BY <2>1, <2>2, Statuses DEF StatementsConsistent, CommittedOK, UnbornRunHasNoJobs
  <2>5. run[r] \in TerminalRunStatuses => run[r] = "succeeded" /\ j[2] \in Sessions
    BY <2>2 DEF StatementsConsistent, CommittedOK, OnlyBackfilledWorkStrands
  <2>6. run[r] \in {"none", "succeeded", "failed"}
    BY <1>1, <1>3 DEF DocumentTransaction
  <2>7. run[r] = "succeeded" => \A k \in MetadataJobsOf(r) : job[k] = "none"
    BY <1>1, <1>3 DEF DocumentTransaction
  <2>8. run[r] = "succeeded" /\ j[2] \in Sessions
    BY <2>4, <2>5, <2>6, Statuses
  <2>9. j \in MetadataJobsOf(r)
    BY <2>2, <2>8, Slotting
  <2> QED
    BY <2>2, <2>7, <2>8, <2>9, Statuses
<1> QED
  BY <1>2, <1>3

(* A job a commit makes active is a new or requeued one, and nobody without
   the document lock holds a job of its run if it is a created one.       *)
LEMMA NewActiveJob ==
  ASSUME StatementsConsistent, NEW s \in Sessions, NEW j \in Jobs, jobLock[j] = s,
         job[j] \notin ActiveJobStatuses, newJob[j] \in ActiveJobStatuses
  PROVE  /\ docLock = s /\ runLock[j[1]] = s
         /\ j[2] \in Created => \A t \in Sessions \ {s} : ~HoldsJob(t, j[1])
<1>1. JobTransaction(s) /\ DocumentTransaction(s)
  BY DEF StatementsConsistent, SessionOK
<1>2. docLock = s
  BY <1>1 DEF JobTransaction
<1>3. runLock[j[1]] = s /\ j[1] \in Runs /\ j \in JobsOf(j[1])
  BY <1>1, <1>2, Slotting DEF DocumentTransaction
<1>4. ASSUME j[2] \in Created, NEW t \in Sessions \ {s}, HoldsJob(t, j[1]) PROVE FALSE
  <2>1. docLock # t
    BY <1>2
  <2>2. j # <<j[1], s>>
    BY <1>4, Slotting
  <2>3. run[j[1]] \in {"none", "failed"}
    BY <1>1, <1>2, <1>3, <2>2 DEF DocumentTransaction
  <2>4. newRun[j[1]] = "queued"
    BY <1>1, <1>2, <1>3, <2>3, Statuses DEF DocumentTransaction, Active
  <2> QED
    BY <1>3, <1>4, <2>1, <2>3, <2>4, HeldRunStays
<1> QED
  BY <1>2, <1>3, <1>4

(* What a commit of s changes, row by row. *)
CommitFacts(s) ==
    /\ pc'[s] = "idle" /\ target'[s] = NoRun
    /\ \A t \in Sessions \ {s} : pc'[t] = pc[t] /\ target'[t] = target[t]
    /\ newRun' = newRun /\ newJob' = newJob /\ newInv' = newInv
    /\ \A r \in Runs :
          /\ runLock[r] = s => runLock'[r] = NoSession /\ run'[r] = newRun[r]
          /\ runLock[r] # s => runLock'[r] = runLock[r] /\ run'[r] = run[r]
    /\ \A j \in Jobs :
          /\ jobLock[j] = s => jobLock'[j] = NoSession /\ job'[j] = newJob[j]
          /\ jobLock[j] # s => jobLock'[j] = jobLock[j] /\ job'[j] = job[j]
    /\ invLock = s => invLock' = NoSession /\ inv' = newInv
    /\ invLock # s => invLock' = invLock /\ inv' = inv
    /\ docLock' = IF docLock = s THEN NoSession ELSE docLock

(* A commit moves the rows of its session and no others. *)
LEMMA Committing ==
  ASSUME StatementsConsistent, NEW s \in Sessions, Commit(s)
  PROVE  CommitFacts(s) /\ TypeOK'
<1>1. CommitFacts(s)
  <2>1. /\ \A r \in Runs : run'[r] = SeenRun(s, r)
        /\ \A j \in Jobs : job'[j] = SeenJob(s, j)
    BY DEF Commit
  <2>2. /\ newRun' = newRun /\ newJob' = newJob /\ newInv' = newInv /\ inv' = SeenInv(s)
    BY DEF Commit
  <2>3. /\ \A r \in Runs : runLock'[r] = IF runLock[r] = s THEN NoSession ELSE runLock[r]
        /\ \A j \in Jobs : jobLock'[j] = IF jobLock[j] = s THEN NoSession ELSE jobLock[j]
        /\ invLock' = IF invLock = s THEN NoSession ELSE invLock
        /\ docLock' = IF docLock = s THEN NoSession ELSE docLock
        /\ GotoFor(s, "idle", NoRun)
    BY DEF Commit, Release
  <2>4. TypeOK
    BY DEF StatementsConsistent
  <2> QED
    BY <2>1, <2>2, <2>3, <2>4, GotoOwn DEF CommitFacts, SeenRun, SeenJob, SeenInv
<1>2. TypeOK'
  <2>0. TypeOK
    BY DEF StatementsConsistent
  <2>1. run' \in [Runs -> RunStatuses \cup {"none"}] /\ job' \in [Jobs -> JobStatuses \cup {"none"}] /\ inv' \in InventoryRow
    BY <2>0, SeenTypes DEF Commit
  <2>2. /\ runLock' \in [Runs -> Holders] /\ jobLock' \in [Jobs -> Holders] /\ invLock' \in Holders /\ docLock' \in Holders
    BY <2>0 DEF TypeOK, Commit, Release, Holders
  <2>3. pc' \in [Sessions -> Steps] /\ target' \in [Sessions -> Runs \cup {NoRun}]
    BY <2>0, WriteTypes DEF Commit, Release, Steps
  <2>4. newRun' = newRun /\ newJob' = newJob /\ newInv' = newInv
    BY DEF Commit
  <2> QED
    BY <2>0, <2>1, <2>2, <2>3, <2>4 DEF TypeOK
<1> QED
  BY <1>1, <1>2

(* A commit keeps the committed rows consistent. *)
LEMMA CommitKeepsCommitted ==
  ASSUME StatementsConsistent, NEW s \in Sessions, Commit(s)
  PROVE  CommittedOK'
<1>1. CommitFacts(s)
  BY Committing
<1>2. /\ TypeOK /\ UnlockedRowsClean /\ UnbornRunHasNoJobs /\ StageOrder /\ OneMetadataJob /\ OneActiveRun
      /\ BadgeFollowsRun /\ OnlyBackfilledWorkStrands
  BY DEF StatementsConsistent, CommittedOK
<1>3. /\ KnowsItsLocks(s) /\ JobTransaction(s) /\ DocumentTransaction(s) /\ SettlesWhatIsDone(s) /\ KeepsBadge(s)
  BY DEF StatementsConsistent, SessionOK
<1>4. pc[s] \in {"commit", "failed"}
  BY DEF Commit
<1>5. UnlockedRowsClean'
  BY <1>1, <1>2 DEF CommitFacts, UnlockedRowsClean
<1>6. UnbornRunHasNoJobs'
  <2> SUFFICES ASSUME NEW r \in Runs, run'[r] = "none", NEW j \in JobsOf(r) PROVE job'[j] = "none"
    BY DEF UnbornRunHasNoJobs
  <2>1. runLock[r] # s /\ run[r] = "none"
    BY <1>1, <1>3, Statuses DEF CommitFacts, SettlesWhatIsDone
  <2>2. j \in Jobs /\ j[1] = r /\ job[j] = "none"
    BY <1>2, <2>1, Slotting DEF UnbornRunHasNoJobs
  <2>3. jobLock[j] # s
    BY <1>3, <2>1, <2>2, Statuses DEF JobTransaction, DocumentTransaction
  <2> QED
    BY <1>1, <2>2, <2>3 DEF CommitFacts
<1>7. StageOrder'
  <2> SUFFICES ASSUME NEW r \in Runs, NEW j \in MetadataJobsOf(r), job'[j] = "running", job'[OcrJob(r)] \in ActiveJobStatuses
               PROVE  FALSE
    BY DEF StageOrder
  <2>0. j \in Jobs /\ OcrJob(r) \in Jobs /\ OcrJob(r)[1] = r /\ OcrJob(r)[2] \in Created
    BY Slotting DEF OcrJob, Created
  <2>1. CASE jobLock[j] = s
    <3>1. newJob[j] = "running"
      BY <1>1, <2>0, <2>1 DEF CommitFacts
    <3>2. docLock # s
      BY <1>3, <2>0, <2>1, <3>1 DEF DocumentTransaction
    <3>3. SeenJob(s, OcrJob(r)) \notin ActiveJobStatuses
      BY <1>3, <2>1, <3>1, <3>2 DEF JobTransaction
    <3> QED
      BY <1>1, <2>0, <3>3 DEF CommitFacts, SeenJob
  <2>2. CASE jobLock[j] # s
    <3>1. job[j] = "running" /\ job[OcrJob(r)] \notin ActiveJobStatuses
      BY <1>1, <1>2, <2>0, <2>2 DEF CommitFacts, StageOrder
    <3>2. jobLock[OcrJob(r)] = s /\ newJob[OcrJob(r)] \in ActiveJobStatuses
      BY <1>1, <2>0, <3>1 DEF CommitFacts
    <3>3. docLock = s /\ runLock[r] = s
      BY <2>0, <3>1, <3>2, NewActiveJob
    <3>4. run[r] \in {"none", "failed"}
      <4>1. OcrJob(r) # <<r, s>> /\ OcrJob(r) \in JobsOf(r)
        BY Slotting
      <4> QED
        BY <1>3, <3>2, <3>3, <4>1 DEF DocumentTransaction
    <3>5. j \in JobsOf(r) /\ j[2] \in Slots /\ j = <<r, j[2]>>
      BY Slotting
    <3> QED
      BY <1>2, <3>1, <3>4, <3>5, Statuses DEF UnbornRunHasNoJobs, OnlyBackfilledWorkStrands
  <2> QED
    BY <2>1, <2>2
<1>8. OneMetadataJob'
  <2> SUFFICES ASSUME NEW r \in Runs, NEW j \in MetadataJobsOf(r), NEW k \in MetadataJobsOf(r),
                      job'[j] # "none", job'[k] # "none"
               PROVE  j = k
    BY DEF OneMetadataJob
  <2>0. j \in Jobs /\ k \in Jobs /\ j[1] = r /\ k[1] = r /\ j \in JobsOf(r) /\ k \in JobsOf(r)
        /\ j = <<r, j[2]>> /\ k = <<r, k[2]>> /\ j # OcrJob(r) /\ k # OcrJob(r)
    BY Slotting
  <2>1. CASE job[j] # "none" /\ job[k] # "none"
    BY <1>2, <2>1 DEF OneMetadataJob
  <2>2. CASE job[j] = "none" \/ job[k] = "none"
    <3>1. docLock = s /\ runLock[r] = s
      <4>1. \A i \in {j, k} : job[i] = "none" => jobLock[i] = s
        BY <1>1, <2>0 DEF CommitFacts
      <4> QED
        BY <1>3, <2>0, <2>2, <4>1, Statuses DEF JobTransaction, DocumentTransaction
    <3>2. \A i \in {j, k} : jobLock[i] = s \/ job[i] # "none"
      BY <1>1, <2>0 DEF CommitFacts
    <3>3. run[r] = "none" => \A i \in {j, k} : jobLock[i] = s /\ i[2] \in Created
      <4>1. run[r] = "none" => \A i \in {j, k} : jobLock[i] = s
        BY <1>2, <2>0, <3>2 DEF UnbornRunHasNoJobs
      <4>2. run[r] = "none" => ~Active(run[r])
        BY Statuses DEF Active
      <4>3. run[r] = "none" => \A i \in JobsOf(r) : jobLock[i] = s => i[2] \in Created
        BY <1>3, <3>1, <4>2 DEF DocumentTransaction
      <4> QED
        BY <2>0, <4>1, <4>3
    <3>4. run[r] = "failed" => FALSE
      BY <1>3, <2>0, <2>2, <3>1, <3>2, Statuses DEF DocumentTransaction, Active
    <3>5. Active(run[r]) \/ run[r] = "succeeded" => \A i \in {j, k} : i = <<r, s>>
      BY <1>3, <2>0, <3>1, <3>2, Statuses DEF DocumentTransaction, Active
    <3>6. run[r] = "none" \/ run[r] = "failed" \/ Active(run[r]) \/ run[r] = "succeeded"
      BY <1>3, <3>1 DEF DocumentTransaction
    <3>7. \A i \in {j, k} : i[2] \in Created => i[2] = "metadata"
      BY <2>0 DEF Created, OcrJob
    <3> QED
      BY <2>0, <3>3, <3>4, <3>5, <3>6, <3>7
  <2> QED
    BY <2>1, <2>2
<1>9. OneActiveRun'
  <2> SUFFICES ASSUME NEW q \in Runs, NEW r \in Runs, Active(run'[q]), Active(run'[r]) PROVE q = r
    BY DEF OneActiveRun, Active
  <2>1. CASE Active(run[q]) /\ Active(run[r])
    BY <1>2, <2>1 DEF OneActiveRun
  <2>2. ASSUME NEW p \in {q, r}, ~Active(run[p]) PROVE q = r
    <3>1. runLock[p] = s
      BY <1>1, <2>2 DEF CommitFacts
    <3>2. docLock = s
      BY <1>3, <2>2, <3>1 DEF JobTransaction
    <3>3. \A i \in Runs : ~Active(run[i])
      BY <1>3, <2>2, <3>1, <3>2 DEF DocumentTransaction
    <3>4. \A i \in {q, r} : runLock[i] = s
      BY <1>1, <3>3 DEF CommitFacts
    <3> QED
      BY <1>3, <3>2, <3>4 DEF DocumentTransaction
  <2> QED
    BY <2>1, <2>2
<1>10. BadgeFollowsRun'
  <2>0. pc[s] \notin BadgeOpen /\ pc[s] \notin BeforeMirror
    BY <1>4 DEF BadgeOpen, BeforeMirror
  <2>1. CASE invLock = s
    <3>1. inv' = newInv /\ newInv.status = IF newInv.lastRun = NoRun THEN "none" ELSE SeenRun(s, newInv.lastRun)
      BY <1>1, <1>3, <2>0, <2>1 DEF CommitFacts, KeepsBadge
    <3>2. newInv.lastRun \in Runs \cup {NoRun}
      BY <1>2 DEF TypeOK, InventoryRow
    <3>3. newInv.lastRun \in Runs => SeenRun(s, newInv.lastRun) = run'[newInv.lastRun]
      BY <1>1 DEF CommitFacts, SeenRun
    <3> QED
      BY <3>1, <3>2, <3>3, NoRunAssumption DEF BadgeFollowsRun
  <2>2. CASE invLock # s
    <3>1. inv' = inv
      BY <1>1, <2>2 DEF CommitFacts
    <3>2. inv.lastRun \in Runs \cup {NoRun}
      BY <1>2 DEF TypeOK, InventoryRow
    <3>3. inv.lastRun \in Runs => run'[inv.lastRun] = run[inv.lastRun]
      BY <1>1, <1>3, <2>0, <2>2 DEF CommitFacts, KeepsBadge
    <3> QED
      BY <1>2, <3>1, <3>2, <3>3, NoRunAssumption DEF BadgeFollowsRun
  <2> QED
    BY <2>1, <2>2
<1>12. ActiveRunHasWork'
  <2> SUFFICES ASSUME NEW r \in Runs, Active(run'[r]) PROVE \E j \in JobsOf(r) : job'[j] \in ActiveJobStatuses
    BY DEF ActiveRunHasWork, Active
  <2>0. ActiveRunHasWork /\ LeavesNoIdleRun(s)
    BY DEF StatementsConsistent, CommittedOK, SessionOK
  <2>1. \A j \in JobsOf(r) : j \in Jobs /\ job'[j] = SeenJob(s, j)
    BY <1>1, Slotting DEF CommitFacts, SeenJob
  <2>2. run'[r] = SeenRun(s, r)
    BY <1>1 DEF CommitFacts, SeenRun
  <2>3. CASE docLock = s /\ runLock[r] = s
    <3>1. PICK j \in JobsOf(r) : jobLock[j] = s
      BY <1>3, <2>3 DEF DocumentTransaction, HoldsJob
    <3>2. SeenJob(s, j) = "queued"
      BY <1>3, <2>1, <2>3, <3>1 DEF DocumentTransaction, SeenJob
    <3> QED
      BY <2>1, <3>2, Statuses
  <2>4. CASE docLock # s /\ HoldsJob(s, r)
    <3>1. pc[s] \notin Unsettled
      BY <1>4 DEF Unsettled
    <3> QED
      BY <2>0, <2>1, <2>2, <2>4, <3>1 DEF LeavesNoIdleRun
  <2>5. CASE runLock[r] # s /\ (docLock = s \/ ~HoldsJob(s, r))
    <3>1. run'[r] = run[r]
      BY <1>1, <2>5 DEF CommitFacts
    <3>2. PICK j \in JobsOf(r) : job[j] \in ActiveJobStatuses
      BY <2>0, <3>1 DEF ActiveRunHasWork
    <3>3. jobLock[j] # s
      BY <1>3, <2>5, <3>2, Slotting DEF DocumentTransaction, HoldsJob
    <3> QED
      BY <2>1, <3>2, <3>3 DEF SeenJob
  <2> QED
    BY <1>3, <2>3, <2>4, <2>5 DEF JobTransaction
<1>11. OnlyBackfilledWorkStrands'
  <2> SUFFICES ASSUME NEW r \in Runs, NEW k \in Slots, run'[r] \in TerminalRunStatuses,
                      job'[<<r, k>>] \in ActiveJobStatuses
               PROVE  k \in Sessions /\ run'[r] = "succeeded"
    BY DEF OnlyBackfilledWorkStrands
  <2>0. <<r, k>> \in Jobs /\ <<r, k>>[1] = r
    BY Slotting
  <2>1. SeenJob(s, <<r, k>>) \in ActiveJobStatuses
    BY <1>1, <2>0 DEF CommitFacts, SeenJob
  <2>2. CASE runLock[r] = s
    <3>1. run'[r] = newRun[r] /\ newRun[r] \in {"succeeded", "failed"}
      BY <1>1, <1>3, <2>2, Statuses DEF CommitFacts, SettlesWhatIsDone
    <3>2. newRun[r] # "failed"
      BY <1>3, <1>4, <2>1, <2>2 DEF SettlesWhatIsDone, NoneActive
    <3>3. k \notin Created
      BY <1>3, <2>1, <2>2, <3>1, <3>2 DEF SettlesWhatIsDone, NoneActive
    <3> QED
      BY <3>1, <3>2, <3>3 DEF Slots
  <2>3. CASE runLock[r] # s
    <3>1. run'[r] = run[r]
      BY <1>1, <2>3 DEF CommitFacts
    <3>2. job[<<r, k>>] \in ActiveJobStatuses
      BY <1>1, <2>0, <2>3, NewActiveJob DEF CommitFacts
    <3> QED
      BY <1>2, <3>1, <3>2 DEF OnlyBackfilledWorkStrands
  <2> QED
    BY <2>2, <2>3
<1> QED
  BY <1>5, <1>6, <1>7, <1>8, <1>9, <1>10, <1>11, <1>12 DEF CommittedOK

(* A session that has committed holds nothing. *)
LEMMA CommitEndsSession ==
  ASSUME StatementsConsistent, NEW s \in Sessions, Commit(s)
  PROVE  SessionOK(s)'
<1>1. CommitFacts(s)
  BY Committing
<1>2. HoldsNothing(s)' /\ docLock' # s
  BY <1>1, NoSessionAssumption DEF HoldsNothing, CommitFacts
<1>3. "idle" \notin SelectSteps
  BY DEF SelectSteps
<1> QED
  BY <1>1, <1>2, <1>3, HoldingNothingNext DEF CommitFacts

(* What the other sessions rely on survives a commit. *)
LEMMA CommitUnderSession ==
  ASSUME StatementsConsistent, NEW s \in Sessions, Commit(s), NEW t \in Sessions \ {s}
  PROVE  SessionOK(t)'
<1>1. CommitFacts(s)
  BY Committing
<1>2. /\ TypeOK /\ UnlockedRowsClean /\ UnbornRunHasNoJobs /\ StageOrder /\ OneMetadataJob /\ OneActiveRun
      /\ BadgeFollowsRun /\ OnlyBackfilledWorkStrands
  BY DEF StatementsConsistent, CommittedOK
<1>3. /\ KnowsItsLocks(s) /\ JobTransaction(s) /\ DocumentTransaction(s) /\ SettlesWhatIsDone(s) /\ KeepsBadge(s)
  BY DEF StatementsConsistent, SessionOK
<1>4. /\ KnowsItsLocks(t) /\ JobTransaction(t) /\ DocumentTransaction(t) /\ SettlesWhatIsDone(t) /\ KeepsBadge(t)
  BY DEF StatementsConsistent, SessionOK
<1>5. /\ pc'[t] = pc[t] /\ target'[t] = target[t]
      /\ newRun' = newRun /\ newJob' = newJob /\ newInv' = newInv
      /\ docLock' = t <=> docLock = t
      /\ invLock' = t <=> invLock = t
      /\ \A r \in Runs : runLock'[r] = t <=> runLock[r] = t
      /\ \A r \in Runs : runLock[r] = t => run'[r] = run[r]
      /\ \A j \in Jobs : jobLock'[j] = t <=> jobLock[j] = t
      /\ \A j \in Jobs : jobLock[j] = t => job'[j] = job[j]
  BY <1>1, NoSessionAssumption DEF CommitFacts
<1>6. \A r \in Runs : HoldsJob(t, r)' <=> HoldsJob(t, r)
  BY <1>5, Slotting DEF HoldsJob
<1>7. \A r \in Runs : runLock[r] = t => SeenRun(t, r)' = SeenRun(t, r)
  BY <1>5 DEF SeenRun
<1>8. \A j \in Jobs : SeenJob(t, j) \notin ActiveJobStatuses /\ SeenJob(t, j)' \in ActiveJobStatuses
         => jobLock[j] # t /\ docLock = s /\ runLock[j[1]] = s /\ (j[2] \in Created => ~HoldsJob(t, j[1]))
  <2> SUFFICES ASSUME NEW j \in Jobs, SeenJob(t, j) \notin ActiveJobStatuses, SeenJob(t, j)' \in ActiveJobStatuses
               PROVE  jobLock[j] # t /\ docLock = s /\ runLock[j[1]] = s /\ (j[2] \in Created => ~HoldsJob(t, j[1]))
    OBVIOUS
  <2>1. jobLock[j] # t
    BY <1>5 DEF SeenJob
  <2>2. job[j] \notin ActiveJobStatuses /\ job'[j] \in ActiveJobStatuses
    BY <1>5, <2>1 DEF SeenJob
  <2>3. jobLock[j] = s /\ newJob[j] \in ActiveJobStatuses
    BY <1>1, <2>2 DEF CommitFacts
  <2> QED
    BY <2>1, <2>2, <2>3, NewActiveJob
<1>9. KnowsItsLocks(t)'
  <2>1. pc[t] = "create_inventory" => target[t] \in Runs /\ runLock[target[t]] = t /\ run[target[t]] = "none"
    BY <1>4 DEF KnowsItsLocks, WriteSteps
  <2> QED
    BY <1>4, <1>5, <2>1 DEF KnowsItsLocks, HoldsNothing
<1>10. JobTransaction(t)'
  <2> SUFFICES ASSUME docLock # t PROVE JobTransaction(t)'
    BY <1>5 DEF JobTransaction
  <2>1. \A j \in Jobs : jobLock'[j] = t => job'[j] \in ActiveJobStatuses
    BY <1>4, <1>5 DEF JobTransaction
  <2>2. \A r \in Runs : runLock'[r] = t => Active(run[r])' /\ HoldsJob(t, r)'
    BY <1>4, <1>5, <1>6 DEF JobTransaction, Active
  <2>3. pc'[t] \in JobSteps => target'[t] \in Runs /\ HoldsJob(t, target[t])'
    <3>1. pc[t] \in JobSteps => target[t] \in Runs /\ HoldsJob(t, target[t])
      BY <1>4 DEF JobTransaction
    <3> QED
      BY <1>5, <1>6, <3>1 DEF HoldsJob
  <2>4. \A r \in Runs : \A j \in MetadataJobsOf(r) : jobLock'[j] = t =>
          /\ job'[OcrJob(r)] \in ActiveJobStatuses => jobLock'[OcrJob(r)] = t
          /\ newJob'[j] = "running" => SeenJob(t, OcrJob(r))' \notin ActiveJobStatuses
    <3> TAKE r \in Runs
    <3> TAKE j \in MetadataJobsOf(r)
    <3> HAVE jobLock'[j] = t
    <3>0. j \in Jobs /\ OcrJob(r) \in Jobs /\ OcrJob(r)[1] = r /\ OcrJob(r)[2] \in Created /\ j \in JobsOf(r)
      BY Slotting DEF OcrJob, Created
    <3>1. jobLock[j] = t /\ HoldsJob(t, r)
      BY <1>5, <3>0 DEF HoldsJob
    <3>2. SeenJob(t, OcrJob(r))' \in ActiveJobStatuses => SeenJob(t, OcrJob(r)) \in ActiveJobStatuses
      BY <1>8, <3>0, <3>1
    <3>3. jobLock'[OcrJob(r)] # t => (job'[OcrJob(r)] \in ActiveJobStatuses => job[OcrJob(r)] \in ActiveJobStatuses)
      BY <1>5, <3>0, <3>2 DEF SeenJob
    <3>4. /\ job[OcrJob(r)] \in ActiveJobStatuses => jobLock[OcrJob(r)] = t
          /\ newJob[j] = "running" => SeenJob(t, OcrJob(r)) \notin ActiveJobStatuses
      BY <1>4, <3>1 DEF JobTransaction
    <3> QED
      BY <1>5, <3>0, <3>2, <3>3, <3>4
  <2> QED
    BY <2>1, <2>2, <2>3, <2>4 DEF JobTransaction
<1>11. DocumentTransaction(t)'
  <2> SUFFICES ASSUME docLock = t PROVE DocumentTransaction(t)'
    BY <1>5 DEF DocumentTransaction
  <2>1. docLock # s
    OBVIOUS
  <2>2. \A q \in Runs : runLock[q] = s => Active(run[q])
    BY <1>3, <2>1 DEF JobTransaction
  <2>3. (\A q \in Runs : ~Active(run[q])) => \A q \in Runs : run'[q] = run[q]
    BY <1>1, <2>2 DEF CommitFacts
  <2>4. \A j \in Jobs : job[j] = "none" => job'[j] = "none"
    BY <1>1, <1>3, <2>1, Statuses DEF CommitFacts, JobTransaction
  <2>5. \A j \in Jobs : jobLock'[j] = t => runLock'[j[1]] = t /\ newJob'[j] = "queued"
    BY <1>4, <1>5, Slotting DEF DocumentTransaction
  <2>6. ASSUME NEW r \in Runs, runLock'[r] = t
        PROVE  /\ target'[t] = r /\ HoldsJob(t, r)'
               /\ \/ Active(run'[r]) /\ newRun'[r] = run'[r] /\ pc'[t] \in {"repair_mirror", "commit"}
                  \/ /\ run'[r] \in {"none", "succeeded", "failed"} /\ newRun'[r] = "queued"
                     /\ \A q \in Runs : ~Active(run'[q])
               /\ \A j \in JobsOf(r) : jobLock'[j] = t =>
                     \/ run'[r] = "none" /\ j[2] \in Created
                     \/ run'[r] = "failed" /\ job'[j] \in {"failed", "cancelled"}
                     \/ (Active(run'[r]) \/ run'[r] = "succeeded") /\ j = <<r, t>>
               /\ Active(run'[r]) \/ run'[r] = "succeeded" => \A j \in MetadataJobsOf(r) : job'[j] = "none"
    <3>0. runLock[r] = t /\ run'[r] = run[r]
      BY <1>5, <2>6
    <3>1. \/ Active(run[r]) /\ newRun[r] = run[r] /\ pc[t] \in {"repair_mirror", "commit"}
          \/ /\ run[r] \in {"none", "succeeded", "failed"} /\ newRun[r] = "queued"
             /\ \A q \in Runs : ~Active(run[q])
      BY <1>4, <3>0 DEF DocumentTransaction
    <3>2. \A j \in JobsOf(r) : jobLock[j] = t =>
                     \/ run[r] = "none" /\ j[2] \in Created
                     \/ run[r] = "failed" /\ job[j] \in {"failed", "cancelled"}
                     \/ (Active(run[r]) \/ run[r] = "succeeded") /\ j = <<r, t>>
      BY <1>4, <3>0 DEF DocumentTransaction
    <3>3. Active(run[r]) \/ run[r] = "succeeded" => \A j \in MetadataJobsOf(r) : job[j] = "none"
      BY <1>4, <3>0 DEF DocumentTransaction
    <3>4. \A j \in MetadataJobsOf(r) : j \in Jobs
      BY Slotting
    <3>5. \A j \in JobsOf(r) : j \in Jobs
      BY Slotting
    <3>6. target[t] = r /\ HoldsJob(t, r)'
      BY <1>4, <1>6, <3>0 DEF DocumentTransaction
    <3>7. \/ Active(run'[r]) /\ newRun'[r] = run'[r] /\ pc'[t] \in {"repair_mirror", "commit"}
          \/ /\ run'[r] \in {"none", "succeeded", "failed"} /\ newRun'[r] = "queued"
             /\ \A q \in Runs : ~Active(run'[q])
      BY <1>5, <2>3, <3>0, <3>1
    <3>8. Active(run'[r]) \/ run'[r] = "succeeded" => \A j \in MetadataJobsOf(r) : job'[j] = "none"
      BY <2>4, <3>0, <3>3, <3>4
    <3>9. \A j \in JobsOf(r) : jobLock'[j] = t =>
                     \/ run'[r] = "none" /\ j[2] \in Created
                     \/ run'[r] = "failed" /\ job'[j] \in {"failed", "cancelled"}
                     \/ (Active(run'[r]) \/ run'[r] = "succeeded") /\ j = <<r, t>>
      BY <1>5, <3>0, <3>2, <3>5
    <3> QED
      BY <1>5, <3>6, <3>7, <3>8, <3>9
  <2> QED
    BY <2>5, <2>6 DEF DocumentTransaction, Active
<1>12. SettlesWhatIsDone(t)'
  <2>1. ASSUME NEW r \in Runs, NEW S \in SUBSET Slots, NoneActive(t, r, S), runLock[r] = t
        PROVE  NoneActive(t, r, S)'
    BY <1>8, <2>1, Slotting DEF NoneActive
  <2>2. \A r \in Runs : runLock[r] = t =>
           /\ NoneActive(t, r, Created) => NoneActive(t, r, Created)'
           /\ NoneActive(t, r, Slots) => NoneActive(t, r, Slots)'
    <3>1. Created \in SUBSET Slots /\ Slots \in SUBSET Slots
      BY Slotting
    <3> QED
      BY <2>1, <3>1
  <2>3. pc[t] = "Succeeded" => NoneActive(t, target[t], Created)'
    <3> SUFFICES ASSUME pc[t] = "Succeeded" PROVE NoneActive(t, target[t], Created)'
      OBVIOUS
    <3>1. PICK r \in Runs : r = target[t] /\ HoldsJob(t, r) /\ NoneActive(t, r, Created)
      <4>1. pc[t] \in JobSteps
        BY DEF JobSteps, Steps, DocumentSteps, SelectSteps, WriteSteps
      <4> QED
        BY <1>4, <4>1, JobTarget DEF SettlesWhatIsDone
    <3>2. \A k \in Created : <<r, k>> \in Jobs /\ <<r, k>>[1] = r /\ <<r, k>>[2] = k
      BY Slotting
    <3>3. \A k \in Created : SeenJob(t, <<r, k>>)' \notin ActiveJobStatuses
      BY <1>8, <3>1, <3>2 DEF NoneActive
    <3>4. target'[t] = r
      BY <1>5, <3>1
    <3> QED
      BY <3>3, <3>4 DEF NoneActive, SeenJob
  <2>4. \A j \in Jobs : docLock' # t /\ jobLock'[j] = t /\ newJob'[j] \in ActiveJobStatuses
          => job'[j] \in ActiveJobStatuses
    BY <1>4, <1>5 DEF SettlesWhatIsDone
  <2>5. \A r \in Runs : runLock'[r] = t =>
          /\ newRun'[r] \in ActiveRunStatuses \cup {"succeeded", "failed"}
          /\ newRun'[r] = "succeeded" => NoneActive(t, r, Created)'
          /\ newRun'[r] = "failed" =>
                \/ target'[t] = r /\ pc'[t] \in {"failed_mirror", "cancel_siblings"}
                \/ NoneActive(t, r, Slots)'
    BY <1>4, <1>5, <2>2 DEF SettlesWhatIsDone
  <2> QED
    BY <1>5, <2>3, <2>4, <2>5 DEF SettlesWhatIsDone
<1>13. KeepsBadge(t)'
  <2>0. pc[s] \notin BeforeMirror
    BY DEF Commit, BeforeMirror
  <2>1. ASSUME invLock = t
        PROVE  /\ \/ newInv.lastRun = inv'.lastRun
                  \/ newInv.lastRun \in Runs /\ docLock' # t /\ HoldsJob(t, newInv.lastRun)'
                  \/ /\ newInv.lastRun \in Runs /\ runLock'[newInv.lastRun] = t
                     /\ run'[newInv.lastRun] = "none"
               /\ pc'[t] \notin BadgeOpen \/ newInv.lastRun # target'[t] =>
                     newInv.status = IF newInv.lastRun = NoRun THEN "none"
                                     ELSE SeenRun(t, newInv.lastRun)'
    <3>1. inv' = inv
      BY <1>1, <2>1 DEF CommitFacts
    <3>2. /\ \/ newInv.lastRun = inv.lastRun
             \/ newInv.lastRun \in Runs /\ docLock # t /\ HoldsJob(t, newInv.lastRun)
             \/ newInv.lastRun \in Runs /\ runLock[newInv.lastRun] = t /\ run[newInv.lastRun] = "none"
          /\ pc[t] \notin BadgeOpen \/ newInv.lastRun # target[t] =>
                     newInv.status = IF newInv.lastRun = NoRun THEN "none"
                                     ELSE SeenRun(t, newInv.lastRun)
      BY <1>4, <2>1 DEF KeepsBadge
    <3>3. PICK q : q = newInv.lastRun
      OBVIOUS
    <3>4. q \in Runs \cup {NoRun}
      BY <1>2, <3>3 DEF TypeOK, InventoryRow
    <3>5. q \in Runs => SeenRun(t, q)' = SeenRun(t, q)
      <4> SUFFICES ASSUME q \in Runs PROVE SeenRun(t, q)' = SeenRun(t, q)
        OBVIOUS
      <4>1. CASE runLock[q] = t
        BY <1>7, <4>1
      <4>2. CASE runLock[q] # t
        <5>1. run'[q] = run[q]
          <6>1. inv.lastRun = q \/ (docLock # t /\ HoldsJob(t, q))
            BY <3>2, <3>3, <4>2
          <6>2. runLock[q] = s /\ newRun[q] # run[q] => FALSE
            BY <1>3, <2>0, <2>1, <6>1, HeldRunStays DEF KeepsBadge
          <6> QED
            BY <1>1, <6>2 DEF CommitFacts
        <5> QED
          BY <1>5, <4>2, <5>1 DEF SeenRun
      <4> QED
        BY <4>1, <4>2
    <3>6. newInv'.lastRun = q /\ newInv'.status = newInv.status
      BY <1>5, <3>3
    <3>7. SeenRun(t, newInv.lastRun)' = SeenRun(t, q)'
      BY <3>6 DEF SeenRun
    <3>8. HoldsJob(t, newInv.lastRun)' <=> HoldsJob(t, q)'
      BY <3>6 DEF HoldsJob
    <3>9. \/ q = inv'.lastRun
          \/ q \in Runs /\ docLock' # t /\ HoldsJob(t, q)'
          \/ q \in Runs /\ runLock'[q] = t /\ run'[q] = "none"
      BY <1>5, <1>6, <3>1, <3>2, <3>3
    <3>10. pc'[t] \notin BadgeOpen \/ q # target'[t] =>
                     newInv.status = IF q = NoRun THEN "none" ELSE SeenRun(t, q)'
      BY <1>5, <3>2, <3>3, <3>4, <3>5, NoRunAssumption
    <3> QED
      BY <3>3, <3>7, <3>8, <3>9, <3>10
  <2>2. ASSUME NEW r \in Runs, runLock[r] = t, newRun[r] # run'[r], inv'.lastRun = r,
               ~(target[t] = r /\ pc[t] \in BeforeMirror)
        PROVE  invLock = t
    <3>1. newRun[r] # run[r]
      BY <1>5, <2>2
    <3>2. CASE inv.lastRun = r
      BY <1>4, <2>2, <3>1, <3>2 DEF KeepsBadge
    <3>3. CASE inv.lastRun # r
      <4>1. invLock = s /\ newInv.lastRun = r
        BY <1>1, <2>2, <3>3 DEF CommitFacts
      <4>2. docLock # s /\ HoldsJob(s, r)
        BY <1>3, <2>2, <3>3, <4>1 DEF KeepsBadge
      <4> QED
        BY <2>2, <3>1, <4>2, HeldRunStays
    <3> QED
      BY <3>2, <3>3
  <2> QED
    BY <1>5, <2>1, <2>2 DEF KeepsBadge
<1>14. LeavesNoIdleRun(t)'
  <2> SUFFICES ASSUME docLock # t PROVE LeavesNoIdleRun(t)'
    BY <1>5 DEF LeavesNoIdleRun
  <2>0. LeavesNoIdleRun(t)
    BY DEF StatementsConsistent, SessionOK
  <2>1. ASSUME NEW r \in Runs, HoldsJob(t, r) PROVE SeenRun(t, r)' = SeenRun(t, r)
    <3>1. runLock[r] = s => newRun[r] = run[r]
      BY <2>1, HeldRunStays
    <3>2. run'[r] = run[r]
      BY <1>1, <3>1 DEF CommitFacts
    <3> QED
      BY <1>5, <3>2 DEF SeenRun
  <2>2. ASSUME NEW r \in Runs, HoldsJob(t, r), NEW j \in JobsOf(r), SeenJob(t, j) \in ActiveJobStatuses
        PROVE  SeenJob(t, j)' \in ActiveJobStatuses
    <3>0. j \in Jobs
      BY Slotting
    <3>1. CASE jobLock[j] # s
      BY <1>1, <1>5, <2>2, <3>0, <3>1 DEF CommitFacts, SeenJob
    <3>2. CASE jobLock[j] = s
      <4>1. docLock = s
        <5>1. HoldsJob(s, r)
          BY <3>2 DEF HoldsJob
        <5> QED
          BY <2>2, <5>1, OneWriter
      <4>2. job'[j] = "queued" /\ jobLock'[j] # t
        BY <1>1, <1>3, <1>5, <3>0, <3>2, <4>1 DEF CommitFacts, DocumentTransaction
      <4> QED
        BY <4>2, Statuses DEF SeenJob
    <3> QED
      BY <3>1, <3>2
  <2>3. pc[t] \in {"failed_mirror", "cancel_siblings"} => target[t] \in Runs /\ HoldsJob(t, target[t])
    BY JobTarget DEF JobSteps, Steps, DocumentSteps, SelectSteps, WriteSteps
  <2>4. ASSUME NEW r \in Runs, HoldsJob(t, r)'
        PROVE  \/ \E j \in JobsOf(r) : SeenJob(t, j)' \in ActiveJobStatuses
               \/ ~Active(SeenRun(t, r))'
               \/ target'[t] = r /\ pc'[t] \in Unsettled
    BY <1>5, <1>6, <2>0, <2>1, <2>2, <2>4 DEF LeavesNoIdleRun, Active
  <2>5. ASSUME pc[t] \in {"failed_mirror", "cancel_siblings"} PROVE ~Active(SeenRun(t, target[t]))'
    <3>1. PICK r \in Runs : r = target[t] /\ HoldsJob(t, r)
      BY <2>3, <2>5
    <3>2. ~Active(SeenRun(t, r))
      BY <2>0, <2>5, <3>1 DEF LeavesNoIdleRun
    <3>3. ~Active(SeenRun(t, r))'
      BY <2>1, <3>1, <3>2 DEF Active
    <3>4. target'[t] = r
      BY <1>5, <3>1
    <3> QED
      BY <3>3, <3>4 DEF Active, SeenRun
  <2> QED
    BY <1>5, <2>4, <2>5 DEF LeavesNoIdleRun
<1> QED
  BY <1>9, <1>10, <1>11, <1>12, <1>13, <1>14 DEF SessionOK

-----------------------------------------------------------------------------
(* The invariant. *)

(* The invariant holds at the start, *)
LEMMA InitConsistent == Init => StatementsConsistent
<1> SUFFICES ASSUME Init PROVE StatementsConsistent
  OBVIOUS
<1>1. TypeOK
  BY InitType
<1>2. CommittedOK
  BY NoRunAssumption, Statuses, Slotting DEF Init, CommittedOK, UnlockedRowsClean, UnbornRunHasNoJobs, StageOrder,
     OneMetadataJob, OneActiveRun, BadgeFollowsRun, ActiveRunHasWork, OnlyBackfilledWorkStrands, Active
<1>3. ASSUME NEW s \in Sessions PROVE SessionOK(s)
  <2>1. HoldsNothing(s) /\ docLock # s /\ pc[s] = "idle"
    BY NoSessionAssumption DEF Init, HoldsNothing
  <2>2. "idle" \notin SelectSteps
    BY DEF SelectSteps
  <2> QED
    BY <2>1, <2>2, HoldingNothing
<1> QED
  BY <1>1, <1>2, <1>3 DEF StatementsConsistent

(* under stuttering, *)
LEMMA StutterConsistent ==
  ASSUME StatementsConsistent, UNCHANGED vars
  PROVE  StatementsConsistent'
<1>1. /\ run' = run /\ job' = job /\ inv' = inv /\ newRun' = newRun /\ newJob' = newJob /\ newInv' = newInv
      /\ runLock' = runLock /\ jobLock' = jobLock /\ invLock' = invLock /\ docLock' = docLock
      /\ pc' = pc /\ target' = target
  BY DEF vars, committed, runRows, jobRows, invRow
<1>2. TypeOK'
  BY <1>1 DEF StatementsConsistent, TypeOK
<1>3. CommittedOK'
  BY <1>1 DEF StatementsConsistent, CommittedOK, UnlockedRowsClean, UnbornRunHasNoJobs, StageOrder,
     OneMetadataJob, OneActiveRun, BadgeFollowsRun, ActiveRunHasWork, OnlyBackfilledWorkStrands
<1>4. ASSUME NEW s \in Sessions PROVE SessionOK(s)'
  BY <1>1, UnseenSession DEF Unseen
<1> QED
  BY <1>2, <1>3, <1>4 DEF StatementsConsistent

(* and under every step. *)
LEMMA StepConsistent ==
  ASSUME StatementsConsistent, [Next]_vars
  PROVE  StatementsConsistent'
<1>1. CASE UNCHANGED vars
  BY <1>1, StutterConsistent
<1>2. ASSUME NEW s \in Sessions, BeginOrRead(s) \/ Continue(s) \/ Commit(s) \/ Rollback(s)
      PROVE  StatementsConsistent'
  <2>1. CASE BeginOrRead(s) \/ Continue(s)
    BY <2>1, StatementStep
  <2>2. CASE Commit(s)
    <3>1. TypeOK' /\ CommittedOK'
      BY <2>2, Committing, CommitKeepsCommitted
    <3>2. \A t \in Sessions : SessionOK(t)'
      BY <2>2, CommitEndsSession, CommitUnderSession
    <3> QED
      BY <3>1, <3>2 DEF StatementsConsistent
  <2>3. CASE Rollback(s)
    BY <2>3, RollbackStep
  <2> QED
    BY <1>2, <2>1, <2>2, <2>3
<1> QED
  BY <1>1, <1>2 DEF Next

(* For any number of sessions and runs, and wherever transactions cross, fail
   or are cut off: one metadata job per run, one active run, stages in order,
   a badge that equals the status of its run, and every open transaction
   still finds what it has decided on (the statements of jobs.rs, runs.rs and
   startup_repairs.rs). *)
THEOREM StatementsStayConsistent == Spec => []StatementsConsistent
<1>1. StatementsConsistent /\ [Next]_vars => StatementsConsistent'
  BY StepConsistent
<1> QED
  BY <1>1, InitConsistent, PTL DEF Spec

(* A settled run leaves a job behind only if it succeeded and a metadata
   backfill inserted the job meanwhile: nothing else complete_job, fail_job,
   claims, creations and repairs do between their statements strands work. *)
THEOREM OnlyBackfillsStrand == Spec => []OnlyBackfilledWorkStrands
<1>1. StatementsConsistent => OnlyBackfilledWorkStrands
  BY DEF StatementsConsistent, CommittedOK
<1> QED
  BY <1>1, StatementsStayConsistent, PTL

(* A run that is active in the database has a job that is: no interleaving of
   complete_job, fail_job, creations and repairs leaves a document with a run
   that nobody works on and that keeps every new run out.                  *)
THEOREM ActiveRunsHaveWork == Spec => []ActiveRunHasWork
<1>1. StatementsConsistent => ActiveRunHasWork
  BY DEF StatementsConsistent, CommittedOK
<1> QED
  BY <1>1, StatementsStayConsistent, PTL

-----------------------------------------------------------------------------
(* Waiting. *)

(* A session that is about to select holds nothing, so nobody waits for it. *)
LEMMA SelectsWithNothing ==
  ASSUME StatementsConsistent, NEW s \in Sessions, pc[s] \in SelectSteps
  PROVE  HoldsNothing(s)
  BY DEF StatementsConsistent, SessionOK, KnowsItsLocks

(* A job transaction waits for a run only if a repair that mirrors or commits has it. *)
LEMMA WaitsForRun ==
  ASSUME StatementsConsistent, NEW s \in Sessions, NEW t \in Sessions \ {s},
         NeedsRun(s), runLock[target[s]] = t
  PROVE  pc[t] \in {"repair_mirror", "commit"}
<1>1. pc[s] \in JobSteps
  BY DEF NeedsRun, JobSteps, Steps, DocumentSteps, SelectSteps, WriteSteps
<1>2. docLock # s /\ target[s] \in Runs /\ HoldsJob(s, target[s])
  BY <1>1, JobTarget
<1>3. JobTransaction(t) /\ DocumentTransaction(t)
  BY DEF StatementsConsistent, SessionOK
<1>4. docLock = t
  BY <1>2, <1>3, OneWriter DEF JobTransaction
<1>5. newRun[target[s]] = run[target[s]]
  BY <1>2, HeldRunStays
<1> QED
  BY <1>2, <1>3, <1>4, <1>5 DEF DocumentTransaction

(* fail_job never waits for the siblings it cancels. *)
LEMMA CancelsAtOnce ==
  ASSUME StatementsConsistent, NEW s \in Sessions, NEW t \in Sessions \ {s}, pc[s] = "cancel_siblings",
         NEW j \in JobsOf(target[s]), SeenJob(s, j) \in ActiveJobStatuses, jobLock[j] = t
  PROVE  FALSE
<1>1. docLock # s /\ target[s] \in Runs /\ HoldsJob(s, target[s])
  BY JobTarget DEF JobSteps, Steps, DocumentSteps, SelectSteps, WriteSteps
<1>2. JobTransaction(t) /\ DocumentTransaction(t)
  BY DEF StatementsConsistent, SessionOK
<1>3. j \in Jobs /\ j[1] = target[s] /\ HoldsJob(t, target[s]) /\ job[j] \in ActiveJobStatuses
  BY <1>1, Slotting DEF HoldsJob, SeenJob
<1>4. docLock = t
  BY <1>1, <1>3, OneWriter
<1>5. runLock[target[s]] = t
  BY <1>2, <1>3, <1>4 DEF DocumentTransaction
<1>6. run[target[s]] # "none"
  BY <1>1, <1>3, Statuses DEF StatementsConsistent, CommittedOK, UnbornRunHasNoJobs
<1>7. /\ (Active(run[target[s]]) \/ run[target[s]] = "succeeded") /\ j = <<target[s], t>>
      /\ \A k \in MetadataJobsOf(target[s]) : job[k] = "none"
  BY <1>1, <1>2, <1>3, <1>4, <1>5, <1>6, Statuses DEF DocumentTransaction
<1> QED
  BY <1>1, <1>3, <1>7, Slotting, Statuses

(* A circle of waits without a repair would end in one row of the inventory. *)
LEMMA NoCycle == StatementsConsistent => NoWaitCycle
<1> SUFFICES ASSUME StatementsConsistent, NEW C \in SUBSET Sessions, NEW s \in C,
                    \A p \in C : \E q \in C : WaitsFor(p, q),
                    \A p \in C : pc[p] # "repair_mirror"
             PROVE  FALSE
  BY DEF NoWaitCycle
<1>1. \A p, q \in C : WaitsFor(p, q) =>
         \/ p # q /\ NeedsInv(p) /\ invLock = q
         \/ pc[p] = "create_insert" /\ \E r \in Runs : runLock[r] = q
  <2> SUFFICES ASSUME NEW p \in C, NEW q \in C, WaitsFor(p, q)
               PROVE  \/ p # q /\ NeedsInv(p) /\ invLock = q
                      \/ pc[p] = "create_insert" /\ \E r \in Runs : runLock[r] = q
    OBVIOUS
  <2>1. p # q /\ p \in Sessions /\ q \in Sessions
    BY DEF WaitsFor
  <2>2. CASE NeedsRun(p) /\ runLock[target[p]] = q
    <3>1. pc[q] = "commit"
      BY <2>1, <2>2, WaitsForRun
    <3>2. \A u : ~WaitsFor(q, u)
      BY <3>1 DEF WaitsFor, NeedsRun, NeedsInv
    <3> QED
      BY <3>2
  <2>3. CASE /\ pc[p] = "cancel_siblings"
             /\ \E j \in JobsOf(target[p]) : SeenJob(p, j) \in ActiveJobStatuses /\ jobLock[j] = q
    BY <2>1, <2>3, CancelsAtOnce
  <2> QED
    BY <2>1, <2>2, <2>3 DEF WaitsFor
<1>2. \A p \in C : pc[p] # "create_insert"
  <2> SUFFICES ASSUME NEW p \in C, pc[p] = "create_insert" PROVE FALSE
    OBVIOUS
  <2>1. ~NeedsInv(p)
    BY DEF NeedsInv
  <2>2. PICK q \in C : \E r \in Runs : runLock[r] = q
    BY <1>1, <2>1
  <2>3. pc[q] # "create_insert"
    BY <2>2, SelectsWithNothing DEF SelectSteps, HoldsNothing
  <2>4. PICK u \in C : q # u /\ invLock = u
    BY <1>1, <2>3
  <2>5. PICK w \in C : WaitsFor(u, w)
    OBVIOUS
  <2>6. pc[u] # "create_insert"
    BY <2>4, SelectsWithNothing DEF SelectSteps, HoldsNothing
  <2> QED
    BY <1>1, <2>4, <2>5, <2>6
<1>3. PICK t \in C : s # t /\ invLock = t
  BY <1>1, <1>2
<1>4. PICK u \in C : t # u /\ invLock = u
  BY <1>1, <1>2
<1> QED
  BY <1>3, <1>4

(* claim_jobs, complete_job, fail_job and create_run_with_jobs never wait in a
   circle for the rows of a document, although they lock run and inventory in
   different orders: each circle needs a repair that is about to mirror. *)
THEOREM NoCircleOfWaits == Spec => []NoWaitCycle
  BY NoCycle, StatementsStayConsistent, PTL

-----------------------------------------------------------------------------
(* The refinement. *)

(* A commit is a step of the abstract life of a run, or none. *)
LEMMA CommitIsLifecycleStep ==
  ASSUME StatementsConsistent, NEW s \in Sessions, Commit(s)
  PROVE  [Lifecycle!Next]_([r \in Runs |-> Phase(r)])
<1>1. CommitFacts(s)
  BY Committing
<1>2. JobTransaction(s) /\ DocumentTransaction(s) /\ SettlesWhatIsDone(s) /\ OneActiveRun
  BY DEF StatementsConsistent, CommittedOK, SessionOK
<1>3. \A r \in Runs : Phase(r)' = IF Active(run'[r]) THEN "active" ELSE run'[r]
  BY DEF Phase, Active
<1>4. CASE \A r \in Runs : Phase(r)' = Phase(r)
  BY <1>4
<1>5. ASSUME NEW r \in Runs, Phase(r)' # Phase(r) PROVE Lifecycle!Next
  <2>1. runLock[r] = s /\ run'[r] = newRun[r]
    <3>1. run'[r] # run[r]
      BY <1>3, <1>5 DEF Phase
    <3> QED
      BY <1>1, <3>1 DEF CommitFacts
  <2>2. \A q \in Runs \ {r} : Phase(q)' = Phase(q)
    <3> SUFFICES ASSUME NEW q \in Runs \ {r}, runLock[q] = s PROVE FALSE
      BY <1>1, <1>3 DEF CommitFacts, Phase
    <3>1. docLock = s => target[s] = r /\ target[s] = q
      BY <1>2, <2>1 DEF DocumentTransaction
    <3>2. docLock # s => Active(run[r]) /\ Active(run[q])
      BY <1>2, <2>1 DEF JobTransaction
    <3> QED
      BY <1>2, <3>1, <3>2 DEF OneActiveRun
  <2>3. [q \in Runs |-> Phase(q)]' = [[q \in Runs |-> Phase(q)] EXCEPT ![r] = Phase(r)']
    BY <2>2
  <2>4. CASE docLock # s
    <3>1. Phase(r) = "active"
      BY <1>2, <2>1, <2>4 DEF JobTransaction, Phase
    <3>2. Phase(r)' \in {"succeeded", "failed"}
      BY <1>2, <1>3, <1>5, <2>1, <3>1 DEF SettlesWhatIsDone, Active
    <3>3. Lifecycle!Finish(r)
      BY <2>3, <3>1, <3>2 DEF Lifecycle!Finish, Lifecycle!Outcomes
    <3> QED
      BY <3>3 DEF Lifecycle!Next
  <2>5. CASE docLock = s
    <3>1. /\ run[r] \in {"none", "succeeded", "failed"} /\ newRun[r] = "queued"
          /\ \A q \in Runs : ~Active(run[q])
      BY <1>2, <1>3, <1>5, <2>1, <2>5 DEF DocumentTransaction, Phase
    <3>2. Phase(r) = run[r] /\ Phase(r)' = "active"
      BY <1>3, <2>1, <3>1, Statuses DEF Phase, Active
    <3>3. Lifecycle!DocIdle("document", [q \in Runs |-> Phase(q)])
      <4>1. \A q \in Runs : run[q] # "active"
        BY DEF StatementsConsistent, TypeOK, RunStatuses, ActiveRunStatuses, TerminalRunStatuses
      <4>2. \A q \in Runs : Phase(q) # "active"
        BY <3>1, <4>1 DEF Phase
      <4> QED
        BY <4>2 DEF Lifecycle!DocIdle
    <3>4. [q \in Runs |-> "document"][r] = "document"
      OBVIOUS
    <3>5. CASE run[r] = "none"
      <4>1. Lifecycle!Start(r)
        BY <2>3, <3>2, <3>3, <3>4, <3>5 DEF Lifecycle!Start
      <4> QED
        BY <4>1 DEF Lifecycle!Next
    <3>6. CASE run[r] \in {"succeeded", "failed"}
      <4>1. Lifecycle!Reopen(r)
        BY <2>3, <3>2, <3>3, <3>4, <3>6 DEF Lifecycle!Reopen
      <4> QED
        BY <4>1 DEF Lifecycle!Next
    <3> QED
      BY <3>1, <3>5, <3>6
  <2> QED
    BY <2>4, <2>5
<1> QED
  BY <1>4, <1>5

(* Seen from outside, statement by statement, a document's runs live as
   RunLifecycle says: only a commit starts, ends or reopens a run, one at a
   time, and never beside another active one. *)
THEOREM StatementsImplementLifecycle == Spec => CommitsImplementLifecycle
<1>1. Init => Lifecycle!Init
  <2> SUFFICES ASSUME Init PROVE \A r \in Runs : Phase(r) = "none"
    BY DEF Lifecycle!Init
  <2> QED
    BY Statuses DEF Init, Phase, Active
<1>2. StatementsConsistent /\ [Next]_vars => [Lifecycle!Next]_([r \in Runs |-> Phase(r)])
  <2> SUFFICES ASSUME StatementsConsistent, [Next]_vars
               PROVE  [Lifecycle!Next]_([r \in Runs |-> Phase(r)])
    OBVIOUS
  <2>1. CASE UNCHANGED run
    BY <2>1 DEF Phase, Active
  <2>2. CASE \E s \in Sessions : Commit(s)
    BY <2>2, CommitIsLifecycleStep
  <2>3. ASSUME NEW s \in Sessions, BeginOrRead(s) \/ Continue(s) \/ Rollback(s) PROVE UNCHANGED run
    BY <2>3 DEF BeginOrRead, Continue, Rollback, LockDocument, BeginBackfill, BeginRequeue, ClaimJob,
       CompleteJob, RetryJob, FailJob, ReleaseJob, EndJob, CreateInsert, CreateInventory, BackfillSelect,
       VisionSelect, VisionInventory, StageStatus, ReadRemaining, TransitionStep, MirrorStep, CancelSiblings,
       committed
  <2> QED
    BY <2>1, <2>2, <2>3 DEF Next, vars, committed
<1> QED
  BY <1>1, <1>2, StatementsStayConsistent, PTL DEF Spec, CommitsImplementLifecycle, Lifecycle!Spec
=============================================================================
