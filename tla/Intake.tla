--------------------------------- MODULE Intake ---------------------------------
(***************************************************************************)
(* How documents enter the pipeline: the trigger poll of each worker        *)
(* process, which syncs the inventory and creates runs, the auto-selector   *)
(* behind it, the syncs asked of the API, and the reconciliation of the     *)
(* full completion tag.                                                     *)
(*                                                                         *)
(* Paperless is edited by people all the time and stamps a modification     *)
(* with its own clock.  A run is one record: JobQueue has what happens      *)
(* between its creation and its end, DocumentStages what it writes.         *)
(***************************************************************************)
EXTENDS WorkflowTags, Integers, FiniteSets, Sequences

CONSTANTS Docs,         \* Paperless document ids, naturals
          Pollers,      \* worker processes: one poll at a time in each
          Requests,     \* syncs of the API that may be under way
          Enabled,      \* workflow.enabled_stages
          PeopleTags,   \* the tags people add and remove
          Overlap,      \* paperless.delta_sync_overlap_minutes
          Skews,        \* the Paperless clock against that of Archivist
          Limit,        \* hourly_document_limit
          BudgetWindow, \* the hour it is about
          DayLimit,     \* daily_document_limit
          DayWindow,    \* the day it is about
          FailCap,      \* AUTO_SELECTOR_FAILED_RUN_CAP
          Cooloff,      \* AUTO_SELECTOR_FAILED_COOLOFF_BASE_SECONDS
          MaxClock,     \* bound: the clock
          MaxRuns,      \* bound: runs of a document
          MaxEdits,     \* bound: edits in Paperless, manual triggers
          MaxFaults,    \* bound: failed calls, timeouts and crashes
          MaxCalls,     \* bound: syncs and reconciliations asked of the API
          Unset

Callers == Pollers \cup Requests
\* TERMINAL_STAGE_STATUSES, as far as a run or a sync sets them.
Resolved == {"succeeded", "rejected"}

ASSUME IntakeAssumption ==
  /\ Docs \subseteq Nat /\ IsFiniteSet(Docs) /\ Enabled \in (SUBSET Stages) \ {{}}
  /\ Pollers # {} /\ Pollers \cap Requests = {} /\ Skews \subseteq Int
  /\ {Overlap, Limit, BudgetWindow, DayLimit, DayWindow, Cooloff} \subseteq Nat
  /\ FailCap \in Nat \ {0}
  /\ {MaxClock, MaxRuns, MaxEdits, MaxFaults, MaxCalls} \subseteq Nat
  /\ Unset \notin Int

-----------------------------------------------------------------------------
VARIABLES clock,    \* Archivist's clock
          skew,     \* what Paperless' clock is ahead of it
          mode,     \* delta_sync_enabled, auto_select_documents, paused; they stay
          archive,  \* Docs -> the document in Paperless: tags, modified
          row,      \* Docs -> its document_inventory row
          runs,     \* Docs -> its pipeline_runs in the order of creation
          cursor,   \* paperless_sync_state.last_delta_cursor
          call,     \* Callers -> the sync in progress and the poll behind it
          recon,    \* the reconciliation in progress
          spent,    \* the bounded events that are left
          retagged, \* history: changes that left the document with a trigger tag
          raced,    \* history: runs that ended between a poll's lookup and its use
          outlasted \* history: rows last written from a listing that was outdated, by
                    \* a sync that had outlasted the overlap

intakeVars == <<clock, skew, mode, archive, row, runs, cursor, call, recon, spent,
                retagged, raced, outlasted>>
\* What only syncs and reconciliations change.
syncVars == <<cursor, call, recon>>

NoSync == [pc |-> "idle", start |-> 0, since |-> Unset, left |-> {}, snap |-> << >>, todo |-> {}]
NoRecon == [pc |-> "idle", open |-> {}, snap |-> << >>, todo |-> {}]

-----------------------------------------------------------------------------
(* Rows, runs and the queries over them. *)

Lowest(S) == CHOOSE d \in S : \A e \in S : d <= e

LatestRun(d) == runs[d][Len(runs[d])]
Running(d) == runs[d] # << >> /\ LatestRun(d).status = "active"

\* upsert_inventory_item: flags and complete follow the tags, a stage status is
\* raised by a completion tag and never lowered.
Upserted(r, seen) ==
  [r EXCEPT !.tags = seen.tags, !.modified = seen.modified, !.full = ProcessedTag \in seen.tags,
            !.status = [s \in Stages |->
               IF {DoneTag[s], ProcessedTag} \cap seen.tags # {} THEN "succeeded" ELSE r.status[s]]]

\* prepare_run_with_jobs_on_tx: the run in the document's lock, or the active one.
EnsureRun(rs, d, via, stages) ==
  IF rs[d] # << >> /\ rs[d][Len(rs[d])].status = "active" THEN rs
  ELSE [rs EXCEPT ![d] = Append(@, [via |-> via, stages |-> stages, status |-> "active",
                                    created |-> clock, finished |-> Unset, written |-> FALSE])]
Room(d) == Running(d) \/ Len(runs[d]) < MaxRuns

\* missing_pipeline_stages_for_inventory.
MissingStages(r) ==
  IF r.full THEN {}
  ELSE {s \in Enabled : DoneTag[s] \notin r.tags /\ r.status[s] \notin Resolved}

\* The failed runs since the last succeeded one.
FailedRuns(d) ==
  {i \in 1..Len(runs[d]) :
     /\ runs[d][i].status = "failed"
     /\ \A j \in i..Len(runs[d]) : runs[d][j].status # "succeeded"}

CoolingOff(d) ==
  LET fails == FailedRuns(d)  n == Cardinality(fails) IN
  \/ n >= FailCap
  \/ \E i \in fails : runs[d][i].finished > clock - Cooloff * 2 ^ (n - 1)

\* queue_missing_pipeline: what the auto-selector may pick, in the order of the ids.
Candidates == {d \in Docs : ~Running(d) /\ ~CoolingOff(d) /\ MissingStages(row[d]) # {}}
Picked(budget) == {d \in Candidates : Cardinality({e \in Candidates : e < d}) < budget}

\* auto_selector_runs_since.
SelectedSince(t) ==
  {d \in Docs : \E i \in 1..Len(runs[d]) :
                  runs[d][i].via = "auto-selector" /\ runs[d][i].created >= t}

\* completed_document_ids_missing_full_tag, reserve_completion_tag_reconcile.
Reconcilable(d) ==
  ~row[d].full /\ ~Running(d) /\ \A s \in Enabled : row[d].status[s] \in Resolved

\* completion_tag_reconcile_needed.
TaggedDone(tags) == \A s \in Enabled : DoneTag[s] \in tags
NeedsFullTag(d) ==
  (d \in recon.open \/ TaggedDone(recon.snap[d])) /\ ProcessedTag \notin recon.snap[d]

\* Paperless stamps every change of a document.
Stamp == clock + skew
Change(d, tags) ==
  /\ archive' = [archive EXCEPT ![d] = [tags |-> tags, modified |-> Stamp]]
  /\ retagged' = [retagged EXCEPT ![d] = @ + IF tags \cap TriggerTags # {} THEN 1 ELSE 0]
  /\ outlasted' = outlasted \ {d}

Spend(kind) == spent[kind] > 0 /\ spent' = [spent EXCEPT ![kind] = @ - 1]

IntakeInit ==
  /\ clock = 0 /\ skew \in Skews
  /\ mode \in [delta : BOOLEAN, auto : BOOLEAN, paused : BOOLEAN]
  /\ archive \in [Docs -> [tags : SUBSET PeopleTags, modified : {skew}]]
  /\ row = [d \in Docs |->
       Upserted([tags |-> {}, modified |-> skew, full |-> FALSE,
                 status |-> [s \in Stages |-> "unknown"]], archive[d])]
  /\ runs = [d \in Docs |-> << >>]
  /\ cursor \in {Unset, 0}
  /\ call = [c \in Callers |-> NoSync] /\ recon = NoRecon
  /\ spent \in [edits : 0..MaxEdits, faults : 0..MaxFaults, calls : 0..MaxCalls]
  /\ retagged = [d \in Docs |-> IF archive[d].tags \cap TriggerTags # {} THEN 1 ELSE 0]
  /\ raced = [d \in Docs |-> 0] /\ outlasted = {}

-----------------------------------------------------------------------------
(* Time, people and the end of a run. *)

\* A poll is dropped at its timeout, which Drop may do at any time; a sync of
\* the API has none.
ClockTick ==
  /\ clock < MaxClock /\ clock' = clock + 1
  /\ UNCHANGED <<skew, mode, archive, row, runs, spent, retagged, raced, outlasted, syncVars>>

\* People edit the tags in Paperless.
Edit(d) ==
  /\ Spend("edits")
  /\ \E tag \in PeopleTags : Change(d, (archive[d].tags \ {tag}) \cup ({tag} \ archive[d].tags))
  /\ UNCHANGED <<clock, skew, mode, row, runs, raced, syncVars>>

\* trigger_document: an operator asks for every enabled stage.
TriggerByHand(d) ==
  /\ Spend("edits") /\ Room(d)
  /\ runs' = EnsureRun(runs, d, "manual", Enabled)
  /\ UNCHANGED <<clock, skew, mode, archive, row, retagged, raced, outlasted, syncVars>>

\* The PATCH of the last stage: completion tags in, the served triggers out.
WriteRun(d) ==
  /\ Running(d) /\ ~LatestRun(d).written
  /\ runs' = [runs EXCEPT ![d][Len(runs[d])].written = TRUE]
  /\ Change(d, (archive[d].tags \cup {ProcessedTag} \cup {DoneTag[s] : s \in LatestRun(d).stages})
                 \ ({ProcessTag} \cup UNION {TriggersOf[s] : s \in LatestRun(d).stages}))
  /\ UNCHANGED <<clock, skew, mode, row, spent, raced, syncVars>>

\* The run ends: its suggestions written, all of them rejected, or failed for good.
EndRun(d, status) ==
  /\ Running(d) /\ (LatestRun(d).written <=> status = "succeeded")
  /\ runs' = [runs EXCEPT ![d][Len(runs[d])] = [@ EXCEPT !.status = status, !.finished = clock]]
  /\ row' = [row EXCEPT ![d].status =
               [s \in Stages |-> IF s \in LatestRun(d).stages THEN status ELSE @[s]]]
  /\ raced' = [raced EXCEPT ![d] = @ +
       IF \E p \in Pollers : call[p].pc = "create" /\ d \in call[p].todo THEN 1 ELSE 0]
  /\ UNCHANGED <<clock, skew, mode, archive, spent, retagged, outlasted, syncVars>>

\* retire_trigger_tags_after_terminal_outcome: after a failure every trigger
\* goes, when the worker lives and Paperless answers.
RetireTriggers(d) ==
  /\ runs[d] # << >> /\ LatestRun(d).status = "failed" /\ ~LatestRun(d).written
  /\ archive[d].tags \cap TriggerTags # {}
  /\ Change(d, archive[d].tags \ TriggerTags)
  /\ runs' = [runs EXCEPT ![d][Len(runs[d])].written = TRUE]
  /\ UNCHANGED <<clock, skew, mode, row, spent, raced, syncVars>>

-----------------------------------------------------------------------------
(* sync_metadata in the worker, sync_paperless_inventory in the API. *)

\* Mutation: the cursor itself, without the overlap.
SinceCursor == IF mode.delta /\ cursor # Unset THEN cursor ELSE Unset

\* Where a delta starts, Unset for a full listing.
Since == IF mode.delta /\ cursor # Unset THEN cursor - Overlap ELSE Unset
Listed(since) == {d \in Docs : since = Unset \/ archive[d].modified > since}

\* The stamp of a sync, taken before it asks for the tags and adds the missing.
StartSync(c) ==
  /\ call[c].pc = "idle"
  /\ IF c \in Pollers THEN ~mode.paused /\ UNCHANGED spent ELSE Spend("calls")
  /\ call' = [call EXCEPT ![c] = [NoSync EXCEPT !.pc = "read", !.start = clock]]
  /\ UNCHANGED <<clock, skew, mode, archive, row, runs, cursor, recon, retagged, raced, outlasted>>

Listing(start, since) ==
  [pc |-> "sync", start |-> start, since |-> since, left |-> Docs, snap |-> << >>, todo |-> {}]

ReadCursor(c) ==
  /\ call[c].pc = "read"
  /\ call' = [call EXCEPT ![c] = Listing(@.start, Since)]
  /\ UNCHANGED <<clock, skew, mode, archive, row, runs, cursor, recon, spent, retagged, raced, outlasted>>

\* Page after page: each document is listed as it is at the time of its page.
ListPage(c, d) ==
  /\ call[c].pc = "sync" /\ d \in call[c].left
  /\ LET listed == call[c].todo \cup ({d} \cap Listed(call[c].since)) IN
     call' = [call EXCEPT
       ![c].left = @ \ {d}, ![c].todo = listed,
       ![c].snap = [e \in listed |-> IF e = d THEN archive[d] ELSE @[e]]]
  /\ UNCHANGED <<clock, skew, mode, archive, row, runs, cursor, recon, spent, retagged, raced, outlasted>>

\* A delta that fails becomes a full listing.
ListAll(c) ==
  /\ call[c].pc = "sync" /\ call[c].left # {} /\ call[c].since # Unset /\ Spend("faults")
  /\ call' = [call EXCEPT ![c] = Listing(@.start, Unset)]
  /\ UNCHANGED <<clock, skew, mode, archive, row, runs, cursor, recon, retagged, raced, outlasted>>

\* The cursor a sync leaves behind.
NextCursor(start) == start

Fetched(c) == call[c].pc = "sync" /\ call[c].left = {}

\* Rows stored as a sync listed them, whatever has been stored since.
Outdated(k, d) == k.snap[d].tags # archive[d].tags /\ clock - k.start >= Overlap + skew
Store(k, stored) ==
  /\ row' = [d \in Docs |-> IF d \in stored THEN Upserted(row[d], k.snap[d]) ELSE row[d]]
  /\ outlasted' = (outlasted \ stored) \cup {d \in stored : Outdated(k, d)}

\* A worker commits batches in the order of the ids, the cursor after them.
UpsertBatch(p) ==
  LET d == Lowest(call[p].todo) IN
  /\ Fetched(p) /\ call[p].todo # {}
  /\ Store(call[p], {d})
  /\ call' = [call EXCEPT ![p].todo = @ \ {d}]
  /\ UNCHANGED <<clock, skew, mode, archive, runs, cursor, recon, spent, retagged, raced>>

AdvanceCursor(p) ==
  /\ Fetched(p) /\ call[p].todo = {}
  /\ cursor' = NextCursor(call[p].start)
  /\ call' = [call EXCEPT ![p].pc = "lookup"]
  /\ UNCHANGED <<clock, skew, mode, archive, row, runs, recon, spent, retagged, raced, outlasted>>

\* The API commits rows and cursor in one transaction.
CommitSync(q) ==
  /\ Fetched(q)
  /\ Store(call[q], call[q].todo)
  /\ cursor' = NextCursor(call[q].start) /\ call' = [call EXCEPT ![q] = NoSync]
  /\ UNCHANGED <<clock, skew, mode, archive, runs, recon, spent, retagged, raced>>

\* An error, the timeout or a crash drops the call where it is.
Drop(c) ==
  /\ call[c].pc # "idle" /\ Spend("faults")
  /\ call' = [call EXCEPT ![c] = NoSync]
  /\ UNCHANGED <<clock, skew, mode, archive, row, runs, cursor, recon, retagged, raced, outlasted>>

-----------------------------------------------------------------------------
(* poll_paperless_triggers after its sync. *)

\* Mutation: only a run that succeeded counts as the answer to a trigger.
HandledWithSuccess(d, seen) ==
  /\ runs[d] # << >> /\ LatestRun(d).status = "succeeded"
  /\ LatestRun(d).finished >= seen.modified

\* trigger_already_handled: the trigger only survived the latest run.
Handled(d, seen) ==
  /\ runs[d] # << >> /\ ~Running(d)
  /\ LatestRun(d).finished >= seen.modified

Lookup(p) ==
  LET snap == call[p].snap IN
  /\ call[p].pc = "lookup"
  /\ call' = [call EXCEPT ![p].pc = "create",
       ![p].todo = {d \in DOMAIN snap : Requested(snap[d].tags) # {} /\ ~Handled(d, snap[d])}]
  /\ UNCHANGED <<clock, skew, mode, archive, row, runs, cursor, recon, spent, retagged, raced, outlasted>>

CreateRun(p, d) ==
  /\ call[p].pc = "create" /\ d \in call[p].todo /\ Room(d)
  /\ runs' = EnsureRun(runs, d, "trigger", Requested(call[p].snap[d].tags))
  /\ call' = [call EXCEPT ![p].todo = @ \ {d}]
  /\ UNCHANGED <<clock, skew, mode, archive, row, cursor, recon, spent, retagged, raced, outlasted>>

\* The budget: what is left of the hour and of the day, whichever is less; and,
\* with it, the candidates.
Budget == Lowest({Limit - Cardinality(SelectedSince(clock - BudgetWindow)),
                  DayLimit - Cardinality(SelectedSince(clock - DayWindow))})
Select(p) ==
  /\ call[p].pc = "create" /\ call[p].todo = {}
  /\ call' = [call EXCEPT ![p] =
       IF mode.auto /\ Budget > 0
       THEN [@ EXCEPT !.pc = "select", !.todo = Picked(Budget),
                      !.snap = [d \in Picked(Budget) |-> MissingStages(row[d])]]
       ELSE NoSync]
  /\ UNCHANGED <<clock, skew, mode, archive, row, runs, cursor, recon, spent, retagged, raced, outlasted>>

\* The runs of the candidates, once their document locks are held.
QueueSelected(p) ==
  /\ call[p].pc = "select" /\ \A d \in call[p].todo : Room(d)
  /\ runs' = [d \in Docs |-> IF d \in call[p].todo
                THEN EnsureRun(runs, d, "auto-selector", call[p].snap[d])[d] ELSE runs[d]]
  /\ call' = [call EXCEPT ![p] = NoSync]
  /\ UNCHANGED <<clock, skew, mode, archive, row, cursor, recon, spent, retagged, raced, outlasted>>

-----------------------------------------------------------------------------
(* reconcile_completion_tags. *)

StartReconcile ==
  /\ recon.pc = "idle" /\ Spend("calls")
  /\ recon' = [NoRecon EXCEPT !.pc = "list", !.open = {d \in Docs : Reconcilable(d)}]
  /\ UNCHANGED <<clock, skew, mode, archive, row, runs, cursor, call, retagged, raced, outlasted>>

ListReconcile ==
  /\ recon.pc = "list"
  /\ recon' = [recon EXCEPT !.pc = "next", !.todo = Docs,
                            !.snap = [d \in Docs |-> archive[d].tags]]
  /\ UNCHANGED <<clock, skew, mode, archive, row, runs, cursor, call, spent, retagged, raced, outlasted>>

\* The next document: not needed, no longer eligible, or on to the write; a
\* document done by its status alone is reserved in its lock first.
Reserve(d) ==
  LET reserved == d \in recon.open /\ ~TaggedDone(recon.snap[d]) IN
  /\ recon.pc = "next" /\ recon.todo # {} /\ d = Lowest(recon.todo)
  /\ IF NeedsFullTag(d) /\ (reserved => Reconcilable(d))
     THEN /\ recon' = [recon EXCEPT !.pc = IF reserved THEN "reserved" ELSE "write"]
          /\ row' = IF reserved THEN [row EXCEPT ![d].full = TRUE] ELSE row
     ELSE /\ recon' = [recon EXCEPT !.todo = @ \ {d}]
          /\ UNCHANGED row
  /\ UNCHANGED <<clock, skew, mode, archive, runs, cursor, call, spent, retagged, raced, outlasted>>

WriteFullTag(d) ==
  /\ recon.pc \in {"reserved", "write"} /\ d = Lowest(recon.todo)
  /\ Change(d, archive[d].tags \cup {ProcessedTag})
  /\ recon' = [recon EXCEPT !.pc = "record"]
  /\ UNCHANGED <<clock, skew, mode, row, runs, cursor, call, spent, raced>>

\* The write failed, or its answer was lost: the reservation goes, the call stops.
FailWrite(d) ==
  /\ recon.pc \in {"reserved", "write"} /\ d = Lowest(recon.todo) /\ Spend("faults")
  /\ Change(d, archive[d].tags \cup {ProcessedTag}) \/ UNCHANGED <<archive, retagged, outlasted>>
  /\ recon' = IF recon.pc = "reserved" THEN [recon EXCEPT !.pc = "release"] ELSE NoRecon
  /\ UNCHANGED <<clock, skew, mode, row, runs, cursor, call, raced>>

Release(d) ==
  /\ recon.pc = "release" /\ d = Lowest(recon.todo)
  /\ row' = [row EXCEPT ![d].full = FALSE] /\ recon' = NoRecon
  /\ UNCHANGED <<clock, skew, mode, archive, runs, cursor, call, spent, retagged, raced, outlasted>>

RecordTag(d) ==
  /\ recon.pc = "record" /\ d = Lowest(recon.todo)
  /\ row' = [row EXCEPT ![d].full = TRUE]
  /\ recon' = [recon EXCEPT !.pc = "next", !.todo = @ \ {d}]
  /\ UNCHANGED <<clock, skew, mode, archive, runs, cursor, call, spent, retagged, raced, outlasted>>

EndReconcile ==
  /\ recon.pc = "next" /\ recon.todo = {} /\ recon' = NoRecon
  /\ UNCHANGED <<clock, skew, mode, archive, row, runs, cursor, call, spent, retagged, raced, outlasted>>

\* The API process dies.
DropReconcile ==
  /\ recon.pc # "idle" /\ Spend("faults") /\ recon' = NoRecon
  /\ UNCHANGED <<clock, skew, mode, archive, row, runs, cursor, call, retagged, raced, outlasted>>

SyncStep(c) ==
  \/ StartSync(c) \/ ReadCursor(c) \/ ListAll(c) \/ Drop(c)
  \/ \E d \in Docs : ListPage(c, d)
PollStep(p) ==
  \/ UpsertBatch(p) \/ AdvanceCursor(p) \/ Lookup(p) \/ Select(p) \/ QueueSelected(p)
  \/ \E d \in Docs : CreateRun(p, d)
DocStep(d) ==
  \/ Edit(d) \/ TriggerByHand(d) \/ WriteRun(d) \/ RetireTriggers(d)
  \/ \E status \in {"succeeded", "rejected", "failed"} : EndRun(d, status)
  \/ Reserve(d) \/ WriteFullTag(d) \/ FailWrite(d) \/ Release(d) \/ RecordTag(d)

IntakeNext ==
  \/ ClockTick \/ StartReconcile \/ ListReconcile \/ EndReconcile \/ DropReconcile
  \/ \E c \in Callers : SyncStep(c)
  \/ \E p \in Pollers : PollStep(p)
  \/ \E q \in Requests : CommitSync(q)
  \/ \E d \in Docs : DocStep(d)

IntakeSpec == IntakeInit /\ [][IntakeNext]_intakeVars

-----------------------------------------------------------------------------
(* Properties. *)

\* Every variable has its type: calls are at a known step and hold listed
\* documents, rows and runs carry statuses of their tables.
IntakeTypeOK ==
  /\ clock \in 0..MaxClock /\ cursor \in {Unset} \cup 0..MaxClock
  /\ \A d \in Docs :
       /\ archive[d].tags \cup row[d].tags \subseteq Workflow \cup PeopleTags
       /\ row[d].status \in [Stages -> {"unknown", "failed"} \cup Resolved]
       /\ Len(runs[d]) <= MaxRuns
       /\ \A i \in 1..Len(runs[d]) :
            /\ runs[d][i].status \in {"active", "failed"} \cup Resolved
            /\ runs[d][i].stages \in (SUBSET Stages) \ {{}}
            /\ runs[d][i].status = "active" <=> runs[d][i].finished = Unset
  /\ \A c \in Callers :
       /\ call[c].pc \in {"idle", "read", "sync", "lookup", "create", "select"}
       /\ call[c].pc \in {"sync", "create"} => call[c].todo \subseteq DOMAIN call[c].snap
       /\ c \in Requests => call[c].pc \in {"idle", "read", "sync"}

\* The inventory misses no edit: the row of a document agrees with Paperless, or
\* the document is among those the next sync lists, however many syncs overlap,
\* fail or crash between two batches (the overlap and the cursor of sync_metadata
\* and sync_paperless_inventory).  Two limits: Paperless' clock is behind by less
\* than the overlap, and a sync that outlasts the overlap may put an older row
\* over a newer one, which no later delta repairs.
EditsReachInventory ==
  Overlap + skew > 0 =>
    \A d \in Docs : row[d].tags = archive[d].tags \/ d \in Listed(Since) \/ d \in outlasted

\* A trigger tag that survives its run starts no loop: the poll creates no more
\* runs of a document than changes left a trigger tag on it, but for runs that
\* ended between the poll's lookup and its use, and for a Paperless clock ahead
\* of Archivist's (trigger_already_handled).
NoTriggerLoop ==
  skew <= 0 => \A d \in Docs :
    Cardinality({i \in 1..Len(runs[d]) : runs[d][i].via = "trigger"})
      <= retagged[d] + raced[d]
==================================================================================
