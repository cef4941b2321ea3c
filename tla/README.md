# Paperless Archivist in TLA+

Paperless Archivist runs documents of a Paperless-ngx archive through OCR and
metadata stages. One Postgres database holds the pipeline; any number of worker
processes poll it; an HTTP API lets people create runs, decide review items and
administer accounts and settings; a shared library writes accepted changes back
to Paperless. This directory holds a TLA+ model of that machinery, TLC runs of it
on small instances, and proofs checked by TLAPS. Paths below are relative to
`crates/`.

## The system

| part | state it keeps | operations | hard behaviour |
| --- | --- | --- | --- |
| queue, `archivist-db/src/jobs.rs` | `jobs`: status, lease owner, lease end, attempts, run_after | claim, heartbeat, complete, fail, release, recover | many processes claim; a lease may expire under a task that still runs; the fence is the owner column |
| runs, `archivist-db/src/runs.rs`, `transitions.rs` | `pipeline_runs.status`, `document_inventory` mirror | create, queue missing stages, every status change | one active run per document; a copied status in another table |
| reviews, `archivist-db/src/reviews.rs` | `review_items.status`, `apply_intents` | create, approve, reject, claim, settle, revert, conflict, retry | several items per job, decided while the stage still creates them |
| repairs, `archivist-db/src/startup_repairs.rs` | markers | vision requeue, metadata backfill, stuck-run reset, stale sweep, context-size floors | reopen rows that ended; edit the settings row while people save it |
| worker, `archivist-worker/src/{claim_loop,job_supervisor,main}.rs` | map of jobs in flight, tasks, watchdogs, heartbeat | claim cycle, spawn, abort, shutdown | lease, task and map entry live in three places |
| stages, `archivist-worker/src/{ocr_stage,metadata_stage,apply}.rs` | none beyond the task | ask a model, validate, review or write, retire tags | the document is edited while the model thinks; a crash between any two statements |
| provider calls, `archivist-ai`, `archivist-ocr`, `archivist-worker/src/{lease,failure,providers}.rs` | `ai_provider_cooldowns` | call under a lease, classify the reply, record and lift a cooldown | a call may outlast its lease; cooldowns are reported out of order |
| apply, `archivist-apply/src/lib.rs`, `drain.rs`, `apply_lock.rs` | apply intents, advisory lock per source | prepare, PATCH, confirm, reconcile | the write is in another system and its answer can be lost |
| intake, `archivist-worker/src/{sync,trigger_poll}.rs`, `archivist-db/src/{inventory,runs}.rs` | delta cursor, inventory, tag reservation | sync, poll, auto-select, reconcile the completion tag | several workers and the API sync at once, two clocks, people editing, lists that are stale when used |
| accounts, `archivist-db/src/users.rs`, `archivist-api/src/{auth,oidc}.rs` | users, identities, sessions, tokens | sign-in on three ways, administration, tokens | provisioning twice; the last administrator; roles changed on several paths |
| audit, `archivist-db/src/audit.rs` | hash chain | append, verify, prune, export | concurrent appends, skewed clocks, a pruning that is cut |
| settings, `archivist-db/src/settings.rs`, `routes/settings.rs` | one JSON row, secrets | load, save, switch, repair | the whole row is stored from a form of any age; a key and its endpoint are two transactions |
| frontend, statistics, chat, artifacts, mail | none shared | reads, rendering | outside |

The parts meet in the database: the poll or a person creates a run (intake), a
worker claims a job (queue), its stage calls a model (provider calls) and then
`create_review_item` or writes the document and calls `complete_job`; the API
or the drain decides an item, and its settlement closes job and run through the
same transactions. Who may do what is decided by accounts, how by settings, and
every administrative change appends to the audit log. A database function of
the source is one Postgres transaction unless a module says otherwise.

What makes each part correct:

* queue: a lease belongs to a live job and to nobody else; a job never leaves
  the documented table; stages run in order; a run is active as long as it has
  work and ends with an outcome its jobs bear out; a waiting job can be decided;
  a claimed, expired or retried job eventually ends.
* runs: one active run per document; the inventory mirror is the run's status.
* worker: a slot is never lost; a drain reported clean is clean; a hung task is
  aborted or the liveness probe fails; no more tasks than slots. The code keeps
  each but the liveness of the process only for jobs it has not claimed twice,
  see below.
* stages: what is written unseen was vetted; people's values and the workflow's
  tags survive; the tags of a document tell the truth of its run.
* provider calls: one worker at a time calls for a job; a cooldown is respected
  and never shortened; a reply that passes is retried.
* apply: one writer of a source at a time; a write of unknown outcome is
  reconciled and never blindly repeated; an item is applied only with evidence.
* intake: no edit is missed (but for syncs that outlast the overlap, see below);
  no trigger tag starts the same work for ever.
* accounts: an administrator remains; identities never merge or change hands;
  the trail tells the truth; a token does no more than its creator.
* audit: the chain replays; pruning takes only what is old; an export is whole.
* settings: a save undoes only what it was older than; a key stays with its
  endpoint; every name resolves.

## Modules

| module | models |
| --- | --- |
| `StatusTables` | `transitions.rs`: statuses, what each run event may leave and enters, the documented job table |
| `JobQueue` | runs, jobs, inventory, reviews and the worker tasks that hold leases, across processes |
| `QueueStatements` | the transactions on one document's rows, statement by statement under READ COMMITTED, with their locks |
| `RunLifecycle` | the abstract specification of a run: started, ended, reopened, replaced |
| `WorkerSupervisor` | one worker process: claim cycle, registry, watchdogs, liveness probe, shutdown |
| `ReviewApply` | the life of a review item's apply intents: request, drain, recovery, sweep, Paperless |
| `WorkflowTags` | the tags that ask for work and report it |
| `ProviderCalls` | the calls of a job in time: lease, timeout, reply, retry, cooldown, operator |
| `DocumentStages` | one document through the two stages of a run: suggestions, policies, writes, reviews, tags |
| `Intake` | syncs, trigger poll, auto-selector, completion-tag reconciliation |
| `Accounts` | users, identities, sign-in, administration, sessions, API tokens, permission matrix |
| `AuditChain` | the hash chain: append, verify, prune, export |
| `Settings` | the settings row, keys, startup repairs that edit the row |
| `MCJobQueue`, `MCQueueStatements`, `MCWorkerSupervisor`, `MCReviewApply` | symmetry and instances for TLC |
| `MCProcessing` | `ProviderCalls`, `DocumentStages` and `Intake` for TLC |
| `MCAdministration` | `Accounts`, `AuditChain` and `Settings` for TLC |
| `JobQueueProofs` | the theorems on `JobQueue`, with its job table and that it implements `RunLifecycle` |
| `QueueStatementsProofs` | the theorems on `QueueStatements`, that it too implements `RunLifecycle` among them |
| `AuditSettingsProofs` | the theorems on `AuditChain` and on `Settings` |
| `ProcessingProofs` | the theorems on `ProviderCalls` and on `Intake` |
| `ReviewApplyProofs`, `AccountsProofs`, `DocumentStagesProofs`, `WorkerSupervisorProofs` | the theorems on the module each is named after |

`JobQueue` is the whole of the pipeline's database with each task reduced to
the transactions it runs. The others open up what it takes as one step:
`QueueStatements` the transactions themselves,
`WorkerSupervisor` the process around a task, `ReviewApply` the way of an
accepted item into Paperless, `ProviderCalls` the time between claim and
completion, `DocumentStages` what a stage decides and writes, `Intake` where
runs come from. Each reduces its neighbours to what it can observe of them: the
row of a job to its lease, a run to one record, a PATCH to "landed, failed or
failed after it landed".

### JobQueue

`db` is the database: `runs`, `jobs`, `inventory` and `reviews` are its tables.
An operator that takes a database `d` and returns one is one statement group of
a transaction (`TransitionRuns`, `MirrorRunStatus`, `SetInventoryStage`, ...);
an action composes them in the order of the source. `tasks` holds the job tasks
of the processes with the attempts and budget they were claimed with, because
`fail_job` decides by that copy and not by the row.

* A process is its `lease_owner`, a fresh UUID at each start. `Crash(w)` ends
  all tasks of `w` and the name may claim again; nothing in the model depends on
  the old rows carrying the same name, as they can be claimed only once expired.
* `claim_jobs(limit)` is a sequence of single claims. The pass *Retry* only
  reorders queued jobs and is not separate.
* Time is abstract: `LeaseExpires` and `BackoffElapses` may happen whenever
  they can, so no property depends on the length of a lease.
* Renewing a live lease changes nothing and is not a step.
* Approved and edited are one status (`approved`), as no transition tells them
  apart.
* `recover_stuck_runs` and `unblock_jobs_from_failed_predecessors` find nothing
  in a reachable state (`RunActiveIffWorkLeft`, `NoJobBlockedByFailure`), so
  they are not actions; `release_scheduled_retries` only makes waiting retries
  due, which `BackoffElapses` does at any time.

### QueueStatements

One document, any number of sessions. `run`, `job` and `inv` are what is
committed; `newRun`, `newJob` and `newInv` what the session sees that holds the
row's lock (`runLock`, `jobLock`, `invLock`). A statement of a session reads
`SeenRun`, `SeenJob`, `SeenInv`: its own writes, else what is committed at this
moment. `Commit` copies, `Rollback` copies back, both free the locks. `pc` is the
statement that comes next and `target` the run it is about; `docLock` is the
advisory lock that creations and repairs take first.

* Modelled this way: `create_run_with_jobs`, `claim_jobs` (with
  `fail_exhausted_stale_jobs_tx` before it in the same transaction),
  `complete_job`, `fail_job`, `release_job_lease_for_cooldown`,
  `requeue_vision_crashed_jobs`, `backfill_metadata_stage_for_ocr_only_runs`.
* One action is one statement that can wait or that reads what others write,
  with the statements after it that touch only rows the session has locked. A
  statement is atomic, and one that waited sees what is committed when it goes
  on; Postgres evaluates it again only for the row it waited for.
* `update ... where` waits only for rows that match as committed. That is why
  `Mirror` passes by an inventory row that points at another run.
* A metadata job a backfill inserts takes the slot of its session, so two
  backfills that both insert would give a run two jobs.
* Which candidate a repair takes, which error text makes a crash and whether
  `ocr_status` is failed are left open: the model allows more than the code.
* Leases, attempts, review items, the other repairs, and the lock of the audit
  chain are left out. Most transactions append to the audit log last; `claim_jobs`
  does so before it updates the run, so circles of waits through that lock are not
  covered.

`JobQueue` takes each of these transactions as one step. `CommitsImplementLifecycle`
says that runs live the same life without that simplification. Of
`RunActiveIffWorkLeft` one half stays: an active run has work (`ActiveRunHasWork`, a
part of `StatementsConsistent`). The other half, that a settled run has none, is lost
in one interleaving and, as `OnlyBackfilledWorkStrands` shows, in no other.
`complete_job` reads that no job of the run remains; a metadata backfill then finds
the row of the run unlocked, inserts a job and commits; the completion marks the run
succeeded. It needs an active run to which the inventory does not point (one the
vision requeue reopened after a newer run), or the mirror of the backfill would wait
for the inventory row the completion has locked. The comment at
`archivist-db/src/startup_repairs.rs:374-378` counts on the completion to put such a
run back to `queued`. The job is claimed all the same, as the claim looks at jobs
only, but while it waits and runs the document counts as idle and may get another
run.

### WorkerSupervisor

`row` is what this process can read of a job: held by this process (`mine`, or
`review` while it waits for a person), queued, with another process (`away`) or
done. `entries` is `supervisor.jobs`, one entry per job and not per task, with
the time left of its progress deadline; `tasks` are the job tasks and their
watchdogs (`dog`); `claim` is the cycle `process_available_jobs`, which counts
the free slots, claims, and spawns one job after the other. The cycle is
spawned by the 5 s tick and may hang at each await.

* Time is discrete and the watchdogs are punctual: `Tick` waits until each has
  done what is due. `Lease`, `Grace`, `Interval` and `StallLimit` keep the order
  of the source's durations. A failed probe (`MaxErrors`) is how one is late.
* A restarted process has a new `lease_owner`: rows that were `mine` become
  `away`.
* With more than one slot a process may claim a job again whose task here still
  lives, as `claim_jobs` looks at the lease only. The second task shares the
  entry of the first, and what ends first removes it for both. `shared` is a
  history variable with the jobs this happened to; a claim that finds no live task
  of the job here takes it out again. `LiveTaskRegistered`, `CleanDrain` and
  `HungTaskCleared` except these jobs, because for them all three are false in
  the code at its default concurrency of two.
* Dropping the task's guard and the watchdog's look at `is_finished` have no
  await between them and the task's end; they are one step, `End`.

### ReviewApply

One review item, which is also one source key. A PATCH body is its hash. Each
statement and each HTTP call of an actor is a step of its own. Humans are API
requests, drains the autopilot's, recoverers run `recover_review_apply_intents`.
A request to Paperless lands and is answered, is refused, or is left unanswered:
landed, lost, or still in `wire` to land later. `unknown` is a history variable:
bodies that were sent and neither answered nor looked for since.

* `Crash(a)` stands for a dropped future, a closed connection and a dead
  process; all free the advisory lock.
* What `prepare_apply_intent` answers after a lost race (`resume_existing`, an
  owner that does not match) cannot happen under the lock; `WriterOwnsIntent`
  shows it and is proved.
* The release of the lock is part of the step that gives up or succeeds.
* The sweep's 300 s pass only while no request or drain is at work (`Age`), as
  the comment in `archivist-worker/src/main.rs:277` does.

### ProviderCalls

`jobs` are rows with lease, `runAfter` and attempts; `workers` the attempt of
each worker, from the cooldown check through classification, main call,
consensus, or pages with model discovery, to completion; `cooldown` the rows of
`ai_provider_cooldowns`; `operator` a settings change or an unblock between its
statements. `promised` is a history variable: the latest cooldown end anybody
recorded. Time counts in units of the shortest request timeout, and `Elapse`
waits for what a timeout, the keepalive or the claim's margin bounds.

* The schema fallback of OpenAI kinds is a second request within one call;
  `LeaseSeconds` must cover both, as `job_lease_seconds` does.
* A cooldown check and the call it allows are two steps, so a cooldown recorded
  in between is not respected; `CooldownRespected` claims the rest.

### DocumentStages

`paper` is the document: its tags, and per field whether the value is unset, of
a person or of Archivist. `attempt` holds what the stage read (`seen`), the
answer (`said`), the fields a second model contradicted and the planned patch. A
suggested value is *known*, *foreign* to the vocabulary, or *gone* from the
mirror after it was offered. A lease may be lost at each renewal (`Lost`), a
PATCH lands, fails, or lands and its answer is lost; the next attempt resumes the
intent. People change tags, fields and the mode between any two steps.

* `touched` and `excused` are history variables: tags that people changed, and
  runs whose last tag change Paperless refused or whose worker died.
* The stage's lists are made from `seen`, the read at its start, as in the code.

### Intake

`archive` is Paperless, stamping changes with its own clock (`skew`); `row` the
inventory; `call` the sync of each caller, a worker process (`Pollers`) or a
request of the API (`Requests`), and in a worker the poll behind it; `recon` a
reconciliation. The stamp, the read of the cursor, each page of the listing, each
batch of rows, the cursor's write, the batched lookup of latest runs and the
creation of runs are separate steps with edits, other syncs, ends of runs and
crashes between them.

* The guard against a second poll (`trigger_poll_running`) is of one process;
  polls of several processes and requests overlap as they like.
* A worker's poll has a timeout of 300 s and may be dropped at any step (`Drop`).
  A sync of the API has none, so no bound is put on how long any sync takes.
* A page is one document: the listing is asked for page after page while
  documents change. That an edit may also shift a document from one page to
  another, so that the listing has it twice or not at all, is not modelled.
* The auto-selector's budget is what is left of the hour and of the day
  (`hourly_document_limit`, `daily_document_limit`).
* `outlasted` is a history variable: documents whose row was last written from a
  listing that no longer agreed with Paperless, by a sync at least
  `Overlap + skew` old. Such a row loses an edit for good under delta sync. A
  sync of the API lists a document; it is edited; a worker's sync starts after
  more than the overlap, stores the edit and sets the cursor to its own start;
  the API sync then commits what it has listed. `EditsReachInventory` excepts
  exactly these rows. With the default overlap of 5 minutes the API sync has to
  take longer than that; a worker's poll is dropped at 5 minutes. The setting is
  clamped to 0..1440 minutes.
* The property has the hypothesis `Overlap + skew > 0`: Paperless' clock is
  behind by less than the overlap. An overlap of 0 with equal clocks is excluded
  because an edit in the very tick of the cursor is not listed (`modified__gt`),
  and ticks of the model are coarse.
* `retagged` and `raced` are history variables that count what may justify a
  run: changes that left a trigger on the document, and runs that ended between
  the poll's lookup and its use.

### Accounts

`users` are the rows with the identity namespace (a username and an e-mail
address claim names in one space; a taken name gets the subject's hash as a
suffix, hence the subject itself as a name). `request` holds what a handler has
read. Transactions that lock, read and then write are two actions with the
`adminLock` between them; the Paperless bridge looks up outside any lock and
again inside; login reads the row, records the outcome and issues the session in
three transactions; the rotation of a token reads it without a row lock, so two
rotations, or a rotation and a revocation, may leave a successor each. `audited`
is what the newest audit event of an account says.

* Unrevoked tokens of one creator with the same scopes are one element of
  `tokens`; names and expiry are left out.

### AuditChain

A row is named by its chain position, `prev` is the position it was chained to,
so that a row verifies exactly if `prev` is its predecessor. `ns` is the
sub-microsecond part that writers before v1.17.0 hashed and the database dropped.
`writer` is split at the lock so that a rollback can spend a sequence value;
`sweep` deletes in batches that name no order and can be cut; `export` pages
newest first by `(stamp, pos)`.

### Settings

`stored` is the row, `keyFor` the endpoint for which each key was entered.
Operators load a form, edit a part, submit (validated against a fresh read of
the bindings), store an entered key, and save the whole document. Replicas check
a marker, lock the row, raise a size, commit, then write the marker. `since` and
`overlapped` are history variables: which write last changed a part, and whether
a save ended half-way or over another's write.


## Runs

| run | instance | shows |
| --- | --- | --- |
| `queue_fleet` | 2 runs of a document, 2 workers, 2 attempts, 2 review items, 1 intervention | two processes compete: types, leases, the documented job table, stage order, one active run, mirror, outcomes, and the refinement of `RunLifecycle` |
| `queue_same_process` | 1 run, 1 worker with 2 tasks per job, fair | the whole inductive invariant when a process reclaims its own job, and that runs settle |
| `queue_fields` | 2 review items | violation: a decision takes the lease from the stage that creates items |
| `queue_statements` | 2 sessions, 2 runs of a document | statement by statement: committed rows agree, an active run has work, open transactions find what they decided on, only backfilled work is left in a settled run, no circle of row locks without a repair, and the refinement of `RunLifecycle` |
| `worker_process` | 1 job, 2 slots, 2 tasks, 3 failed probes and 1 restart, or a last attempt without them, fair | but for tasks of a job claimed twice: no task without a slot, a clean drain is clean; the probe raises no false alarm; slots, claim loop and hung tasks come back |
| `worker_shared_entry` | 2 jobs, 2 slots | violation: a process that reclaims its own job runs more tasks than it has slots |
| `apply_actors` | one of each actor, 1 body, 1 retry, 1 crash, 2 errors, 1 edit, fair | one writer, no blind repeat, evidence for every applied item, and an item being applied does not stay so |
| `apply_stale_revert` | 1 request, 1 recovery, 1 error | violation: a late settlement reverts a new claim |
| `apply_stranded` | one of each actor, 1 crash, 1 error, fair | violation: an approved item nobody applies and nobody resets |
| `processing` | `MCProcessing`, see below | one call per job, cooldowns kept, only vetted writes, workflow tags kept and truthful, no edit missed, no trigger loop |
| `provider_throttle` | the same instance | violation: a 429 without a usage cap ends the job for good |
| `administration` | `MCAdministration`, see below | an administrator remains, identities stay apart, the trail is true, the chain replays, pruning and export are exact, saves keep the rest |

*One component at a time.* `MCProcessing` and `MCAdministration` put components
together that share no variable. Their product would only multiply states, so
`focus` picks at the start the one that runs, and the others stay at their start:
the states add up, and one run checks all properties against every component.
`Next` of a component is never changed; a focus restricts it by conjuncts.

* *providers*: two workers, an OCR job and a metadata job that a review retry
  pins to the remote provider, two providers (one with the schema fallback and
  a timeout of 1, one with 2), two attempts, and one operator act where a single
  job waits. A lease is 3, a cooldown 2 or 3; `time` goes from 1 to 4, or to 5
  with a single job, past the end of a lost worker's lease.
* *stages*: eight settings, each for one policy (overwrite and consensus, the
  two strategies that drop tags, new and closed vocabularies, unguarded
  fields, dry run, review retry), with an edit by people or, for three of them, a
  failed call; every trigger is on the document at the start. `Suggestions` is
  every answer over the enabled fields.
* *sync*, *poll*, *reconcile*, *selector*: two documents of which one is worked on;
  an edit for sync and poll, a fault and a call of the API for sync and
  reconcile, delta mode for these two, the selector on for reconcile and
  selector (`IntakeStart`). Two workers and one request of the API may sync, two
  of the three at a time; a listing has the documents in their order. Time goes
  to 2, which is the overlap, so a sync may outlast it. In sync Paperless' clock
  is level or one unit behind. In poll one worker syncs while the other looks
  runs up and creates them, and time goes to 1; in reconcile and selector one
  worker polls. `MaxRuns` is 2 per document, the least at which a loop shows.
* *accounts*: two accounts, two requests, one name and one e-mail address that
  are equal (so that the namespace is what keeps them apart), one OIDC subject
  and one Paperless user, one token with three scopes, an account locked by its
  first failure.
* *audit*: two writers, one administrator that prunes, one export, four rows, a
  batch and a page of one row (so that every boundary is crossed), a clock
  that may lag by one, two sub-microsecond parts.
* *keys*, *repairs*: two operators, two AI providers (`local` stays as its
  preset), two replicas, two writes.

Bounds. `MaxReviews` and `Runs` are how many rows may ever be inserted,
`Generations` how many tasks one process has for one job, `MaxInterventions` how
many cooldown releases and repairs happen, `MaxStarts` and `MaxActions` in
`MCJobQueue` the claims and the decisions plus interventions of the whole fleet,
`QueueStatements` needs no bound besides its runs and sessions: jobs are
created once and rows only change status. Three sessions were checked as well
(123069 states); two already cross in every pair of statements.
`MaxErrors`, `MaxCrashes`, `MaxEdits`, `MaxFaults`, `MaxPaperEdits` and
`MaxRestarts` how many faults and edits, `MaxActs` and `MaxCalls` the calls of
people, `MaxElapsed`, `MaxClock` and `MaxTime` the clocks, `MaxPos`, `MaxWrites`,
`MaxRuns`, `MaxBoots`, `MaxTokens` and `MaxExports` the rows and requests. Two of
each actor or task is the least number in which two can be in each other's way,
and one of each *kind* of actor in `ReviewApply` gives three that compete for the
lock. `worker_process` needs three failed probes: with fewer a deadline that
forgot the lease window would pass. Its two slots are the default concurrency,
and one job is enough for both of them to be at work on it; it starts either with
the failed probes and the restart to come, or with the job on its last attempt and
neither (`MCInit`). What holds in `queue_*`, `apply_actors` and `worker_*`, in all of
`administration` and in `processing`, is also
proved without bounds (see Proofs for the hypotheses). Each
property has a plausible fault of the code that the same instance refutes
(`mutants` in `PROJECT.json`). Deadlock checking is off except in
`queue_statements` because a bounded system may come to rest: everything is done,
or the bounds are spent. In `queue_statements` a circle of waits is no deadlock of
the model, as Postgres may always break it (`Rollback`); `NoWaitCycle` states it.

Fairness.

* Queue: some worker keeps claiming (the claim loop ticks every 5 s), every task
  ends (its watchdog aborts a hung one, `claim_loop.rs` 350-388), time passes.
  Interventions are off: with unboundedly many cooldown releases a run need not
  end, by design of the cooldown. Nothing makes a person decide, hence
  `waiting_review` counts as settled.
* Worker: time passes, the watchdogs do what is due, a task that does not hang
  ends, and the orchestrator kills a process whose liveness probe fails.
  Nothing is assumed of the claim cycle: it may hang, as any task may.
* Apply: an actor that has begun goes on, the recovery and the sweep tick, time
  passes. Nobody has to decide and the drain need not tick.
* The other components state safety only. What they owe eventually depends on
  people, on Paperless being reachable, or on the liveness of the queue above.

## Proofs

`JobQueueProofs` proves, for any numbers of documents, runs, workers, tasks and
review items, that every invariant of `JobQueue` holds in every reachable
state (`AlwaysConsistent`, with one named theorem for each part; the run checks
some parts by name and the others within `Consistent`). Assumed are
only the typing assumptions on the constants stated in `JobQueue`.

The inductive invariant is `IInv`: the database is `Sound` and the tasks are
typed. None of the properties is inductive by itself. `RunActiveIffWorkLeft`
needs that a run with an active job has no failed or cancelled one
(`NoJobBlockedByFailure`), or a completion could not tell what the outcome is;
that needs the lease fence (`OwnedJobsAreLive`), or a late task could finish a
cancelled job; `OneActiveRun` needs `RunActiveIffWorkLeft`, because a claim or
repair looks at jobs and writes runs; the mirror needs the run to belong to the
document. Each transaction is shown in two layers: lemmas named `...Writes` say
what it writes to each table, lemmas named `...Sound` that the result is sound;
`NextSound` collects one case per action.

`QueueStatementsProofs` proves, for any number of sessions and runs, all four
properties of `queue_statements`. Assumed is only that `NoSession`, `NoRun` and the
two slots are other values than sessions and runs. `StatementsConsistent` is itself
the inductive invariant: besides the committed rows (`CommittedOK`) it says of each
session what its next statement relies on ((`SessionOK`). One part of
it has a theorem of its own: an active run has work (`ActiveRunsHaveWork`). It needs
that whoever takes the last active job of a run settles the run in the same
transaction (`LeavesNoIdleRun`), and that what others commit meanwhile takes no job
from it. The argument has three layers.

* A statement changes rows only in the copy of its own session (`Own`), so the
  other sessions' parts carry over (`UnseenSession`); each action has a lemma
  `...Own` and a lemma `...Session` for its own part. `InventorySession`,
  `JobsTaken` and `SelectedRun` are what the actions of one kind share.
* A commit makes rows visible. What keeps it from surprising a completion: two
  sessions outside the document lock never hold jobs of one run (`OneWriter`), as
  the claim's guard keeps a stage back while its predecessor is active and each
  of them holds an active job; nobody else changes the status of a run while a session
  holds a job of it (`HeldRunStays`); and a job that a commit makes active is a
  backfilled one, or no other session is at work on its run (`NewActiveJob`). `CommitKeepsCommitted` and `CommitUnderSession` do the
  rest.
* A job transaction waits for a run only if a repair has it, about to mirror or to
  commit (`WaitsForRun`), and `fail_job` never waits for the siblings it cancels
  (`CancelsAtOnce`). In a circle without a repair, therefore, every session
  waits for the inventory row, and whoever holds it does not (`NoCycle`).

`CommitIsLifecycleStep` shows that a commit starts, ends or reopens one run, or
none, which is the refinement.

`ReviewApplyProofs` proves `WriterOwnsIntent`, `AppliedHasEvidence` and the
action property `NoBlindRepeat` for any number of requests, drains, recoveries
and bodies, and any number of crashes, errors and edits. Its invariant `IInv`
says where an actor needs the lock and what its place tells of its intent's row
(`Placed`), and that a PATCH of unknown fate has its row in flight. The argument:
`unknown` grows only from `in_flight`, so a row that may be prepared or sent
again is not unknown; a row leaves `in_flight` only by its lock holder, who
has looked; two statements run without the lock, and both only finalize, which
takes no row that somebody between mark and answer relies on (`Finalizes`). The
lemmas `OthersWrite` and `OthersFinalize` carry this to the other actors.

`AccountsProofs` proves `AdminRemains`, `AuditedAccounts` and
`SubjectKeepsAccount`, and with them `AccountsConsistent`, for any
numbers of accounts, requests, names and subjects, any role mapping, allowlist and
default roles, and any number of failures that lock. Assumed is `AccountsAssumption`:
types, and that subjects are not names people bring (a subject comes with its
provider, and the code tries suffixes until a name is free). Its invariant `IInv`
adds what a request under the lock relies on until it commits (`Reading`): that
the account it demotes or disables is not the last administrator, that nobody else
holds the subject it links. This is inductive because everything that runs without
the lock only adds rows with a Paperless subject or none, or leaves standing and
identity alone (`Grows`, `Fresh`): `GrowsAdmins` and `ReadingKept` carry the
reading over such a step, and whoever holds the lock is alone with the rest. Each
action has a lemma `...Sound` that shows `IInv'` and `Kept`, the two action
properties; `NextIInv` collects them.

`JobQueueProofs` proves from its `IInv` also that every step moves every
job along the documented table (`TableAlwaysRespected`), and that the queue
implements `RunLifecycle` (`QueueImplementsLifecycle`): each action is a start, an
end, a reopening or a replacement of one run of a document, several ends at once
in a sweep, or a stutter. The steps that end a run need `RunOutcomeMatchesJobs`
and those that start one `OneActiveRun`, which is why it rests on `IInv`.

`ReviewApplyProofs` has also the types and the retry bound of `ReviewApply`
(`TypeAlwaysOK`); assumed is that a body has a hash of its own (`HashAssumption`).

`AuditSettingsProofs` proves `ChainVerifies`, `RetentionKeepsRecent` and
`ExportComplete` for any number of writers, sweepers and exports, any batch and
page size, any skew of clocks and any ties of timestamps. A link may be missing only
below the boundary of a sweep that is under way or was cut (`Linked`), and no row
stands between a row and the one it names (`ChainOk`). That is inductive because
who holds the lock has read the newest row (`LockOk`), and because a sweep keeps a
row and takes only rows outside the window (`SweepOk`), whatever other sweeps do.
What an export still owes lies behind its cursor (`ExportOk`), which a prefix that
goes and rows that come cannot change.

The same module proves `SettingsConsistent` and `SavesKeepTheRest` of `Settings`, for
any providers and presets, operators, replicas, repairs and sizes; assumed is that the
providers are finitely many, since a form enters one key at a time. `Shows` and
`Asks` say how far a form or a checked request may have fallen behind the row: where
it differs in a part it was not asked to change, somebody wrote that part after it had
read (`TellsApart`), and while nobody has written since its check it keeps every
stored key with its endpoint (`Bound`). A key stands with a foreign endpoint only
while the request that stored it waits to save (`KeysFitEndpoints`), and of several
such requests the last to store one saves the endpoint it fits (`Fitting`), unless
two saves crossed. `Raising` says that a replica about to raise a size has the row
locked and the size is still too small, which is what `for update` gives.

`ProcessingProofs` proves of `Intake` `EditsReachInventory` and `NoTriggerLoop` for any documents,
any number of workers and API calls, whose syncs overlap and last as they may,
and any overlap, skew, faults and edits; assumed are types. `NoTriggerLoop` has the
hypothesis that Paperless' clock is not ahead, as the code needs. `Fresh` says
that a row agrees with its document, or the document was edited after the cursor
less the overlap, or the row is `outlasted`; that a sync under way, which will set
the cursor to its start, lists what it has still to list, stores what it has
listed, or the edit is recent enough for the sync after it; and that what it holds
has been outdated only by an edit since its start. `Credit` says
that the trigger runs of a document never outnumber its reasons (a change that
left a trigger, a run that ended under the poll's hands), also where the poll acts on
what it read before: it creates a run only where a reason is left.

`DocumentStagesProofs` proves `TagsTellOutcome`, `OnlyVettedWritten` and
`ReviewKeepsWorkflowTags` for any tags, fields, policies, answers, failed calls
and edits. One stage follows the other and an attempt knows the state of its job
and intent (`OrderOk`); a plan is vetted, and a tag the document has gained since it
was read has been touched (`PlanOk`); no trigger of a settled stage is on the
document, in what an attempt will write back from, or in an intent still to be
written (`TriggersOk`), so nothing can bring it back; and only the last active job may
bring the mark of a processed document (`ProcessedOk`).
`TagsTellOutcome` has the hypothesis `TagsDistinct`: no trigger tag is also the
mark of an outcome. The default tags satisfy it (`archivist-core/src/lib.rs:600-660`) but
no validation of the settings demands it.

`WorkerSupervisorProofs` proves `NoFalseAlarm` for any number of jobs, slots and
tasks if the probes that may fail fit between two deadlines (`WindowCoversErrors`;
`worker_process` meets it exactly): the deadline of a slot is never earlier than the
probe its watchdog is sure to make (`Punctual`).

The module also proves `LiveTaskRegistered` and `CleanDrain` for any number of slots,
with no hypothesis: both except the jobs that the process has claimed again under
its own live task (`shared`), and `CapacityKept` says that without the tasks of
these jobs the hard cap holds too. So the second claim that `worker_shared_entry`
shows is the only flaw. `Paired` says that the live task of any other job holds
its slot alone and that no claimed job has one; `Room` that those tasks and the
ones the claim cycle may still start fit the cap, which a stale count of free
slots cannot break since only the cycle starts tasks.

`ProcessingProofs` proves of `ProviderCalls` `OneCallPerJob` and `CooldownRespected` for any workers,
jobs and providers and for every value of the timeouts, the margin, the base lease,
the cooldown window and the backoff; assumed are their types, that the enabled
providers are finitely many and that the cooldown window is not empty. The lease
computation is shown to cover the margin and one call of every provider
(`LeaseCovers`, which needs that a slowest provider exists). `Backed` then says that
an attempt that calls, or will call without a renewal, holds a lease that lasts for
its deadline plus what the call may still send; the clock cannot pass that deadline
(a request times out), so nobody else can claim the job. The second half is that the
recorded cooldown is always the longest one promised (`Books`), and that what an
attempt saw at its check only shrinks (`Fits`).

Every safety property of a passing run is the subject of a theorem, at times
with the hypotheses named above. Only model-checked are the liveness properties
(`RunsSettle`, `ApplyingEnds`, `SlotsComeBack`, `HungTaskCleared`,
`ClaimLoopRecovers`): they need fairness, which this prover does not handle. The
properties of the violation runs do not hold.

## What the runs found

1. *Fields lost to an early decision* (`queue_fields`). The first of several
   items can be rejected or applied before the stage has inserted the others;
   the lease is cleared and the remaining fields are silently dropped.
2. *More tasks than slots* (`worker_shared_entry`). A process can claim its own
   expired job while the old task still runs; both share one registry entry, so
   one slot is counted twice, and whichever task ends first frees it for both.
   A drain can then be reported clean while the other task is still at work, and
   the liveness probe no longer sees that task hang.
   The same self-reclaim lets an overtaken task requeue a job by its own, older
   attempt count, beyond the budget.
3. *A late settlement* (`apply_stale_revert`). `settle_failed_review` reverts
   whatever item is `applying`, also one that a person has decided and claimed
   again after the failure it settles.
4. *A stranded decision* (`apply_stranded`). The drain leaves its failed intent
   unfinalized when it gives the item back. An item then approved whose request
   dies before its claim is not swept, because the intent is unfinished, and not
   settled by the recovery, which finalizes failed intents only once the item is
   pending.
5. *A throttle is fatal* (`provider_throttle`). A 429 whose body names no usage
   cap is a `Client` error, hence permanent: one throttled reply ends the job
   and its run, where the comment at `archivist-ai/src/lib.rs:109` wants a retry.

`CapacityRespected` is checked by `worker_shared_entry` only: it states what the
registry is for, and a second slot is enough to break it.

Noticed while modelling, and modelled as the code is, but stated by no property:

* The metadata stage's tag list is made from its read at the start, so a workflow
  or rule tag added during the model calls is dropped (`metadata_stage.rs:883`
  says workflow and rule tags always survive).
* The poll looks up the latest runs of all documents at once (`trigger_poll.rs`);
  a run that ends before its document's turn can be followed by one spurious run
  (`raced`). A Paperless clock that is ahead defeats `trigger_already_handled`.
* The cursor advances before the triggers it covers are handled: a crash, or a
  pause longer than the overlap, loses them under delta sync until the next edit.
* A sync of the API has no timeout. One that takes longer than the overlap may
  put an older row over a newer one after the cursor has passed the edit
  (`outlasted`); the edit is missing from the inventory until the document
  changes again or a full sync runs.
* Two rotations of one API token at once leave two successors, and a rotation that
  read a token before its revocation brings it back under a new secret.
* A completion-tag reservation orphaned by a crash or a failed release is only
  derived again when the document is listed, which a delta sync may never do
  (`runs.rs:493` promises the next sync).
* A rejected document that still carries its trigger is queued once more after
  the reconciliation has bumped its modification time.
* Fields the second model contradicts are dropped under full_auto, where the
  comment at `metadata_stage.rs:546` wants them to fall into review.
* The retry a reviewer pins to a provider checks the cooldown of the configured
  one. Lifting a cooldown races a worker that is about to record it again.
* Two saves of the settings undo each other's changes (last writer wins), and the
  `before` of the audit event is read without the lock. A key is stored before the
  settings: if they fail, the new key stays under the old endpoint.
* A startup repair can run twice, on two replicas or after a crash before its
  marker, and raise a size again that an operator lowered in between.
* The top-level Paperless URL is copied into a `default` archive profile which
  the first save persists; a later change of the top-level URL has no effect
  (`docs/OPERATIONS.md:305`).
* The recovery takes the 100 oldest intents of each tick.

## Not modelled

* Pure data: prompts, the text of suggestions, OCR markup, request bodies, the
  three-way merge of an edited review, parsing and formatting. The models keep
  the verdict (vetted or not, known or gone, landed or lost).
* HTTP plumbing, cookies, PKCE, token and key cryptography, address filtering,
  the web frontend.
* Statistics, listings, chat, artifacts, notifications, the connection pool:
  reads and single-statement inserts that no other part depends on.
* Statement-level interleaving of the transactions on review items and of the
  recoveries (`recover_stale_leases`, the stuck-run reset), and the lock of the
  audit chain among the waits.
* Claim priority and batch size, which select among jobs that may all be claimed.
* The fallback of a direct apply that leaves out refused custom fields.
* The texts by which an untyped error of a provider call is classified: a reply
  has a marker of `classify_processing_failure` (`lost`) or none (`cut`,
  `garbled`), and every error of an Ollama client names Ollama, which is one.
  What an undecodable MinerU answer quotes of its body may contain a marker too.
* Prompt versions; the queries behind the audit view.

## Plan

What is left: `ReviewMerge`, the merge of reviewed, original and current values
per field in `resolve_review_patch`, against a reference definition; and the
transactions on review items at statement level, with the audit chain's lock among
the waits.
