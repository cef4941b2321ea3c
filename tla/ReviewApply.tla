----------------------------- MODULE ReviewApply -----------------------------
(***************************************************************************)
(* How a decided review item reaches Paperless: the human apply of         *)
(* archivist-api, the autopilot drain and the recovery sweep of            *)
(* archivist-worker, all through archivist-apply.                          *)
(*                                                                         *)
(* One review item, which is also one source key.  A PATCH body is its     *)
(* hash.  Paperless is external: a request may land, be refused, be lost,  *)
(* or land after its caller gave up.  Every statement and every HTTP call  *)
(* of an actor is a step; a dropped future, a closed connection and a dead *)
(* process are one step, Crash, which frees the advisory lock.             *)
(***************************************************************************)
EXTENDS Integers, FiniteSets

CONSTANTS
    Humans,        \* requests of archivist-api
    Drains,        \* autopilot drains
    Recoverers,    \* recover_review_apply_intents
    Hashes,        \* bodies the decisions may resolve to, by their SHA-256
    NoOne,
    MaxRetries,    \* MAX_TRANSIENT_APPLY_RETRIES
    MaxCrashes,    \* bound: crashes and drain timeouts
    MaxErrors,     \* bound: failed GETs, lost and refused PATCHes
    MaxEdits       \* bound: edits made in Paperless

Actors == Humans \cup Drains \cup Recoverers

ASSUME ActorAssumption ==
    /\ Humans \cap Drains = {} /\ Humans \cap Recoverers = {} /\ Drains \cap Recoverers = {}
    /\ NoOne \notin Actors /\ Hashes \cap {"base", "edited"} = {}
ASSUME HashAssumption == IsFiniteSet(Hashes)
ASSUME LimitAssumption == {MaxRetries, MaxCrashes, MaxErrors, MaxEdits} \subseteq Nat

VARIABLES
    review,    \* review_items.status and whether reviewed_at is 300 s ago
    intents,   \* paperless_apply_intents, by hash
    order,     \* the hashes in the order of created_at
    lock,      \* holder of the advisory lock of the source
    actors,    \* where each actor is, and with which hash
    doc,       \* the document: as it was, edited, or as a PATCH left it
    wire,      \* PATCHes their callers gave up on that may still land
    unknown,   \* history: PATCHes sent and neither answered nor looked for
    faults     \* crashes, errors and edits so far

vars == <<review, intents, order, lock, actors, doc, wire, unknown, faults>>

Nonterminal == {"prepared", "in_flight", "confirmed", "reconciled"}
PatchPhase  == {"claimed", "ready", "locked", "prepared", "sending", "answered",
                "refused", "unanswered", "reconciling"}
Places == PatchPhase \cup
    {"idle", "decided", "seen", "conflict", "done", "marked", "failed", "reverting",
     "settling", "listed", "reread", "unsettled", "expecting"}

NoIntent == [state |-> "none", final |-> FALSE, failures |-> 0]

TypeOK ==
    /\ review \in [status: {"pending", "approved", "applying", "applied", "rejected"}, old: BOOLEAN]
    /\ intents \in [Hashes -> [state: Nonterminal \cup {"none", "finalized", "failed"},
                               final: BOOLEAN, failures: 0..MaxRetries]]
    /\ order \in [Hashes -> 0..Cardinality(Hashes)]
    /\ \A h \in Hashes : (order[h] = 0) <=> (intents[h] = NoIntent)
    /\ lock \in Actors \cup {NoOne}
    /\ actors \in [Actors -> [at: Places, hash: Hashes \cup {NoOne}]]
    /\ doc \in Hashes \cup {"base", "edited"}
    /\ wire \subseteq Hashes /\ unknown \subseteq Hashes
    /\ faults \in [crashes: 0..MaxCrashes, errors: 0..MaxErrors, edits: 0..MaxEdits]

Idle == [at |-> "idle", hash |-> NoOne]

Init ==
    /\ review = [status |-> "pending", old |-> FALSE]
    /\ intents = [h \in Hashes |-> NoIntent]
    /\ order = [h \in Hashes |-> 0]
    /\ lock = NoOne
    /\ actors = [a \in Actors |-> Idle]
    /\ doc = "base" /\ wire = {} /\ unknown = {}
    /\ faults = [crashes |-> 0, errors |-> 0, edits |-> 0]

At(a, place)   == actors[a].at = place
Hash(a)        == actors[a].hash
Intent(a)      == intents[Hash(a)]
GoTo(a, place) == actors' = [actors EXCEPT ![a].at = place]
Leave(a)       == actors' = [actors EXCEPT ![a] = Idle]
Unfinished(h)  == intents[h].state # "none" /\ ~intents[h].final
SetIntent(a, state) == intents' = [intents EXCEPT ![Hash(a)].state = state]
SetReview(status)   == review' = [status |-> status, old |-> FALSE]

Error == faults.errors < MaxErrors /\ faults' = [faults EXCEPT !.errors = @ + 1]

Intents  == <<intents, order>>
External == <<doc, wire>>

-----------------------------------------------------------------------------
(* Decisions and claims. *)

(* review_decision: approve, edit or reject; the request that approved goes on
   to apply. *)
Decide(p) ==
    /\ At(p, "idle") /\ review.status = "pending"
    /\ \/ SetReview("approved") /\ GoTo(p, "decided")
       \/ SetReview("rejected") /\ UNCHANGED actors
    /\ UNCHANGED <<Intents, lock, External, unknown, faults>>

(* claim_review_for_apply. *)
ClaimForApply(p) ==
    /\ At(p, "decided")
    /\ IF review.status = "approved"
       THEN SetReview("applying") /\ GoTo(p, "claimed")
       ELSE Leave(p) /\ UNCHANGED review
    /\ UNCHANGED <<Intents, lock, External, unknown, faults>>

(* list_pending_review_items_for_autopilot_drain. *)
DrainList(w) ==
    /\ At(w, "idle") /\ review.status = "pending"
    /\ \A h \in Hashes : intents[h].state # "failed"
    /\ GoTo(w, "seen")
    /\ UNCHANGED <<review, Intents, lock, External, unknown, faults>>

(* claim_pending_review_for_autopilot_drain. *)
DrainClaim(w) ==
    /\ At(w, "seen")
    /\ IF review.status = "pending"
       THEN SetReview("applying") /\ GoTo(w, "claimed")
       ELSE Leave(w) /\ UNCHANGED review
    /\ UNCHANGED <<Intents, lock, External, unknown, faults>>

(* apply_document up to the lock: the GET and resolve_review_patch, which
   yields a body or a conflict with what somebody changed. *)
Resolve(a) ==
    /\ At(a, "claimed")
    /\ \/ \E h \in Hashes : actors' = [actors EXCEPT ![a] = [at |-> "ready", hash |-> h]]
       \/ doc # "base" /\ GoTo(a, "conflict")
    /\ UNCHANGED <<review, Intents, lock, External, unknown, faults>>

ResolveFails(a) ==
    /\ At(a, "claimed") /\ Error /\ GoTo(a, "failed")
    /\ UNCHANGED <<review, Intents, lock, External, unknown>>

(* revert_review_from_applying. *)
RevertFromApplying ==
    IF review.status = "applying" THEN SetReview("pending") ELSE UNCHANGED review

(* mark_review_apply_conflict. *)
Conflict(a) ==
    /\ At(a, "conflict") /\ RevertFromApplying /\ Leave(a)
    /\ UNCHANGED <<Intents, lock, External, unknown, faults>>

-----------------------------------------------------------------------------
(* apply_document_inner.  The lock holder is the only one to move an intent, so
   the source's answers to a lost race (resume_existing, an owner that no longer
   matches) have no step. *)

(* Mutant: the advisory lock excludes nobody. *)
LockFree == TRUE

(* pg_try_advisory_lock. *)
LockAvailable == lock = NoOne

(* Mutant: a busy source is taken for one already applied. *)
TryLockBusyIsDone(a) ==
    /\ At(a, "ready")
    /\ IF LockAvailable THEN lock' = a /\ GoTo(a, "locked")
       ELSE GoTo(a, "done") /\ UNCHANGED lock
    /\ UNCHANGED <<review, Intents, External, unknown, faults>>

(* try_lock_apply_source. *)
TryLock(a) ==
    /\ At(a, "ready")
    /\ IF LockAvailable THEN lock' = a /\ GoTo(a, "locked")
       ELSE GoTo(a, "failed") /\ UNCHANGED lock
    /\ UNCHANGED <<review, Intents, External, unknown, faults>>

(* The recovery keeps the lock until the review is settled. *)
Unlock(a) == lock' = IF a \in Recoverers THEN lock ELSE NoOne
Succeed(a) == GoTo(a, "done") /\ Unlock(a)
GiveUp(a)  == GoTo(a, "failed") /\ Unlock(a)

(* Mutant: a request that was interrupted is taken for one never sent. *)
ResendableIntents == {"prepared", "in_flight"}

(* The states whose body may go out. *)
SendableIntents == {"prepared"}

Prepared == [state |-> "prepared", final |-> FALSE, failures |-> 0]

(* prepare_apply_intent, and where the state of the row leads. *)
Prepare(a) ==
    LET i == Intent(a)
        fresh  == i.state = "none"
        again  == i.state = "failed" /\ i.final IN
    /\ At(a, "locked")
    /\ IF fresh \/ again
       THEN /\ intents' = [intents EXCEPT ![Hash(a)] = Prepared]
            /\ order' = IF again THEN order
                        ELSE [order EXCEPT ![Hash(a)] =
                                 Cardinality({h \in Hashes : order[h] > 0}) + 1]
            /\ GoTo(a, "prepared") /\ UNCHANGED lock
       ELSE /\ \/ i.state \in SendableIntents /\ GoTo(a, "prepared") /\ UNCHANGED lock
               \/ i.state \in {"in_flight"} \ SendableIntents
                  /\ GoTo(a, "reconciling") /\ UNCHANGED lock
               \/ i.state \in {"confirmed", "reconciled", "finalized"} /\ Succeed(a)
               \/ i.state = "failed" /\ GiveUp(a)
            /\ UNCHANGED Intents
    /\ UNCHANGED <<review, External, unknown, faults>>

(* mark_apply_intent_in_flight. *)
MarkInFlight(a) ==
    /\ At(a, "prepared") /\ Intent(a).state \in SendableIntents
    /\ SetIntent(a, "in_flight") /\ GoTo(a, "sending")
    /\ UNCHANGED <<review, order, lock, External, unknown, faults>>

(* client.patch_document: answered; refused with a 4xx; or no answer, and the
   request has landed, is lost, or is still on its way. *)
Send(a) ==
    /\ At(a, "sending")
    /\ unknown' = unknown \cup {Hash(a)}
    /\ \/ doc' = Hash(a) /\ GoTo(a, "answered") /\ UNCHANGED <<wire, faults>>
       \/ Error /\ GoTo(a, "refused") /\ UNCHANGED External
       \/ Error /\ GoTo(a, "unanswered") /\ doc' = Hash(a) /\ UNCHANGED wire
       \/ Error /\ GoTo(a, "unanswered") /\ UNCHANGED External
       \/ Error /\ GoTo(a, "unanswered") /\ wire' = wire \cup {Hash(a)} /\ UNCHANGED doc
    /\ UNCHANGED <<review, Intents, lock>>

(* mark_apply_intent_confirmed. *)
Confirm(a) ==
    /\ At(a, "answered")
    /\ SetIntent(a, "confirmed") /\ Succeed(a)
    /\ unknown' = unknown \ {Hash(a)}
    /\ UNCHANGED <<review, order, External, faults>>

(* document_matches_patch. *)
Matches(a) == doc = Hash(a)

(* Mutant: one retry too many. *)
MayRetryOnceMore(i) == i.failures <= MaxRetries

(* The condition of release_transient_apply_intent. *)
MayRetry(i) == i.failures < MaxRetries

(* The GET after a PATCH that failed: reconcile, release for another attempt, or
   fail.  A 4xx is never retried. *)
Check(a) ==
    /\ At(a, "refused") \/ At(a, "unanswered")
    /\ unknown' = unknown \ {Hash(a)}
    /\ IF Matches(a) THEN SetIntent(a, "reconciled") /\ Succeed(a)
       ELSE /\ GiveUp(a)
            /\ IF At(a, "unanswered") /\ MayRetry(Intent(a))
               THEN intents' = [intents EXCEPT ![Hash(a)].state = "prepared",
                                               ![Hash(a)].failures = @ + 1]
               ELSE SetIntent(a, "failed")
    /\ UNCHANGED <<review, order, External, faults>>

(* reconcile_existing: an interrupted request is looked for, never repeated. *)
Reconcile(a) ==
    /\ At(a, "reconciling")
    /\ unknown' = unknown \ {Hash(a)}
    /\ IF Matches(a) THEN SetIntent(a, "reconciled") /\ Succeed(a)
       ELSE SetIntent(a, "failed") /\ GiveUp(a)
    /\ UNCHANGED <<review, order, External, faults>>

(* The GET fails: the intent stays in flight. *)
CheckFails(a) ==
    /\ At(a, "refused") \/ At(a, "unanswered") \/ At(a, "reconciling")
    /\ Error /\ GiveUp(a)
    /\ UNCHANGED <<review, Intents, External, unknown>>

-----------------------------------------------------------------------------
(* The callers' settlement: apply_review_patch and
   apply_one_autopilot_drain_review. *)

(* settle_review_applied. *)
MarkApplied(a) ==
    /\ At(a, "done") /\ a \notin Recoverers
    /\ IF review.status = "applying" THEN SetReview("applied") ELSE UNCHANGED review
    /\ GoTo(a, "marked")
    /\ UNCHANGED <<Intents, lock, External, unknown, faults>>

FinalizeIntent(h) ==
    intents' = IF intents[h].state \in {"confirmed", "reconciled"}
               THEN [intents EXCEPT ![h].state = "finalized", ![h].final = TRUE]
               ELSE intents

(* finalize_apply_intent. *)
Finalize(a) ==
    /\ At(a, "marked") /\ FinalizeIntent(Hash(a)) /\ Leave(a)
    /\ lock' = IF lock = a THEN NoOne ELSE lock
    /\ UNCHANGED <<review, order, External, unknown, faults>>

(* review_has_nonterminal_apply_intent. *)
HasNonterminalIntent == \E h \in Hashes : intents[h].state \in Nonterminal /\ ~intents[h].final

(* After an error the item stays fenced or is given back. *)
AfterFailure(a) ==
    /\ At(a, "failed") /\ a \notin Recoverers
    /\ IF HasNonterminalIntent THEN Leave(a) ELSE GoTo(a, "reverting")
    /\ UNCHANGED <<review, Intents, lock, External, unknown, faults>>

(* Only the human apply goes on to settle its failed intents. *)
Revert(a) ==
    /\ At(a, "reverting") /\ a \notin Recoverers
    /\ RevertFromApplying
    /\ IF a \in Humans THEN GoTo(a, "settling") ELSE Leave(a)
    /\ UNCHANGED <<Intents, lock, External, unknown, faults>>

FinalizeFailed(H) ==
    intents' = [h \in Hashes |-> IF h \in H /\ intents[h].state = "failed"
                                 THEN [intents[h] EXCEPT !.final = TRUE] ELSE intents[h]]

(* finalize_failed_review_apply_intents. *)
SettleFailed(p) ==
    /\ At(p, "settling") /\ FinalizeFailed(Hashes) /\ Leave(p)
    /\ UNCHANGED <<review, order, lock, External, unknown, faults>>

-----------------------------------------------------------------------------
(* recover_review_apply_intents. *)

(* list_recoverable_review_apply_intents. *)
Recoverable(h) ==
    /\ Unfinished(h)
    /\ ~\E k \in Hashes : Unfinished(k) /\ order[k] > order[h]

RecoveryList(w) ==
    /\ At(w, "idle")
    /\ \E h \in Hashes : /\ Recoverable(h)
                         /\ actors' = [actors EXCEPT ![w] = [at |-> "listed", hash |-> h]]
    /\ UNCHANGED <<review, Intents, lock, External, unknown, faults>>

RecoveryLock(w) ==
    /\ At(w, "listed")
    /\ IF LockAvailable THEN lock' = w /\ GoTo(w, "reread") ELSE Leave(w) /\ UNCHANGED lock
    /\ UNCHANGED <<review, Intents, External, unknown, faults>>

Release(w) == Leave(w) /\ lock' = NoOne

(* recover_review_apply_intent: the row is read again under the lock. *)
Reread(w) ==
    /\ At(w, "reread")
    /\ IF Intent(w).final THEN Release(w)
       ELSE /\ GoTo(w, IF Intent(w).state = "failed" THEN "unsettled" ELSE "locked")
            /\ UNCHANGED lock
    /\ UNCHANGED <<review, Intents, External, unknown, faults>>

(* settle_applied_review: refused unless the item is still applying or applied;
   then mark_review_applied and finalize_apply_intent. *)
SettleApplied(w) ==
    /\ At(w, "done") /\ w \in Recoverers
    /\ IF review.status \in {"applying", "applied"}
       THEN SetReview("applied") /\ GoTo(w, "marked") /\ UNCHANGED lock
       ELSE Release(w) /\ UNCHANGED review
    /\ UNCHANGED <<Intents, External, unknown, faults>>

(* The failure of the apply is settled only if it is final. *)
AfterRecoveryError(w) ==
    /\ At(w, "failed") /\ w \in Recoverers
    /\ IF Intent(w).state = "failed" THEN GoTo(w, "unsettled") /\ UNCHANGED lock
       ELSE Release(w)
    /\ UNCHANGED <<review, Intents, External, unknown, faults>>

(* settle_failed_review: the intent is read once more, *)
SettleReads(w) ==
    /\ At(w, "unsettled")
    /\ IF Intent(w).state = "failed" /\ ~Intent(w).final
       THEN GoTo(w, "reverting") /\ UNCHANGED lock
       ELSE Release(w)
    /\ UNCHANGED <<review, Intents, External, unknown, faults>>

(* an applying item is reverted, *)
SettleReverts(w) ==
    /\ At(w, "reverting") /\ w \in Recoverers
    /\ RevertFromApplying /\ GoTo(w, "expecting")
    /\ UNCHANGED <<Intents, lock, External, unknown, faults>>

(* and the intent is finalized if the item is pending now. *)
SettleFinalizes(w) ==
    /\ At(w, "expecting") /\ Release(w)
    /\ IF review.status = "pending" THEN FinalizeFailed({Hash(w)}) ELSE UNCHANGED intents
    /\ UNCHANGED <<review, order, External, unknown, faults>>

-----------------------------------------------------------------------------
(* The stale sweep, the environment and failures. *)

(* Mutant: only forgotten decisions are swept. *)
SweepableDecision == review.status = "approved" /\ \A h \in Hashes : ~Unfinished(h)

Sweepable ==
    \/ /\ review.status = "applying"
       /\ \A h \in Hashes : intents[h].state \notin Nonterminal
    \/ /\ review.status = "approved"
       /\ \A h \in Hashes : ~Unfinished(h)

(* reset_stale_applying_reviews. *)
Sweep ==
    /\ review.old /\ Sweepable /\ SetReview("pending")
    /\ UNCHANGED <<Intents, lock, actors, External, unknown, faults>>

(* 300 s pass.  No request or drain is that slow. *)
Age ==
    /\ review.status \in {"approved", "applying"} /\ ~review.old
    /\ \A a \in Humans \cup Drains : actors[a].at \in {"idle", "seen"}
    /\ review' = [review EXCEPT !.old = TRUE]
    /\ UNCHANGED <<Intents, lock, actors, External, unknown, faults>>

(* A PATCH nobody waits for lands or is lost. *)
Land(h) ==
    /\ h \in wire /\ wire' = wire \ {h} /\ (doc' = h \/ doc' = doc)
    /\ UNCHANGED <<review, Intents, lock, actors, unknown, faults>>

(* Somebody edits the document in Paperless. *)
Edit ==
    /\ faults.edits < MaxEdits /\ doc' = "edited"
    /\ faults' = [faults EXCEPT !.edits = @ + 1]
    /\ UNCHANGED <<review, Intents, lock, actors, wire, unknown>>

Unlocked(a) == lock' = IF lock = a THEN NoOne ELSE lock
CountCrash == faults.crashes < MaxCrashes /\ faults' = [faults EXCEPT !.crashes = @ + 1]

Crash(a) ==
    /\ ~At(a, "idle") /\ CountCrash /\ Unlocked(a) /\ Leave(a)
    /\ UNCHANGED <<review, Intents, External, unknown>>

(* The drain's 45 s timeout drops the patch and goes on as after an error. *)
DrainTimeout(w) ==
    /\ actors[w].at \in PatchPhase /\ CountCrash /\ Unlocked(w) /\ GoTo(w, "failed")
    /\ UNCHANGED <<review, Intents, External, unknown>>

-----------------------------------------------------------------------------
ApplySteps(a) ==
    \/ Resolve(a) \/ ResolveFails(a) \/ Conflict(a) \/ TryLock(a) \/ Prepare(a)
    \/ MarkInFlight(a) \/ Send(a) \/ Confirm(a) \/ Check(a) \/ Reconcile(a) \/ CheckFails(a)
    \/ MarkApplied(a) \/ Finalize(a) \/ AfterFailure(a) \/ Revert(a)

Recovery(w) ==
    \/ RecoveryList(w) \/ RecoveryLock(w) \/ Reread(w) \/ SettleApplied(w)
    \/ AfterRecoveryError(w) \/ SettleReads(w) \/ SettleReverts(w) \/ SettleFinalizes(w)

Next ==
    \/ \E p \in Humans : Decide(p) \/ ClaimForApply(p) \/ SettleFailed(p)
    \/ \E w \in Drains : DrainList(w) \/ DrainClaim(w) \/ DrainTimeout(w)
    \/ \E w \in Recoverers : Recovery(w)
    \/ \E a \in Actors : ApplySteps(a) \/ Crash(a)
    \/ \E h \in Hashes : Land(h)
    \/ Sweep \/ Age \/ Edit

Spec == Init /\ [][Next]_vars

(* An actor that has begun goes on, the recovery ticks, time passes.  Nobody has
   to decide, and nothing is assumed of the drain's ticks. *)
Fairness ==
    /\ \A a \in Actors : WF_vars(ApplySteps(a))
    /\ \A p \in Humans : WF_vars(ClaimForApply(p)) /\ WF_vars(SettleFailed(p))
    /\ \A w \in Drains : WF_vars(DrainClaim(w))
    /\ \A w \in Recoverers : WF_vars(Recovery(w))
    /\ WF_vars(Sweep) /\ WF_vars(Age)

FairSpec == Spec /\ Fairness

-----------------------------------------------------------------------------
(* Whoever is between the mark and the answer of a PATCH finds the row as it
   left it: the advisory lock is what the updates' owner tests rely on. *)
WriterOwnsIntent ==
    \A a \in Actors :
        actors[a].at \in {"sending", "answered", "refused", "unanswered", "reconciling"} =>
            lock = a /\ Intent(a).state = "in_flight"

(* A PATCH whose fate nobody knows is not sent again before the document has
   been read: crashes, dropped futures and retries included. *)
NoBlindRepeat ==
    [][\A a \in Actors : Send(a) => Hash(a) \notin unknown]_vars

(* An item counts as applied only with an intent whose PATCH was answered or
   seen in the document. *)
AppliedHasEvidence ==
    review.status = "applied" =>
        \E h \in Hashes : intents[h].state \in {"confirmed", "reconciled", "finalized"}

(* While an intent is undecided its item cannot be decided or drained again. *)
FencedWhileUnresolved ==
    (\E h \in Hashes : intents[h].state \in Nonterminal) => review.status \in {"applying", "applied"}

(* An item being applied is applied or comes back to a person. *)
ApplyingEnds == review.status = "applying" ~> review.status # "applying"

(* So does one that was approved and then forgotten. *)
DecisionNotStranded == review.status = "approved" ~> review.status # "approved"
=============================================================================
