-------------------------- MODULE ReviewApplyProofs --------------------------
(***************************************************************************)
(* The safety properties of ReviewApply for any number of requests,        *)
(* drains, recoveries and bodies, and any number of failures.              *)
(*                                                                         *)
(* IInv ties the place of an actor to the lock, to the row of its intent   *)
(* and to what is known of its PATCH.  Only the holder of the lock takes   *)
(* an intent from one state to another, but for two statements that run    *)
(* without it: they touch rows that are confirmed or failed.               *)
(***************************************************************************)
EXTENDS ReviewApply, FiniteSetTheorems, TLAPS

States   == Nonterminal \cup {"none", "finalized", "failed"}
Evidence == {"confirmed", "reconciled", "finalized"}

WriterPlaces == {"sending", "answered", "refused", "unanswered", "reconciling"}
ClaimPlaces  == {"decided", "seen", "claimed", "conflict", "ready", "settling"}
NamelessPlaces == {"idle", "decided", "seen", "claimed", "conflict", "failed", "reverting", "settling"}

(* Where an actor needs the lock; the recovery keeps it to the end. *)
LockedPlaces   == WriterPlaces \cup {"locked", "prepared", "reread", "unsettled", "expecting"}
RecoveryPlaces == {"done", "marked", "failed", "reverting"}
NeedsLock(a) ==
    \/ actors[a].at \in LockedPlaces
    \/ a \in Recoverers /\ actors[a].at \in RecoveryPlaces

Typed ==
    /\ review \in [status: {"pending", "approved", "applying", "applied", "rejected"}, old: BOOLEAN]
    /\ intents \in [Hashes -> [state: States, final: BOOLEAN, failures: Int]]
    /\ lock \in Actors \cup {NoOne}
    /\ actors \in [Actors -> [at: Places, hash: Hashes \cup {NoOne}]]
    /\ unknown \subseteq Hashes

(* What holds of one actor. *)
Placed(a) ==
    /\ \/ actors[a].at \notin NamelessPlaces
       \/ a \in Recoverers /\ actors[a].at # "idle"
       => actors[a].hash \in Hashes
    /\ a \in Recoverers => actors[a].at \notin ClaimPlaces
    /\ NeedsLock(a) => lock = a
    /\ actors[a].at = "prepared" => intents[actors[a].hash].state = "prepared"
    /\ actors[a].at \in WriterPlaces => intents[actors[a].hash].state = "in_flight"
    /\ actors[a].at = "sending" => actors[a].hash \notin unknown
    /\ actors[a].at \in {"done", "marked"} => intents[actors[a].hash].state \in Evidence

IInv ==
    /\ Typed
    /\ \A a \in Actors : Placed(a)
    /\ \A h \in unknown : intents[h].state = "in_flight"
    /\ AppliedHasEvidence

USE DEF Places, PatchPhase, Nonterminal, States, Evidence, WriterPlaces, ClaimPlaces,
        NamelessPlaces, LockedPlaces, RecoveryPlaces

(* The start. *)
LEMMA InitIInv == Init => IInv
  BY ActorAssumption
  DEF Init, IInv, Typed, Placed, NeedsLock, AppliedHasEvidence, NoIntent, Idle, Actors

(* The invariant is about these variables only. *)
LEMMA StutterIInv ==
    ASSUME IInv, UNCHANGED <<review, intents, lock, actors, unknown>>
    PROVE  IInv'
  BY DEF IInv, Typed, Placed, NeedsLock, AppliedHasEvidence

(* What a step of actor a has to show: it moves a alone, it takes a free lock or
   its own, and it leaves the rows of the other actors as they are. *)
Moves(a) ==
    /\ actors' \in [Actors -> [at: Places, hash: Hashes \cup {NoOne}]]
    /\ \A b \in Actors \ {a} : actors'[b] = actors[b]
    /\ lock' = lock \/ (lock = NoOne /\ lock' = a) \/ (lock = a /\ lock' = NoOne)

(* A change of the rows that the holder of the lock may make, and what anybody
   may: finalize. *)
OnlyRow(h, state) ==
    /\ intents'[h].state = state
    /\ \A k \in Hashes \ {h} : intents'[k].state = intents[k].state

(* The rows of an intent in Evidence keep being evidence. *)
Finalizes ==
    \A k \in Hashes : \/ intents'[k].state = intents[k].state
                      \/ intents[k].state \in Evidence /\ intents'[k].state \in Evidence

(* The two ways an actor is moved. *)
LEMMA GoToMoves ==
    ASSUME IInv, NEW a \in Actors, NEW p \in Places, GoTo(a, p)
    PROVE  /\ actors' \in [Actors -> [at: Places, hash: Hashes \cup {NoOne}]]
           /\ \A b \in Actors \ {a} : actors'[b] = actors[b]
           /\ actors'[a].at = p
           /\ actors'[a].hash = actors[a].hash
  <1> DEFINE r == [actors[a] EXCEPT !.at = p]
  <1>1. actors \in [Actors -> [at: Places, hash: Hashes \cup {NoOne}]]
    BY DEF IInv, Typed
  <1>2. r \in [at: Places, hash: Hashes \cup {NoOne}] /\ r.at = p /\ r.hash = actors[a].hash
    BY <1>1
  <1>3. actors' = [actors EXCEPT ![a] = r]
    BY DEF GoTo
  <1> HIDE DEF r
  <1> QED
    BY <1>1, <1>2, <1>3

LEMMA LeaveMoves ==
    ASSUME IInv, NEW a \in Actors, Leave(a)
    PROVE  /\ actors' \in [Actors -> [at: Places, hash: Hashes \cup {NoOne}]]
           /\ \A b \in Actors \ {a} : actors'[b] = actors[b]
           /\ Placed(a)'
  <1>1. actors' = [actors EXCEPT ![a] = Idle] /\ Idle \in [at: Places, hash: Hashes \cup {NoOne}]
    BY DEF Leave, Idle
  <1>2. actors'[a].at = "idle"
    BY <1>1 DEF IInv, Typed, Idle
  <1> QED
    BY <1>1, <1>2 DEF IInv, Typed, Placed, NeedsLock

(* Other actors are not disturbed by a step that leaves states alone or
   finalizes, whoever makes it. *)
LEMMA OthersFinalize ==
    ASSUME IInv, NEW a \in Actors, Moves(a), Finalizes, unknown' = unknown
    PROVE  \A b \in Actors \ {a} : Placed(b)'
  <1> SUFFICES ASSUME NEW b \in Actors \ {a} PROVE Placed(b)'
    OBVIOUS
  <1>1. actors'[b] = actors[b]
    BY DEF IInv, Typed, Moves
  <1>2. NeedsLock(b) => lock' = b
    BY ActorAssumption DEF IInv, Placed, Moves, Actors
  <1>3. actors[b].hash \in Hashes => 
            \/ intents'[actors[b].hash].state = intents[actors[b].hash].state
            \/ intents[actors[b].hash].state \in Evidence /\ intents'[actors[b].hash].state \in Evidence
    BY DEF Finalizes
  <1> QED
    BY <1>1, <1>2, <1>3 DEF IInv, Placed, NeedsLock

(* Nor by a step of the lock holder that writes one row and does not take it
   away from evidence. *)
LEMMA OthersWrite ==
    ASSUME IInv, NEW a \in Actors, Moves(a), lock = a, NEW h \in Hashes, NEW s, OnlyRow(h, s),
           intents[h].state \notin Evidence,
           unknown' \subseteq unknown \cup {h}
    PROVE  \A b \in Actors \ {a} : Placed(b)'
  <1> SUFFICES ASSUME NEW b \in Actors \ {a} PROVE Placed(b)'
    OBVIOUS
  <1>1. actors'[b] = actors[b]
    BY DEF IInv, Typed, Moves
  <1>2. ~NeedsLock(b)
    BY DEF IInv, Placed
  <1>3. actors[b].at \in {"done", "marked"} =>
            actors[b].hash # h /\ intents'[actors[b].hash].state = intents[actors[b].hash].state
    BY DEF IInv, Placed, OnlyRow
  <1> QED
    BY <1>1, <1>2, <1>3 DEF IInv, Placed, NeedsLock

(* Evidence is never lost by either. *)
LEMMA EvidenceStays ==
    ASSUME IInv, review'.status = "applied" => review.status = "applied",
           Finalizes \/ (\E h \in Hashes : \E s : OnlyRow(h, s) /\ intents[h].state \notin Evidence)
    PROVE  AppliedHasEvidence'
  BY DEF IInv, AppliedHasEvidence, OnlyRow, Finalizes

-----------------------------------------------------------------------------
(* Steps that leave the intents and the history alone. *)

(* They keep IInv when they move one actor to a place that suits it. *)
LEMMA MoveKeeps ==
    ASSUME IInv, NEW a \in Actors, Moves(a), Placed(a)',
           review' \in [status: {"pending", "approved", "applying", "applied", "rejected"}, old: BOOLEAN],
           review'.status = "applied" => review.status = "applied" \/ AppliedHasEvidence',
           UNCHANGED <<intents, unknown>>
    PROVE  IInv'
  <1>1. Typed'
    BY DEF IInv, Typed, Moves, Actors
  <1>2. \A b \in Actors \ {a} : Placed(b)'
    BY OthersFinalize DEF Finalizes
  <1>3. AppliedHasEvidence'
    BY DEF IInv, AppliedHasEvidence
  <1> QED
    BY <1>1, <1>2, <1>3 DEF IInv

(* Leaving is always allowed, and so is going to a place that suits. *)
LEMMA LeaveKeeps ==
    ASSUME IInv, NEW a \in Actors, Leave(a),
           lock' = lock \/ (lock = NoOne /\ lock' = a) \/ (lock = a /\ lock' = NoOne),
           review' \in [status: {"pending", "approved", "applying", "applied", "rejected"}, old: BOOLEAN],
           review'.status = "applied" => review.status = "applied" \/ AppliedHasEvidence',
           UNCHANGED <<intents, unknown>>
    PROVE  IInv'
  BY LeaveMoves, MoveKeeps DEF Moves

LEMMA GoToKeeps ==
    ASSUME IInv, NEW a \in Actors, NEW p \in Places, GoTo(a, p),
           lock' = lock \/ (lock = NoOne /\ lock' = a) \/ (lock = a /\ lock' = NoOne),
           p \notin NamelessPlaces \/ (a \in Recoverers /\ p # "idle") => actors[a].hash \in Hashes,
           a \in Recoverers => p \notin ClaimPlaces,
           p \in LockedPlaces \/ (a \in Recoverers /\ p \in RecoveryPlaces) => lock' = a,
           p = "prepared" => intents[actors[a].hash].state = "prepared",
           p \in WriterPlaces => intents[actors[a].hash].state = "in_flight",
           p = "sending" => actors[a].hash \notin unknown,
           p \in {"done", "marked"} => intents[actors[a].hash].state \in Evidence,
           review' \in [status: {"pending", "approved", "applying", "applied", "rejected"}, old: BOOLEAN],
           review'.status = "applied" => review.status = "applied" \/ AppliedHasEvidence',
           UNCHANGED <<intents, unknown>>
    PROVE  IInv'
  <1>1. /\ actors' \in [Actors -> [at: Places, hash: Hashes \cup {NoOne}]]
        /\ \A b \in Actors \ {a} : actors'[b] = actors[b]
        /\ actors'[a].at = p
        /\ actors'[a].hash = actors[a].hash
    BY GoToMoves
  <1>2. Placed(a)'
    BY <1>1 DEF Placed, NeedsLock
  <1>3. Moves(a)
    BY <1>1 DEF Moves
  <1> QED
    BY <1>2, <1>3, MoveKeeps

(* Deciding sets the status. *)
LEMMA SetReviewSets ==
    ASSUME NEW s \in {"pending", "approved", "applying", "applied", "rejected"}, SetReview(s)
    PROVE  /\ review' \in [status: {"pending", "approved", "applying", "applied", "rejected"}, old: BOOLEAN]
           /\ review'.status = s
  BY DEF SetReview

(* What a revert may do to the item. *)
LEMMA RevertIsPlain ==
    ASSUME IInv, RevertFromApplying
    PROVE  /\ review' \in [status: {"pending", "approved", "applying", "applied", "rejected"}, old: BOOLEAN]
           /\ review'.status = "applied" => review.status = "applied"
  <1>1. CASE SetReview("pending")
    BY <1>1, SetReviewSets
  <1>2. CASE UNCHANGED review
    BY <1>2 DEF IInv, Typed
  <1> QED
    BY <1>1, <1>2 DEF RevertFromApplying

(* Decisions, claims and the way to the lock. *)
LEMMA ClaimsKeep ==
    ASSUME IInv, NEW a \in Actors,
           \/ a \in Humans /\ (Decide(a) \/ ClaimForApply(a))
           \/ a \in Drains /\ (DrainList(a) \/ DrainClaim(a))
           \/ Resolve(a) \/ ResolveFails(a) \/ Conflict(a) \/ TryLock(a)
    PROVE  IInv'
  <1>0. Typed /\ Placed(a)
    BY DEF IInv
  <1> USE <1>0, ActorAssumption, SetReviewSets DEF Typed, Placed, Actors, At, Intents, External
  <1>1. CASE a \in Humans /\ Decide(a)
    <2>1. CASE GoTo(a, "decided") /\ SetReview("approved")
      BY <1>1, <2>1, GoToKeeps DEF Decide
    <2>2. CASE SetReview("rejected") /\ UNCHANGED actors
      BY <1>1, <2>2, MoveKeeps DEF Decide, Moves, NeedsLock
    <2> QED
      BY <1>1, <2>1, <2>2 DEF Decide
  <1>2. CASE a \in Humans /\ ClaimForApply(a)
    <2>1. CASE SetReview("applying") /\ GoTo(a, "claimed")
      BY <1>2, <2>1, GoToKeeps DEF ClaimForApply
    <2>2. CASE Leave(a) /\ UNCHANGED review
      BY <1>2, <2>2, LeaveKeeps DEF ClaimForApply
    <2> QED
      BY <1>2, <2>1, <2>2 DEF ClaimForApply
  <1>3. CASE a \in Drains /\ DrainList(a)
    BY <1>3, GoToKeeps DEF DrainList
  <1>4. CASE a \in Drains /\ DrainClaim(a)
    <2>1. CASE SetReview("applying") /\ GoTo(a, "claimed")
      BY <1>4, <2>1, GoToKeeps DEF DrainClaim
    <2>2. CASE Leave(a) /\ UNCHANGED review
      BY <1>4, <2>2, LeaveKeeps DEF DrainClaim
    <2> QED
      BY <1>4, <2>1, <2>2 DEF DrainClaim
  <1>5. CASE Resolve(a)
    <2>1. CASE GoTo(a, "conflict")
      BY <1>5, <2>1, GoToKeeps DEF Resolve
    <2>2. ASSUME NEW h \in Hashes, actors' = [actors EXCEPT ![a] = [at |-> "ready", hash |-> h]]
          PROVE  IInv'
      <3>1. Moves(a) /\ Placed(a)'
        BY <1>5, <2>2 DEF Resolve, Moves, NeedsLock
      <3> QED
        BY <1>5, <3>1, MoveKeeps DEF Resolve
    <2> QED
      BY <1>5, <2>1, <2>2 DEF Resolve
  <1>6. CASE ResolveFails(a)
    BY <1>6, GoToKeeps DEF ResolveFails
  <1>7. CASE Conflict(a)
    BY <1>7, LeaveKeeps, RevertIsPlain DEF Conflict
  <1>8. CASE TryLock(a)
    BY <1>8, GoToKeeps DEF TryLock, LockAvailable
  <1> QED
    BY <1>1, <1>2, <1>3, <1>4, <1>5, <1>6, <1>7, <1>8

(* The recovery's way to an intent, and what a caller does after a failure. *)
LEMMA RecoveryKeeps ==
    ASSUME IInv, NEW a \in Actors,
           \/ AfterFailure(a) \/ Revert(a)
           \/ /\ a \in Recoverers
              /\ \/ RecoveryList(a) \/ RecoveryLock(a) \/ Reread(a) \/ SettleApplied(a)
                 \/ AfterRecoveryError(a) \/ SettleReads(a) \/ SettleReverts(a)
    PROVE  IInv'
  <1>0. Typed /\ Placed(a)
    BY DEF IInv
  <1> USE <1>0, ActorAssumption, RevertIsPlain
      DEF Typed, Placed, NeedsLock, Actors, At, Hash, Intent, Intents, External, Release
  <1>1. CASE AfterFailure(a)
    BY <1>1, GoToKeeps, LeaveKeeps DEF AfterFailure
  <1>2. CASE Revert(a)
    BY <1>2, GoToKeeps, LeaveKeeps DEF Revert
  <1>3. CASE a \in Recoverers /\ RecoveryList(a)
    <2>1. PICK h \in Hashes : actors' = [actors EXCEPT ![a] = [at |-> "listed", hash |-> h]]
      BY <1>3 DEF RecoveryList
    <2>2. Moves(a) /\ Placed(a)'
      BY <1>3, <2>1 DEF RecoveryList, Moves
    <2> QED
      BY <1>3, <2>2, MoveKeeps DEF RecoveryList
  <1>4. CASE a \in Recoverers /\ RecoveryLock(a)
    BY <1>4, GoToKeeps, LeaveKeeps DEF RecoveryLock, LockAvailable
  <1>5. CASE a \in Recoverers /\ Reread(a)
    <2>1. CASE Release(a)
      BY <1>5, <2>1, LeaveKeeps DEF Reread
    <2>2. CASE GoTo(a, "unsettled") /\ UNCHANGED lock
      BY <1>5, <2>2, GoToKeeps DEF Reread
    <2>3. CASE GoTo(a, "locked") /\ UNCHANGED lock
      BY <1>5, <2>3, GoToKeeps DEF Reread
    <2> QED
      BY <1>5, <2>1, <2>2, <2>3 DEF Reread
  <1>6. CASE a \in Recoverers /\ SettleApplied(a)
    <2>1. AppliedHasEvidence'
      BY <1>6 DEF SettleApplied, AppliedHasEvidence
    <2>2. CASE SetReview("applied") /\ GoTo(a, "marked") /\ UNCHANGED lock
      BY <1>6, <2>1, <2>2, SetReviewSets, GoToKeeps DEF SettleApplied
    <2>3. CASE Release(a) /\ UNCHANGED review
      BY <1>6, <2>3, LeaveKeeps DEF SettleApplied
    <2> QED
      BY <1>6, <2>2, <2>3 DEF SettleApplied
  <1>7. CASE a \in Recoverers /\ AfterRecoveryError(a)
    BY <1>7, GoToKeeps, LeaveKeeps DEF AfterRecoveryError
  <1>8. CASE a \in Recoverers /\ SettleReads(a)
    BY <1>8, GoToKeeps, LeaveKeeps DEF SettleReads
  <1>9. CASE a \in Recoverers /\ SettleReverts(a)
    BY <1>9, GoToKeeps DEF SettleReverts
  <1> QED
    BY <1>1, <1>2, <1>3, <1>4, <1>5, <1>6, <1>7, <1>8, <1>9

(* The callers mark the item applied; crashes and timeouts move an actor out of
   the way. *)
LEMMA MarkAndCrashKeep ==
    ASSUME IInv, NEW a \in Actors,
           MarkApplied(a) \/ Crash(a) \/ (a \in Drains /\ DrainTimeout(a))
    PROVE  IInv'
  <1>0. Typed /\ Placed(a)
    BY DEF IInv
  <1> USE <1>0, ActorAssumption
      DEF Typed, Placed, NeedsLock, Actors, At, Intents, External, Unlocked
  <1>1. CASE MarkApplied(a)
    <2>1. AppliedHasEvidence'
      BY <1>1 DEF MarkApplied, AppliedHasEvidence
    <2>2. /\ review' \in [status: {"pending", "approved", "applying", "applied", "rejected"}, old: BOOLEAN]
          /\ review'.status = "applied" => AppliedHasEvidence'
      BY <1>1, <2>1, SetReviewSets DEF MarkApplied
    <2> QED
      BY <1>1, <2>2, GoToKeeps DEF MarkApplied
  <1>2. CASE Crash(a)
    BY <1>2, LeaveKeeps DEF Crash
  <1>3. CASE a \in Drains /\ DrainTimeout(a)
    BY <1>3, GoToKeeps DEF DrainTimeout
  <1> QED
    BY <1>1, <1>2, <1>3

(* Nobody's steps: the sweep, time, and what happens in Paperless. *)
LEMMA EnvironmentKeeps ==
    ASSUME IInv, Sweep \/ Age \/ Edit \/ (\E h \in Hashes : Land(h))
    PROVE  IInv'
  <1>1. CASE Edit \/ (\E h \in Hashes : Land(h))
    BY <1>1, StutterIInv DEF Edit, Land, Intents
  <1>2. ASSUME review' \in [status: {"pending", "approved", "applying", "applied", "rejected"}, old: BOOLEAN],
               review'.status = "applied" => review.status = "applied",
               UNCHANGED <<intents, lock, actors, unknown>>
        PROVE  IInv'
    BY <1>2 DEF IInv, Typed, Placed, NeedsLock, AppliedHasEvidence
  <1>3. CASE Sweep
    BY <1>2, <1>3 DEF Sweep, SetReview, Intents
  <1>4. CASE Age
    <2>1. review' = [review EXCEPT !.old = TRUE] /\ UNCHANGED <<intents, lock, actors, unknown>>
      BY <1>4 DEF Age, Intents
    <2>2. review' \in [status: {"pending", "approved", "applying", "applied", "rejected"}, old: BOOLEAN]
      BY <2>1 DEF IInv, Typed
    <2>3. review'.status = review.status
      BY <2>1 DEF IInv, Typed
    <2> QED
      BY <1>2, <2>1, <2>2, <2>3
  <1> QED
    BY <1>1, <1>3, <1>4

-----------------------------------------------------------------------------
(* Steps that write a row. *)

(* Those of the lock holder, which knows the row is no evidence yet. *)
LEMMA WriteKeeps ==
    ASSUME IInv, NEW a \in Actors, Moves(a), Placed(a)', lock = a,
           NEW h \in Hashes, NEW s, OnlyRow(h, s), intents[h].state \notin Evidence,
           intents' \in [Hashes -> [state: States, final: BOOLEAN, failures: Int]],
           unknown' \subseteq unknown \cup {h},
           h \in unknown' => s = "in_flight",
           UNCHANGED review
    PROVE  IInv'
  <1>1. Typed'
    BY DEF IInv, Typed, Moves
  <1>2. \A b \in Actors \ {a} : Placed(b)'
    BY OthersWrite
  <1>3. \A k \in unknown' : intents'[k].state = "in_flight"
    BY DEF IInv, Typed, OnlyRow
  <1>4. AppliedHasEvidence'
    BY EvidenceStays
  <1> QED
    BY <1>1, <1>2, <1>3, <1>4 DEF IInv

(* A statement that only finalizes may be anybody's: no row it touches is one
   somebody else relies on. *)
LEMMA FinalizeKeeps ==
    ASSUME IInv, NEW a \in Actors, Moves(a), Placed(a)', Finalizes,
           intents' \in [Hashes -> [state: States, final: BOOLEAN, failures: Int]],
           UNCHANGED <<review, unknown>>
    PROVE  IInv'
  <1>1. Typed'
    BY DEF IInv, Typed, Moves
  <1>2. \A b \in Actors \ {a} : Placed(b)'
    BY OthersFinalize
  <1>3. \A k \in unknown' : intents'[k].state = "in_flight"
    BY DEF IInv, Typed, Finalizes
  <1>4. AppliedHasEvidence'
    BY EvidenceStays
  <1> QED
    BY <1>1, <1>2, <1>3, <1>4 DEF IInv

LEMMA FinalizeIntentFinalizes ==
    ASSUME Typed, NEW h \in Hashes, FinalizeIntent(h)
    PROVE  /\ Finalizes
           /\ intents' \in [Hashes -> [state: States, final: BOOLEAN, failures: Int]]
  <1> DEFINE Row == [state: States, final: BOOLEAN, failures: Int]
  <1> DEFINE r == [intents[h] EXCEPT !.state = "finalized", !.final = TRUE]
  <1>1. intents \in [Hashes -> Row]
    BY DEF Typed
  <1>2. CASE intents[h].state \in {"confirmed", "reconciled"}
    <2>1. intents' = [intents EXCEPT ![h].state = "finalized", ![h].final = TRUE]
      BY <1>2 DEF FinalizeIntent
    <2>2. intents' \in [Hashes -> Row] /\ intents'[h].state = "finalized"
      BY <1>1, <2>1
    <2>3. \A k \in Hashes \ {h} : intents'[k] = intents[k]
      BY <1>1, <2>1
    <2> QED
      BY <1>2, <2>2, <2>3 DEF Finalizes
  <1>3. CASE intents[h].state \notin {"confirmed", "reconciled"}
    BY <1>1, <1>3 DEF FinalizeIntent, Finalizes
  <1> QED
    BY <1>2, <1>3

LEMMA FinalizeFailedFinalizes ==
    ASSUME Typed, NEW H, FinalizeFailed(H)
    PROVE  /\ Finalizes
           /\ intents' \in [Hashes -> [state: States, final: BOOLEAN, failures: Int]]
  <1> DEFINE Row == [state: States, final: BOOLEAN, failures: Int]
  <1>1. intents \in [Hashes -> Row]
    BY DEF Typed
  <1>2. \A k \in Hashes : [intents[k] EXCEPT !.final = TRUE] \in Row
    BY <1>1
  <1>3. \A k \in Hashes : [intents[k] EXCEPT !.final = TRUE].state = intents[k].state
    BY <1>1
  <1>4. intents' = [k \in Hashes |-> IF k \in H /\ intents[k].state = "failed"
                                     THEN [intents[k] EXCEPT !.final = TRUE] ELSE intents[k]]
    BY DEF FinalizeFailed
  <1>5. \A k \in Hashes : intents'[k] \in Row /\ intents'[k].state = intents[k].state
    BY <1>1, <1>2, <1>3, <1>4, Zenon
  <1>6. intents' \in [Hashes -> Row]
    BY <1>4, <1>5, Zenon
  <1> QED
    BY <1>5, <1>6 DEF Finalizes

(* finalize_apply_intent and finalize_failed_apply_intent. *)
LEMMA FinalizersKeep ==
    ASSUME IInv, NEW a \in Actors,
           Finalize(a) \/ SettleFailed(a) \/ SettleFinalizes(a)
    PROVE  IInv'
  <1>0. Typed /\ Placed(a)
    BY DEF IInv
  <1>1. CASE Finalize(a)
    <2>1. actors[a].hash \in Hashes
      BY <1>0, <1>1 DEF Finalize, At, Placed
    <2>2. Moves(a) /\ Placed(a)' /\ UNCHANGED <<review, unknown>>
      BY <1>1, LeaveMoves DEF Finalize, Moves
    <2>3. FinalizeIntent(actors[a].hash)
      BY <1>1 DEF Finalize, Hash
    <2>4. /\ Finalizes
          /\ intents' \in [Hashes -> [state: States, final: BOOLEAN, failures: Int]]
      BY <1>0, <2>1, <2>3, FinalizeIntentFinalizes
    <2> QED
      BY <2>2, <2>4, FinalizeKeeps
  <1>2. CASE SettleFailed(a)
    <2>1. Moves(a) /\ Placed(a)' /\ UNCHANGED <<review, unknown>>
      BY <1>2, LeaveMoves DEF SettleFailed, Moves
    <2>2. /\ Finalizes
          /\ intents' \in [Hashes -> [state: States, final: BOOLEAN, failures: Int]]
      BY <1>0, <1>2, FinalizeFailedFinalizes DEF SettleFailed
    <2> QED
      BY <2>1, <2>2, FinalizeKeeps
  <1>3. CASE SettleFinalizes(a)
    <2>1. lock = a
      BY <1>0, <1>3 DEF SettleFinalizes, At, Placed, NeedsLock
    <2>2. Moves(a) /\ Placed(a)' /\ UNCHANGED <<review, unknown>>
      BY <1>3, <2>1, LeaveMoves DEF SettleFinalizes, Release, Moves
    <2>3. /\ Finalizes
          /\ intents' \in [Hashes -> [state: States, final: BOOLEAN, failures: Int]]
      <3>1. CASE FinalizeFailed({Hash(a)})
        BY <1>0, <3>1, FinalizeFailedFinalizes
      <3>2. CASE UNCHANGED intents
        BY <1>0, <3>2 DEF Finalizes, Typed
      <3> QED
        BY <1>3, <3>1, <3>2 DEF SettleFinalizes
    <2> QED
      BY <2>2, <2>3, FinalizeKeeps
  <1> QED
    BY <1>1, <1>2, <1>3

-----------------------------------------------------------------------------
(* The lock holder's steps between the lock and the end of the apply. *)

(* One row takes a state, as SetIntent does. *)
LEMMA SetIntentSets ==
    ASSUME Typed, NEW a \in Actors, actors[a].hash \in Hashes,
           NEW s \in States, SetIntent(a, s)
    PROVE  /\ OnlyRow(actors[a].hash, s)
           /\ intents' \in [Hashes -> [state: States, final: BOOLEAN, failures: Int]]
  <1> DEFINE Row == [state: States, final: BOOLEAN, failures: Int]
  <1>1. intents \in [Hashes -> Row]
    BY DEF Typed
  <1>2. intents' = [intents EXCEPT ![actors[a].hash].state = s]
    BY DEF SetIntent, Hash
  <1> QED
    BY <1>1, <1>2 DEF OnlyRow

(* The hand-over of the lock at the end. *)
LEMMA UnlockMoves ==
    ASSUME IInv, NEW a \in Actors, lock = a, Unlock(a)
    PROVE  /\ lock' = lock \/ (lock = a /\ lock' = NoOne)
           /\ a \in Recoverers => lock' = a
  BY DEF Unlock

(* Done with an intent that has its evidence, or giving it up. *)
LEMMA SucceedPlaces ==
    ASSUME IInv, NEW a \in Actors, lock = a, actors[a].hash \in Hashes, Succeed(a),
           intents'[actors[a].hash].state \in Evidence
    PROVE  Moves(a) /\ Placed(a)'
  <1>1. GoTo(a, "done") /\ Unlock(a)
    BY DEF Succeed
  <1>2. /\ actors' \in [Actors -> [at: Places, hash: Hashes \cup {NoOne}]]
        /\ \A b \in Actors \ {a} : actors'[b] = actors[b]
        /\ actors'[a].at = "done"
        /\ actors'[a].hash = actors[a].hash
    BY <1>1, GoToMoves
  <1> QED
    BY <1>1, <1>2, UnlockMoves DEF Moves, Placed, NeedsLock

LEMMA GiveUpPlaces ==
    ASSUME IInv, NEW a \in Actors, lock = a, actors[a].hash \in Hashes, GiveUp(a)
    PROVE  Moves(a) /\ Placed(a)'
  <1>1. GoTo(a, "failed") /\ Unlock(a)
    BY DEF GiveUp
  <1>2. /\ actors' \in [Actors -> [at: Places, hash: Hashes \cup {NoOne}]]
        /\ \A b \in Actors \ {a} : actors'[b] = actors[b]
        /\ actors'[a].at = "failed"
        /\ actors'[a].hash = actors[a].hash
    BY <1>1, GoToMoves
  <1> QED
    BY <1>1, <1>2, UnlockMoves DEF Moves, Placed, NeedsLock

(* Giving up and succeeding without a write. *)
LEMMA EndKeeps ==
    ASSUME IInv, NEW a \in Actors, lock = a, actors[a].hash \in Hashes,
           GiveUp(a) \/ (Succeed(a) /\ intents[actors[a].hash].state \in Evidence),
           UNCHANGED <<review, intents, unknown>>
    PROVE  IInv'
  <1>1. Moves(a) /\ Placed(a)'
    BY GiveUpPlaces, SucceedPlaces
  <1> QED
    BY <1>1, MoveKeeps DEF IInv, Typed

(* prepare_apply_intent: only a row nobody else can be writing is taken. *)
LEMMA PrepareKeeps ==
    ASSUME IInv, NEW a \in Actors, Prepare(a)
    PROVE  IInv'
  <1> DEFINE h == actors[a].hash
  <1>0. /\ Typed /\ Placed(a) /\ actors[a].at = "locked"
        /\ lock = a /\ h \in Hashes
    BY DEF IInv, Prepare, At, Placed, NeedsLock
  <1>1. CASE /\ intents[h].state \in {"none", "failed"}
             /\ intents' = [intents EXCEPT ![h] = Prepared]
             /\ GoTo(a, "prepared") /\ UNCHANGED <<review, lock, unknown>>
    <2>1. /\ OnlyRow(h, "prepared")
          /\ intents' \in [Hashes -> [state: States, final: BOOLEAN, failures: Int]]
      BY <1>0, <1>1 DEF OnlyRow, Prepared, Typed
    <2>2. /\ actors' \in [Actors -> [at: Places, hash: Hashes \cup {NoOne}]]
          /\ \A b \in Actors \ {a} : actors'[b] = actors[b]
          /\ actors'[a].at = "prepared" /\ actors'[a].hash = h
      BY <1>1, GoToMoves
    <2>3. Moves(a) /\ Placed(a)'
      BY <1>0, <1>1, <2>1, <2>2 DEF Moves, Placed, NeedsLock, OnlyRow
    <2>4. h \notin unknown'
      BY <1>0, <1>1 DEF IInv
    <2> QED
      BY <1>0, <1>1, <2>1, <2>3, <2>4, WriteKeeps
  <1>2. CASE /\ intents[h].state \in {"prepared"} /\ GoTo(a, "prepared")
             /\ UNCHANGED <<review, intents, lock, unknown>>
    BY <1>0, <1>2, GoToKeeps DEF Typed
  <1>3. CASE /\ intents[h].state = "in_flight" /\ GoTo(a, "reconciling")
             /\ UNCHANGED <<review, intents, lock, unknown>>
    BY <1>0, <1>3, GoToKeeps DEF Typed
  <1>4. CASE /\ intents[h].state \in Evidence /\ Succeed(a) /\ UNCHANGED <<review, intents, unknown>>
    BY <1>0, <1>4, EndKeeps
  <1>5. CASE GiveUp(a) /\ UNCHANGED <<review, intents, unknown>>
    BY <1>0, <1>5, EndKeeps
  <1> QED
    BY <1>1, <1>2, <1>3, <1>4, <1>5 DEF Prepare, SendableIntents, Intent, Hash, Intents

(* The mark, the PATCH and its answer. *)
LEMMA PatchKeeps ==
    ASSUME IInv, NEW a \in Actors, MarkInFlight(a) \/ Send(a) \/ Confirm(a)
    PROVE  IInv'
  <1> DEFINE h == actors[a].hash
  <1>0. Typed /\ Placed(a)
    BY DEF IInv
  <1>1. CASE MarkInFlight(a)
    <2>1. lock = a /\ h \in Hashes /\ intents[h].state = "prepared" /\ h \notin unknown
      BY <1>0, <1>1 DEF IInv, MarkInFlight, At, Placed, NeedsLock
    <2>2. SetIntent(a, "in_flight") /\ GoTo(a, "sending") /\ UNCHANGED <<review, lock, unknown>>
      BY <1>1 DEF MarkInFlight
    <2>3. /\ OnlyRow(h, "in_flight")
          /\ intents' \in [Hashes -> [state: States, final: BOOLEAN, failures: Int]]
      BY <1>0, <2>1, <2>2, SetIntentSets
    <2>4. /\ actors' \in [Actors -> [at: Places, hash: Hashes \cup {NoOne}]]
          /\ \A b \in Actors \ {a} : actors'[b] = actors[b]
          /\ actors'[a].at = "sending" /\ actors'[a].hash = h
      BY <2>2, GoToMoves
    <2>5. Moves(a) /\ Placed(a)'
      BY <1>0, <2>1, <2>2, <2>3, <2>4 DEF Moves, Placed, NeedsLock, OnlyRow
    <2> QED
      BY <2>1, <2>2, <2>3, <2>5, WriteKeeps
  <1>2. CASE Send(a)
    <2>1. lock = a /\ h \in Hashes /\ intents[h].state = "in_flight"
      BY <1>0, <1>2 DEF Send, At, Placed, NeedsLock
    <2>2. PICK p \in {"answered", "refused", "unanswered"} : GoTo(a, p)
      BY <1>2 DEF Send
    <2>3. unknown' = unknown \cup {h} /\ UNCHANGED <<review, intents, lock>>
      BY <1>2 DEF Send, Hash, Intents
    <2>4. /\ actors' \in [Actors -> [at: Places, hash: Hashes \cup {NoOne}]]
          /\ \A b \in Actors \ {a} : actors'[b] = actors[b]
          /\ actors'[a].at = p /\ actors'[a].hash = h
      BY <2>2, GoToMoves
    <2>5. Moves(a) /\ Placed(a)'
      BY <1>0, <2>1, <2>3, <2>4 DEF Moves, Placed, NeedsLock
    <2>6. OnlyRow(h, "in_flight")
      BY <2>1, <2>3 DEF OnlyRow
    <2> QED
      BY <1>0, <2>1, <2>3, <2>5, <2>6, WriteKeeps DEF Typed
  <1>3. CASE Confirm(a)
    <2>1. lock = a /\ h \in Hashes /\ intents[h].state = "in_flight"
      BY <1>0, <1>3 DEF Confirm, At, Placed, NeedsLock
    <2>2. SetIntent(a, "confirmed") /\ Succeed(a) /\ unknown' = unknown \ {h} /\ UNCHANGED review
      BY <1>3 DEF Confirm, Hash
    <2>3. /\ OnlyRow(h, "confirmed")
          /\ intents' \in [Hashes -> [state: States, final: BOOLEAN, failures: Int]]
      BY <1>0, <2>1, <2>2, SetIntentSets
    <2>4. Moves(a) /\ Placed(a)'
      BY <2>1, <2>2, <2>3, SucceedPlaces DEF OnlyRow
    <2> QED
      BY <2>1, <2>2, <2>3, <2>4, WriteKeeps
  <1> QED
    BY <1>1, <1>2, <1>3

(* The look at the document after a request whose fate is unknown. *)
LEMMA LookKeeps ==
    ASSUME IInv, NEW a \in Actors, Check(a) \/ Reconcile(a) \/ CheckFails(a)
    PROVE  IInv'
  <1> DEFINE h == actors[a].hash
  <1>0. Typed /\ Placed(a)
    BY DEF IInv
  <1>1. lock = a /\ h \in Hashes /\ intents[h].state = "in_flight"
    BY <1>0 DEF Check, Reconcile, CheckFails, At, Placed, NeedsLock
  <1>2. ASSUME NEW s \in States, OnlyRow(h, s),
               intents' \in [Hashes -> [state: States, final: BOOLEAN, failures: Int]],
               GiveUp(a) \/ (Succeed(a) /\ s \in Evidence),
               unknown' = unknown \ {h}, UNCHANGED review
        PROVE  IInv'
    <2>1. Moves(a) /\ Placed(a)'
      BY <1>1, <1>2, GiveUpPlaces, SucceedPlaces DEF OnlyRow
    <2> QED
      BY <1>1, <1>2, <2>1, WriteKeeps
  <1>3. ASSUME NEW s \in States, SetIntent(a, s),
               GiveUp(a) \/ (Succeed(a) /\ s \in Evidence),
               unknown' = unknown \ {h}, UNCHANGED review
        PROVE  IInv'
    BY <1>0, <1>1, <1>2, <1>3, SetIntentSets
  <1>4. CASE Reconcile(a)
    BY <1>3, <1>4 DEF Reconcile, Hash
  <1>5. CASE Check(a)
    <2>1. unknown' = unknown \ {h} /\ UNCHANGED review
      BY <1>5 DEF Check, Hash
    <2>2. CASE SetIntent(a, "reconciled") /\ Succeed(a)
      BY <1>3, <2>1, <2>2
    <2>3. CASE SetIntent(a, "failed") /\ GiveUp(a)
      BY <1>3, <2>1, <2>3
    <2>4. CASE /\ intents' = [intents EXCEPT ![h].state = "prepared", ![h].failures = @ + 1]
               /\ GiveUp(a)
      <3>1. /\ OnlyRow(h, "prepared")
            /\ intents' \in [Hashes -> [state: States, final: BOOLEAN, failures: Int]]
        BY <1>0, <1>1, <2>4 DEF Typed, OnlyRow
      <3> QED
        BY <1>2, <2>1, <2>4, <3>1
    <2> QED
      BY <1>5, <2>2, <2>3, <2>4 DEF Check, Hash
  <1>6. CASE CheckFails(a)
    BY <1>1, <1>6, EndKeeps DEF CheckFails, Intents
  <1> QED
    BY <1>4, <1>5, <1>6

-----------------------------------------------------------------------------
(* Every step keeps the invariant. *)
LEMMA NextKeeps == IInv /\ [Next]_vars => IInv'
  <1> SUFFICES ASSUME IInv, [Next]_vars PROVE IInv'
    OBVIOUS
  <1>1. CASE UNCHANGED vars
    BY <1>1, StutterIInv DEF vars
  <1>2. ASSUME NEW p \in Humans, Decide(p) \/ ClaimForApply(p) \/ SettleFailed(p)
        PROVE  IInv'
    BY <1>2, ClaimsKeep, FinalizersKeep DEF Actors
  <1>3. ASSUME NEW w \in Drains, DrainList(w) \/ DrainClaim(w) \/ DrainTimeout(w)
        PROVE  IInv'
    BY <1>3, ClaimsKeep, MarkAndCrashKeep DEF Actors
  <1>4. ASSUME NEW w \in Recoverers, Recovery(w)
        PROVE  IInv'
    BY <1>4, RecoveryKeeps, FinalizersKeep DEF Recovery, Actors
  <1>5. ASSUME NEW a \in Actors, ApplySteps(a) \/ Crash(a)
        PROVE  IInv'
    BY <1>5, ClaimsKeep, PrepareKeeps, PatchKeeps, LookKeeps, MarkAndCrashKeep,
       FinalizersKeep, RecoveryKeeps DEF ApplySteps
  <1>6. CASE (\E h \in Hashes : Land(h)) \/ Sweep \/ Age \/ Edit
    BY <1>6, EnvironmentKeeps
  <1> QED
    BY <1>1, <1>2, <1>3, <1>4, <1>5, <1>6 DEF Next

LEMMA Invariance == Spec => []IInv
  BY InitIInv, NextKeeps, PTL DEF Spec

(* Whoever is between the mark and the answer of a PATCH holds the lock and
   finds the row in flight, however many actors there are. *)
THEOREM WriterOwnsIntentAlways == Spec => []WriterOwnsIntent
  <1>1. IInv => WriterOwnsIntent
    BY DEF IInv, Placed, NeedsLock, WriterOwnsIntent, Intent, Hash
  <1> QED
    BY <1>1, Invariance, PTL

(* An applied item has an intent whose PATCH was answered or seen. *)
THEOREM AppliedHasEvidenceAlways == Spec => []AppliedHasEvidence
  <1>1. IInv => AppliedHasEvidence
    BY DEF IInv
  <1> QED
    BY <1>1, Invariance, PTL

(* No PATCH is repeated before the document has been read, whatever fails in
   between and however often. *)
THEOREM NoBlindRepeatAlways == Spec => NoBlindRepeat
  <1>1. IInv => \A a \in Actors : actors[a].at = "sending" => actors[a].hash \notin unknown
    BY DEF IInv, Placed
  <1>2. IInv => [\A a \in Actors : Send(a) => Hash(a) \notin unknown]_vars
    BY <1>1 DEF Send, At, Hash
  <1> QED
    BY <1>2, Invariance, PTL DEF NoBlindRepeat

-----------------------------------------------------------------------------
(* The rows, their order and the limits. *)

RowType == [state: States, final: BOOLEAN, failures: 0..MaxRetries]

(* An intent has a place in the order from its first row on, and its retries
   stay within the limit. *)
RowsTyped ==
    /\ intents \in [Hashes -> RowType]
    /\ order \in [Hashes -> 0..Cardinality(Hashes)]
    /\ \A h \in Hashes : /\ order[h] = 0 <=> intents[h].state = "none"
                         /\ intents[h].state = "none" => intents[h] = NoIntent

(* What Paperless holds and what went wrong so far. *)
WorldTyped ==
    /\ doc \in Hashes \cup {"base", "edited"}
    /\ wire \subseteq Hashes
    /\ faults \in [crashes: 0..MaxCrashes, errors: 0..MaxErrors, edits: 0..MaxEdits]

(* One row moves between two states of an intent that exists. *)
LEMMA RowMoves ==
    ASSUME RowsTyped, NEW h \in Hashes, intents[h].state # "none",
           NEW row \in RowType, row.state # "none",
           intents' = [intents EXCEPT ![h] = row], order' = order
    PROVE  RowsTyped'
  BY DEF RowsTyped

(* An intent changes its state alone. *)
LEMMA StateMoves ==
    ASSUME RowsTyped, NEW h \in Hashes, intents[h].state # "none",
           NEW s \in States \ {"none"}, NEW b \in BOOLEAN,
           \/ intents' = [intents EXCEPT ![h].state = s]
           \/ intents' = [intents EXCEPT ![h].state = s, ![h].final = b],
           order' = order
    PROVE  RowsTyped'
  <1> DEFINE r == [intents[h] EXCEPT !.state = s]
             q == [intents[h] EXCEPT !.state = s, !.final = b]
  <1>1. intents[h] \in RowType /\ intents \in [Hashes -> RowType]
    BY DEF RowsTyped
  <1>2. r \in RowType /\ r.state # "none" /\ q \in RowType /\ q.state # "none"
    BY <1>1 DEF RowType
  <1>3. intents' = [intents EXCEPT ![h] = r] \/ intents' = [intents EXCEPT ![h] = q]
    BY <1>1
  <1> HIDE DEF r, q
  <1> QED
    BY <1>2, <1>3, RowMoves

(* prepare_apply_intent numbers a new intent one past those that exist. *)
LEMMA PrepareNumbers ==
    ASSUME IInv, RowsTyped, NEW a \in Actors, Prepare(a)
    PROVE  RowsTyped'
  <1> DEFINE h == Hash(a)
             S == {k \in Hashes : order[k] > 0}
  <1>1. h \in Hashes /\ h = actors[a].hash
    BY DEF IInv, Placed, Prepare, At, Hash
  <1>2. CASE UNCHANGED Intents
    BY <1>2 DEF Intents, RowsTyped
  <1>3. Prepared \in RowType /\ Prepared.state # "none"
    BY LimitAssumption DEF Prepared, RowType
  <1>4. CASE /\ intents[h].state = "failed"
             /\ intents' = [intents EXCEPT ![h] = Prepared] /\ order' = order
    BY <1>1, <1>3, <1>4, RowMoves
  <1>5. CASE /\ intents[h].state = "none"
             /\ intents' = [intents EXCEPT ![h] = Prepared]
             /\ order' = [order EXCEPT ![h] = Cardinality(S) + 1]
    <2>1. order[h] = 0
      BY <1>1, <1>5 DEF RowsTyped
    <2>2. S \subseteq Hashes \ {h}
      BY <2>1
    <2>3. IsFiniteSet(Hashes \ {h}) /\ Cardinality(Hashes \ {h}) = Cardinality(Hashes) - 1
      BY <1>1, HashAssumption, FS_RemoveElement
    <2>4. IsFiniteSet(S) /\ Cardinality(S) <= Cardinality(Hashes \ {h})
      BY <2>2, <2>3, FS_Subset
    <2>5. Cardinality(S) \in Nat /\ Cardinality(Hashes) \in Nat
      BY <2>4, HashAssumption, FS_CardinalityType
    <2> HIDE DEF S
    <2>6. Cardinality(S) + 1 \in 0..Cardinality(Hashes) /\ Cardinality(S) + 1 # 0
      BY <2>3, <2>4, <2>5
    <2> QED
      BY <1>1, <1>3, <1>5, <2>6 DEF RowsTyped
  <1> QED
    BY <1>2, <1>4, <1>5 DEF Prepare, Intent, Intents

(* A transient failure is counted only below the limit. *)
LEMMA CheckCounts ==
    ASSUME IInv, RowsTyped, NEW a \in Actors, Check(a)
    PROVE  RowsTyped'
  <1> DEFINE h == Hash(a)
             row == [intents[h] EXCEPT !.state = "prepared", !.failures = intents[h].failures + 1]
  <1>1. h \in Hashes /\ intents[h].state = "in_flight" /\ intents[h] \in RowType
        /\ intents \in [Hashes -> RowType]
    BY DEF IInv, Placed, Check, At, Hash, RowsTyped
  <1>2. order' = order
    BY DEF Check
  <1>3. CASE SetIntent(a, "reconciled") \/ SetIntent(a, "failed")
    BY <1>1, <1>2, <1>3, StateMoves DEF SetIntent
  <1>4. CASE /\ intents[h].failures < MaxRetries
             /\ intents' = [intents EXCEPT ![h].state = "prepared", ![h].failures = @ + 1]
    <2>1. intents[h].failures + 1 \in 0..MaxRetries
      BY <1>1, <1>4, LimitAssumption DEF RowType
    <2>2. row \in RowType /\ row.state # "none"
      BY <1>1, <2>1 DEF RowType
    <2>3. intents' = [intents EXCEPT ![h] = row]
      BY <1>1, <1>4 DEF RowType
    <2> HIDE DEF row, h
    <2> QED
      BY <1>1, <1>2, <2>2, <2>3, RowMoves
  <1> QED
    BY <1>3, <1>4 DEF Check, MayRetry, Intent

(* finalize_apply_intent and finalize_failed_review_apply_intents. *)
LEMMA FinalRows ==
    ASSUME RowsTyped, order' = order,
           (\E h \in Hashes : FinalizeIntent(h)) \/ (\E H \in SUBSET Hashes : FinalizeFailed(H))
    PROVE  RowsTyped'
  <1>1. ASSUME NEW h \in Hashes, FinalizeIntent(h) PROVE RowsTyped'
    <2>1. CASE intents' = intents
      BY <2>1 DEF RowsTyped
    <2>2. CASE /\ intents[h].state \in {"confirmed", "reconciled"}
               /\ intents' = [intents EXCEPT ![h].state = "finalized", ![h].final = TRUE]
      BY <2>2, StateMoves
    <2> QED
      BY <1>1, <2>1, <2>2 DEF FinalizeIntent
  <1>2. ASSUME NEW H \in SUBSET Hashes, FinalizeFailed(H) PROVE RowsTyped'
    <2> DEFINE final(h) == [intents[h] EXCEPT !.final = TRUE]
    <2>1. \A h \in Hashes : intents[h] \in RowType
      BY DEF RowsTyped
    <2>2. \A h \in Hashes : final(h) \in RowType /\ final(h).state = intents[h].state
      BY <2>1 DEF RowType
    <2>3. intents' = [h \in Hashes |-> IF h \in H /\ intents[h].state = "failed"
                                     THEN final(h) ELSE intents[h]]
      BY <1>2 DEF FinalizeFailed
    <2> HIDE DEF final
    <2> QED
      BY <2>1, <2>2, <2>3 DEF RowsTyped
  <1> QED
    BY <1>1, <1>2

(* The rows stay typed. *)
LEMMA RowsKeep ==
    ASSUME IInv, RowsTyped, [Next]_vars
    PROVE  RowsTyped'
  <1>1. CASE UNCHANGED Intents
    BY <1>1 DEF Intents, RowsTyped
  <1>2. ASSUME NEW a \in Actors, MarkInFlight(a) \/ Confirm(a) \/ Reconcile(a)
        PROVE  RowsTyped'
    <2>1. /\ actors[a].hash \in Hashes
          /\ intents[actors[a].hash].state \in {"prepared", "in_flight"}
      BY <1>2 DEF IInv, Placed, MarkInFlight, Confirm, Reconcile, At
    <2>2. order' = order
      BY <1>2 DEF MarkInFlight, Confirm, Reconcile
    <2>3. \E s \in {"in_flight", "confirmed", "reconciled", "failed"} : SetIntent(a, s)
      BY <1>2 DEF MarkInFlight, Confirm, Reconcile
    <2> QED
      BY <2>1, <2>2, <2>3, StateMoves DEF SetIntent, Hash
  <1>3. ASSUME NEW a \in Actors, Finalize(a) PROVE RowsTyped'
    <2>1. actors[a].hash \in Hashes
      BY <1>3 DEF IInv, Placed, Finalize, At
    <2> QED
      BY <1>3, <2>1, FinalRows DEF Finalize, Hash
  <1>4. ASSUME NEW p \in Humans, SettleFailed(p) PROVE RowsTyped'
    BY <1>4, FinalRows DEF SettleFailed
  <1>5. ASSUME NEW w \in Recoverers, SettleFinalizes(w) PROVE RowsTyped'
    <2>1. actors[w].hash \in Hashes
      BY <1>5 DEF IInv, Placed, SettleFinalizes, At, Actors
    <2>2. CASE FinalizeFailed({Hash(w)})
      BY <1>5, <2>1, <2>2, FinalRows DEF SettleFinalizes, Hash
    <2>3. CASE UNCHANGED intents
      BY <1>1, <1>5, <2>3 DEF SettleFinalizes, Intents
    <2> QED
      BY <1>5, <2>2, <2>3 DEF SettleFinalizes
  <1>6. ASSUME NEW a \in Actors, ApplySteps(a) \/ Crash(a) PROVE RowsTyped'
    BY <1>1, <1>2, <1>3, <1>6, PrepareNumbers, CheckCounts
    DEF ApplySteps, Crash, Resolve, ResolveFails, Conflict, TryLock, Send, CheckFails,
        MarkApplied, AfterFailure, Revert, Intents
  <1>7. ASSUME NEW w \in Recoverers, Recovery(w) PROVE RowsTyped'
    BY <1>1, <1>5, <1>7 DEF Recovery, RecoveryList, RecoveryLock, Reread, SettleApplied,
       AfterRecoveryError, SettleReads, SettleReverts, Intents
  <1> QED
    BY <1>1, <1>4, <1>6, <1>7 DEF Next, Decide, ClaimForApply, DrainList, DrainClaim,
       DrainTimeout, Land, Sweep, Age, Edit, Intents, vars

(* So do the document and the counters of failures. *)
LEMMA WorldKeeps ==
    ASSUME IInv, WorldTyped, [Next]_vars
    PROVE  WorldTyped'
  <1>1. CASE UNCHANGED <<doc, wire, faults>>
    BY <1>1 DEF WorldTyped
  <1>2. Error \/ CountCrash =>
            faults' \in [crashes: 0..MaxCrashes, errors: 0..MaxErrors, edits: 0..MaxEdits]
    BY LimitAssumption DEF WorldTyped, Error, CountCrash
  <1>3. ASSUME UNCHANGED External, Error \/ CountCrash PROVE WorldTyped'
    BY <1>2, <1>3 DEF External, WorldTyped
  <1>4. ASSUME NEW a \in Actors, Send(a) PROVE WorldTyped'
    <2>1. Hash(a) \in Hashes
      BY <1>4 DEF IInv, Placed, Send, At, Hash
    <2>2. doc' \in {doc, Hash(a)} /\ wire' \subseteq wire \cup {Hash(a)}
          /\ (Error \/ UNCHANGED faults)
      BY <1>4 DEF Send, External
    <2> QED
      BY <1>2, <2>1, <2>2 DEF WorldTyped
  <1>5. ASSUME NEW h \in Hashes, Land(h) PROVE WorldTyped'
    BY <1>5 DEF Land, WorldTyped
  <1>6. CASE Edit
    BY <1>6, LimitAssumption DEF Edit, WorldTyped
  <1>7. ASSUME NEW a \in Actors, ApplySteps(a) \/ Crash(a) PROVE WorldTyped'
    BY <1>1, <1>3, <1>4, <1>7
    DEF ApplySteps, Crash, Resolve, ResolveFails, Conflict, TryLock, Prepare, MarkInFlight, Confirm,
        Check, Reconcile, CheckFails, MarkApplied, Finalize, AfterFailure, Revert, External
  <1>8. ASSUME NEW w \in Recoverers, Recovery(w) PROVE WorldTyped'
    BY <1>1, <1>8 DEF Recovery, RecoveryList, RecoveryLock, Reread, SettleApplied,
       AfterRecoveryError, SettleReads, SettleReverts, SettleFinalizes, External
  <1> QED
    BY <1>1, <1>3, <1>5, <1>6, <1>7, <1>8 DEF Next, Decide, ClaimForApply, SettleFailed, DrainList,
       DrainClaim, DrainTimeout, Sweep, Age, External, vars

(* No intent is retried beyond the limit, the rows are numbered in the order
   they were written, and every variable keeps its type. *)
THEOREM TypeAlwaysOK == Spec => []TypeOK
  <1>1. Init => RowsTyped /\ WorldTyped
    <2>1. Cardinality(Hashes) \in Nat
      BY HashAssumption, FS_CardinalityType
    <2> QED
      BY <2>1, LimitAssumption DEF Init, RowsTyped, WorldTyped, RowType, NoIntent
  <1>2. IInv /\ RowsTyped /\ WorldTyped /\ [Next]_vars => (RowsTyped /\ WorldTyped)'
    BY RowsKeep, WorldKeeps
  <1>3. IInv /\ RowsTyped /\ WorldTyped => TypeOK
    <2> SUFFICES ASSUME IInv, RowsTyped, WorldTyped PROVE TypeOK
      OBVIOUS
    <2>1. \A h \in Hashes : (order[h] = 0) <=> (intents[h] = NoIntent)
      BY DEF RowsTyped, NoIntent
    <2> QED
      BY <2>1 DEF IInv, Typed, RowsTyped, RowType, WorldTyped, TypeOK
  <1> QED
    BY <1>1, <1>2, <1>3, Invariance, PTL DEF Spec
=============================================================================
