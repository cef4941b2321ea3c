---------------------------- MODULE RunLifecycle ----------------------------
(***************************************************************************)
(* What the queue promises of a pipeline run, without jobs, leases, tasks  *)
(* or reviews: a document has at most one active run; an active run ends   *)
(* once, as succeeded, rejected or failed; a rejected run stays rejected;  *)
(* a succeeded or failed run becomes active again only while no other run  *)
(* of the document is; and a run that is replaced (the retry of a review)  *)
(* ends in the step in which the other one starts.                         *)
(***************************************************************************)
CONSTANTS Runs, Docs, RunDoc

VARIABLE phase

Outcomes == {"succeeded", "rejected", "failed"}

DocIdle(x, p) == \A r \in Runs : RunDoc[r] = x => p[r] # "active"

Start(r) ==
    /\ phase[r] = "none" /\ DocIdle(RunDoc[r], phase)
    /\ phase' = [phase EXCEPT ![r] = "active"]

Finish(r) ==
    /\ phase[r] = "active"
    /\ \E o \in Outcomes : phase' = [phase EXCEPT ![r] = o]

Reopen(r) ==
    /\ phase[r] \in {"succeeded", "failed"} /\ DocIdle(RunDoc[r], phase)
    /\ phase' = [phase EXCEPT ![r] = "active"]

Replace(old, new) ==
    /\ phase[old] = "active" /\ phase[new] = "none" /\ RunDoc[old] = RunDoc[new]
    /\ \E o \in Outcomes : phase' = [phase EXCEPT ![old] = o, ![new] = "active"]

Init == phase = [r \in Runs |-> "none"]

Next ==
    \/ \E r \in Runs : Start(r) \/ Finish(r) \/ Reopen(r)
    \/ \E old, new \in Runs : Replace(old, new)

Spec == Init /\ [][Next]_phase
=============================================================================
