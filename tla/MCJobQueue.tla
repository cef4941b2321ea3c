----------------------------- MODULE MCJobQueue -----------------------------
(* JobQueue on small instances. *)
EXTENDS JobQueue, FiniteSetsExt, TLC

(* Every run is a run of the one document. *)
MCOneDoc == [r \in Runs |-> CHOOSE x \in Docs : TRUE]

MCSymmetry == Permutations(Workers) \cup Permutations(Runs)

(* The fleet: two workers and two runs, bounded by the attempts of all jobs
   together and by what people do to them together. *)
MaxStarts  == 3
MaxActions == 2
MCStarts   == FoldSet(LAMBDA j, n : n + db.jobs[j].attempts, 0, Jobs)
MCActions  == interventions + Cardinality({i \in ReviewIds : db.reviews[i].status # "none"})
MCFleet    == MCStarts' <= MaxStarts /\ MCActions' <= MaxActions
=============================================================================
