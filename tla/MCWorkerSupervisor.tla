------------------------- MODULE MCWorkerSupervisor -------------------------
(* WorkerSupervisor on small instances. *)
EXTENDS WorkerSupervisor, TLC

MCSymmetry == Permutations(Jobs) \cup Permutations(Generations)

(* What an initial state leaves to happen: a job on its first attempt, which
   this process may claim again, and no failed probe or restart; or a job on
   its last attempt, with both. *)
Remaining ==
    {[attempts |-> 0, errors |-> MaxErrors, restarts |-> MaxRestarts],
     [attempts |-> MaxAttempts - 1, errors |-> 0, restarts |-> 0]}

MCInit ==
    /\ \E k \in Remaining :
          /\ row = [j \in Jobs |-> [at |-> "queued", lease |-> 0, attempts |-> k.attempts]]
          /\ errors = k.errors /\ restarts = k.restarts
    /\ entries = [j \in {} |-> 0]
    /\ tasks = [t \in TaskIds |-> NoTask]
    /\ claim = NoClaim
    /\ phase = "up"
    /\ shared = {}

MCSpec == MCInit /\ [][Next]_vars /\ Fairness
=============================================================================
