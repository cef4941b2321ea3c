---------------------------- MODULE ProcessingProofs ----------------------------
(***************************************************************************)
(* What the two ends of processing promise.                                *)
(*                                                                         *)
(* ProviderCalls, for any number of workers, jobs and providers and for    *)
(* every timeout, margin and cooldown: a lease outlasts the calls it       *)
(* covers, and a recorded cooldown holds them back.                        *)
(*                                                                         *)
(* Intake, for any documents, stages and tags, any overlap that covers the *)
(* clocks' skew, and any number of edits, failures and runs: its           *)
(* invariant's parts are stated about one document, one call and one       *)
(* history of runs, so that an action's lemma says what it does to these   *)
(* and the lemmas on them carry the part over.                             *)
(***************************************************************************)
EXTENDS ProviderCalls, Intake, FiniteSetTheorems, WellFoundedInduction, TLAPS

(***************************************************************************)
(* ProviderCalls.                                                          *)
(***************************************************************************)

JobRec == [status : {"queued", "running", "succeeded", "failed"},
           owner : Workers \cup {None}, lease : 0..(MaxElapsed + LeaseSeconds),
           runAfter : 0..(MaxElapsed + MaxCool + Backoff), attempts : 0..MaxAttempts]

Attempt == [pc : {"idle", "check", "setup", "ready", "calling", "record", "park", "failing"},
            job : Jobs \cup {None}, provider : Providers \cup {None},
            call : Calls \cup {"none", "heartbeat", "finish"},
            due : Nat, spare : BOOLEAN, retry : BOOLEAN,
            until : 0..(MaxElapsed + MaxCool), known : SUBSET Providers]

RoutedBySettings(a) == ~(StageOf[a.job] = "metadata" /\ RetryWith[a.job] # None)

(* An attempt under way has its job and its provider, and only a call may    *)
(* have a second request to spend; the provider the settings gave it did not *)
(* rest when the attempt passed its check.                                   *)
Fits(a) ==
  /\ a.pc # "idle" => a.job \in Jobs
  /\ a.pc \notin {"idle", "failing"} => a.provider \in Providers
  /\ a.pc = "calling" => a.call \in Calls
  /\ a.spare => a.pc = "calling" /\ a.provider \in AutoSchema
  /\ a.pc \in {"setup", "ready", "calling", "record"} /\ RoutedBySettings(a) =>
       a.provider \notin a.known

(* Before the first renewal, the lease of the claim must do. *)
Early(a) ==
  \/ a.pc = "check"
  \/ a.pc = "setup" /\ StageOf[a.job] = "metadata"
  \/ a.pc = "ready" /\ a.call = "classify"

(* What a call, or the one that an early attempt will send, may still take   *)
(* after its deadline.                                                       *)
Outlasts(a, lease) ==
  IF a.pc = "calling" THEN lease >= a.due + (IF a.spare THEN Timeout[a.provider] ELSE 0)
  ELSE \A p \in Providers : lease >= a.due + CallBudget(p)

(* In the job table d at time t, the lease of w outlasts its attempt a. *)
Backed(a, w, d, t) ==
  a.pc = "calling" \/ Early(a) =>
    /\ d[a.job].owner = w /\ d[a.job].status = "running"
    /\ t =< a.due /\ Outlasts(a, d[a.job].lease)

Attempted(entry) == entry.status = "running" => entry.attempts > 0

Books ==
  /\ cooldown \in [Providers -> 0..(MaxElapsed + MaxCool)] /\ promised = cooldown
  /\ routed \in Providers
  /\ operator \in [pc : {"idle", "clear", "wake"}, beyond : 0..Backoff, left : 0..MaxActs]

Tables ==
  /\ time \in 0..MaxElapsed
  /\ jobs \in [Jobs -> JobRec] /\ \A j \in Jobs : Attempted(jobs[j])
  /\ workers \in [Workers -> Attempt]

ProviderInv ==
  /\ Books /\ Tables
  /\ \A w \in Workers : Fits(workers[w]) /\ Backed(workers[w], w, jobs, time)

-----------------------------------------------------------------------------
(* The lease.                                                              *)

LEMMA Numbers ==
  /\ BaseLease \in Nat /\ Margin \in Nat /\ MinCool \in Nat /\ DefaultCool \in Nat
  /\ MaxCool \in Nat /\ Backoff \in Nat /\ MaxActs \in Nat /\ MaxElapsed \in Nat
  /\ \A p \in Providers : Timeout[p] \in Nat
  BY ProviderCallsAssumption

LEMMA Budgets ==
  \A p \in Providers :
    /\ CallBudget(p) \in Nat /\ Timeout[p] =< CallBudget(p)
    /\ p \in AutoSchema => Timeout[p] + Timeout[p] = CallBudget(p)
  <1> TAKE p \in Providers
  <1>1. Timeout[p] \in Nat
    BY Numbers
  <1> QED BY <1>1 DEF CallBudget

(* Some provider is the slowest one. *)
LEMMA SlowestExists ==
  ASSUME Providers # {}
  PROVE  \E p \in Providers : \A q \in Providers : CallBudget(q) =< CallBudget(p)
  <1> DEFINE Slower(p) == {q \in Providers : CallBudget(q) > CallBudget(p)}
             Chains == {Slower(p) : p \in Providers}
  <1>1. IsFiniteSet(Providers)
    BY ProviderCallsAssumption
  <1>2. \A p \in Providers : Slower(p) \in FiniteSubsetsOf(Providers)
    BY <1>1, FS_Subset DEF FiniteSubsetsOf
  <1>3. Chains \subseteq FiniteSubsetsOf(Providers) /\ Chains # {}
    BY <1>2
  <1>4. IsWellFoundedOn(StrictSubsetOrdering(Providers), FiniteSubsetsOf(Providers))
    BY FS_StrictSubsetOrderingWellFounded
  <1>5. \E x \in Chains : \A y \in Chains : ~(<<y, x>> \in StrictSubsetOrdering(Providers))
    <2> HIDE DEF Chains
    <2> QED BY <1>3, <1>4, WFMin
  <1>6. PICK p \in Providers : \A q \in Providers :
          <<Slower(q), Slower(p)>> \notin StrictSubsetOrdering(Providers)
    BY <1>5
  <1>7. ASSUME NEW q \in Providers, ~(CallBudget(q) =< CallBudget(p))
        PROVE  FALSE
    <2>1. CallBudget(q) \in Nat /\ CallBudget(p) \in Nat /\ CallBudget(q) > CallBudget(p)
      BY <1>7, Budgets
    <2>2. Slower(q) \subseteq Slower(p)
      BY <2>1, Budgets
    <2>3. q \in Slower(p) /\ q \notin Slower(q)
      BY <2>1
    <2>4. <<Slower(q), Slower(p)>> \in StrictSubsetOrdering(Providers)
      BY <2>2, <2>3 DEF StrictSubsetOrdering
    <2> QED BY <2>4, <1>6
  <1> QED BY <1>7

(* A lease outlasts the margin and a call of any enabled provider. *)
LEMMA LeaseCovers ==
  ASSUME Providers # {}
  PROVE  /\ LeaseSeconds \in Nat /\ KeepaliveInterval \in Nat
         /\ \A p \in Providers : LeaseSeconds >= CallBudget(p) + Margin
  <1> DEFINE slowest == CHOOSE p \in Providers : \A q \in Providers : CallBudget(q) <= CallBudget(p)
             needed == CallBudget(slowest) + Margin
  <1>1. slowest \in Providers /\ \A q \in Providers : CallBudget(q) =< CallBudget(slowest)
    BY SlowestExists
  <1>2. CallBudget(slowest) \in Nat /\ Margin \in Nat /\ BaseLease \in Nat
    BY <1>1, Budgets, Numbers
  <1>3. LeaseSeconds = IF needed > BaseLease THEN needed ELSE BaseLease
    BY DEF LeaseSeconds
  <1> HIDE DEF slowest
  <1>4. LeaseSeconds \in Nat /\ LeaseSeconds >= CallBudget(slowest) + Margin
    BY <1>2, <1>3
  <1>5. KeepaliveInterval \in Nat
    BY <1>4 DEF KeepaliveInterval
  <1>6. ASSUME NEW p \in Providers
        PROVE  LeaseSeconds >= CallBudget(p) + Margin
    <2>1. CallBudget(p) =< CallBudget(slowest) /\ CallBudget(p) \in Nat
      BY <1>1, Budgets
    <2> QED BY <2>1, <1>2, <1>4
  <1> QED BY <1>4, <1>5, <1>6

LEMMA CooldownFits ==
  ASSUME NEW r \in RetryAfters \cup {None}
  PROVE  QuotaCooldown(r) \in 0..MaxCool
  <1>1. r = None \/ r \in Nat
    BY ProviderCallsAssumption
  <1>2. MinCool =< DefaultCool /\ DefaultCool =< MaxCool
    BY ProviderCallsAssumption
  <1> QED BY <1>1, <1>2, Numbers DEF QuotaCooldown

-----------------------------------------------------------------------------
(* A step of one worker, and what it leaves of the others.                 *)

LEMMA RestingFits == Resting \in Attempt /\ Fits(Resting)
  BY ProviderCallsAssumption DEF Resting, Attempt, Fits

LEMMA ReleasedFits ==
  ASSUME Tables, Providers # {}, NEW j \in Jobs, NEW s \in {"queued", "succeeded", "failed"}
  PROVE  Released(j, s) \in JobRec /\ Attempted(Released(j, s))
         /\ Released(j, s).status = s /\ Released(j, s).attempts = jobs[j].attempts
  <1> DEFINE entry == Released(j, s)
  <1>1. jobs[j] \in JobRec
    BY DEF Tables
  <1>2. 0 \in 0..(MaxElapsed + LeaseSeconds)
    BY LeaseCovers, Numbers
  <1>3. entry \in JobRec /\ entry.status = s /\ entry.attempts = jobs[j].attempts
    BY <1>1, <1>2 DEF JobRec, Released
  <1> QED BY <1>3 DEF Attempted

(* The lease of an attempt has not run out. *)
LEMMA BackedLive ==
  ASSUME NEW a \in Attempt, Fits(a), NEW v \in Workers, NEW d \in [Jobs -> JobRec],
         NEW t \in Nat, Backed(a, v, d, t), Providers # {}, a.pc = "calling" \/ Early(a)
  PROVE  /\ a.job \in Jobs /\ d[a.job].owner = v /\ d[a.job].status = "running"
         /\ d[a.job].lease >= t
  <1>1. /\ a.job \in Jobs /\ d[a.job].owner = v /\ d[a.job].status = "running"
        /\ t =< a.due /\ Outlasts(a, d[a.job].lease)
    BY DEF Backed, Fits, Early
  <1>2. a.due \in Nat /\ d[a.job].lease \in Nat
    BY <1>1, LeaseCovers, Numbers DEF Attempt, JobRec
  <1>3. d[a.job].lease >= a.due
    <2>1. CASE a.pc = "calling"
      <3>1. a.spare => Timeout[a.provider] \in Nat
        BY <2>1, Numbers DEF Fits
      <3> QED BY <1>1, <1>2, <2>1, <3>1 DEF Outlasts
    <2>2. CASE a.pc # "calling"
      <3>1. PICK p \in Providers : d[a.job].lease >= a.due + CallBudget(p)
        BY <1>1, <2>2 DEF Outlasts
      <3>2. CallBudget(p) \in Nat
        BY Budgets
      <3> QED BY <3>1, <3>2, <1>2
    <2> QED BY <2>1, <2>2
  <1> QED BY <1>1, <1>2, <1>3

(* A step that leaves the rows with a live lease of v alone. *)
LEMMA StaysBacked ==
  ASSUME NEW a \in Attempt, Fits(a), NEW v \in Workers, NEW d \in [Jobs -> JobRec],
         NEW t \in Nat, Backed(a, v, d, t), Providers # {}, NEW n,
         \A k \in Jobs : d[k].status = "running" /\ d[k].owner = v /\ d[k].lease >= t => n[k] = d[k]
  PROVE  Backed(a, v, n, t)
  <1>1. CASE a.pc = "calling" \/ Early(a)
    BY <1>1, BackedLive DEF Backed
  <1>2. CASE ~(a.pc = "calling" \/ Early(a))
    BY <1>2 DEF Backed
  <1> QED BY <1>1, <1>2

(* One worker moves, and changes only rows that no other worker has a live *)
(* lease on.                                                               *)
LEMMA WorkerMoves ==
  ASSUME ProviderInv, NEW w \in Workers, NEW x \in Attempt, Fits(x),
         workers' = [workers EXCEPT ![w] = x], time' = time,
         jobs' \in [Jobs -> JobRec], \A j \in Jobs : Attempted(jobs'[j]),
         \A v \in Workers \ {w} : \A k \in Jobs :
           jobs[k].status = "running" /\ jobs[k].owner = v /\ jobs[k].lease >= time
             => jobs'[k] = jobs[k],
         Backed(x, w, jobs', time), Books'
  PROVE  ProviderInv'
  <1>1. time \in Nat /\ Providers # {} /\ jobs \in [Jobs -> JobRec] /\ workers \in [Workers -> Attempt]
    BY ProviderCallsAssumption DEF ProviderInv, Tables, Books
  <1>2. Tables'
    BY <1>1 DEF ProviderInv, Tables
  <1>3. ASSUME NEW v \in Workers
        PROVE  Fits(workers'[v]) /\ Backed(workers'[v], v, jobs', time')
    <2>1. CASE v = w
      BY <1>1, <2>1
    <2>2. CASE v # w
      <3>1. workers'[v] = workers[v] /\ workers[v] \in Attempt
        BY <1>1, <2>2
      <3>2. Fits(workers[v]) /\ Backed(workers[v], v, jobs, time)
        BY DEF ProviderInv
      <3>3. \A k \in Jobs : jobs[k].status = "running" /\ jobs[k].owner = v /\ jobs[k].lease >= time
              => jobs'[k] = jobs[k]
        BY <2>2
      <3>4. Backed(workers[v], v, jobs', time)
        BY <1>1, <3>1, <3>2, <3>3, StaysBacked
      <3> QED BY <3>1, <3>2, <3>4
    <2> QED BY <2>1, <2>2
  <1> QED BY <1>2, <1>3 DEF ProviderInv

(* One worker moves with the row of a job that is its own or nobody's. *)
LEMMA WorkerAndRowMove ==
  ASSUME ProviderInv, NEW w \in Workers, NEW x \in Attempt, Fits(x), NEW j \in Jobs, NEW y \in JobRec,
         Attempted(y),
         jobs[j].status = "running" => jobs[j].owner = w \/ jobs[j].lease < time,
         workers' = [workers EXCEPT ![w] = x], jobs' = [jobs EXCEPT ![j] = y],
         Backed(x, w, jobs', time), UNCHANGED <<time, cooldown, promised, routed, operator>>
  PROVE  ProviderInv'
  <1>1. time \in Nat /\ Providers # {} /\ jobs \in [Jobs -> JobRec] /\ \A k \in Jobs : Attempted(jobs[k])
    BY ProviderCallsAssumption DEF ProviderInv, Tables, Books
  <1>2. jobs' \in [Jobs -> JobRec] /\ jobs'[j] = y /\ \A k \in Jobs \ {j} : jobs'[k] = jobs[k]
    BY <1>1
  <1>3. \A k \in Jobs : Attempted(jobs'[k])
    BY <1>1, <1>2
  <1>4. jobs[j].lease \in Nat
    BY <1>1, LeaseCovers, ProviderCallsAssumption DEF JobRec
  <1>5. Books'
    BY DEF Books, ProviderInv
  <1>6. \A v \in Workers \ {w} : \A k \in Jobs :
          jobs[k].status = "running" /\ jobs[k].owner = v /\ jobs[k].lease >= time
             => jobs'[k] = jobs[k]
    BY <1>1, <1>2, <1>4
  <1> QED BY <1>2, <1>3, <1>5, <1>6, WorkerMoves

(* One worker moves and the job table stays. *)
LEMMA OnlyWorkerMoves ==
  ASSUME ProviderInv, NEW w \in Workers, NEW x \in Attempt, Fits(x),
         workers' = [workers EXCEPT ![w] = x], Backed(x, w, jobs, time),
         UNCHANGED <<time, jobs, cooldown, promised, routed, operator>>
  PROVE  ProviderInv'
  <1>1. jobs \in [Jobs -> JobRec] /\ \A k \in Jobs : Attempted(jobs[k])
    BY DEF ProviderInv, Tables
  <1>2. Books'
    BY DEF Books, ProviderInv
  <1> QED BY <1>1, <1>2, WorkerMoves

(* An attempt ends, with or without a row of its own to write. *)
LEMMA Rests ==
  ASSUME ProviderInv, NEW w \in Workers, Rest(w),
         UNCHANGED <<time, cooldown, promised, routed, operator>>,
         \/ jobs' = jobs
         \/ /\ workers[w].job \in Jobs /\ Holds(w)
            /\ \E y \in JobRec : Attempted(y) /\ jobs' = [jobs EXCEPT ![workers[w].job] = y]
  PROVE  ProviderInv'
  <1>1. Resting.pc = "idle" /\ \A d, t : Backed(Resting, w, d, t)
    BY DEF Resting, Backed, Early
  <1>2. CASE jobs' = jobs
    BY <1>1, <1>2, RestingFits, OnlyWorkerMoves DEF Rest
  <1>3. ASSUME workers[w].job \in Jobs, Holds(w), NEW y \in JobRec, Attempted(y),
               jobs' = [jobs EXCEPT ![workers[w].job] = y]
        PROVE  ProviderInv'
    BY <1>1, <1>3, RestingFits, WorkerAndRowMove DEF Rest, Holds
  <1> QED BY <1>2, <1>3

-----------------------------------------------------------------------------
(* The parts of a step.                                                    *)

(* What the invariant says of one attempt. *)
LEMMA OneAttempt ==
  ASSUME ProviderInv, NEW w \in Workers
  PROVE  /\ workers \in [Workers -> Attempt] /\ workers[w] \in Attempt
         /\ Fits(workers[w]) /\ Backed(workers[w], w, jobs, time)
         /\ jobs \in [Jobs -> JobRec] /\ time \in Nat /\ time =< MaxElapsed
         /\ Providers # {} /\ LeaseSeconds \in Nat /\ KeepaliveInterval \in Nat
         /\ \A p \in Providers : LeaseSeconds >= CallBudget(p) + Margin
  <1>1. time \in Nat /\ time =< MaxElapsed /\ Providers # {}
    BY Numbers DEF ProviderInv, Tables, Books
  <1> QED BY <1>1, LeaseCovers DEF ProviderInv, Tables

(* A row with its lease renewed. *)
Renewed(j) == [jobs[j] EXCEPT !.lease = time + LeaseSeconds]

LEMMA RenewedFits ==
  ASSUME ProviderInv, NEW w \in Workers, workers[w].job \in Jobs,
         jobs' = [jobs EXCEPT ![workers[w].job].lease = time + LeaseSeconds]
  PROVE  LET j == workers[w].job
         IN /\ Renewed(j) \in JobRec /\ Attempted(Renewed(j)) /\ jobs' = [jobs EXCEPT ![j] = Renewed(j)]
            /\ jobs'[j].owner = jobs[j].owner /\ jobs'[j].status = jobs[j].status
            /\ jobs'[j].lease = time + LeaseSeconds
  <1> DEFINE j == workers[w].job
  <1>1. jobs[j] \in JobRec /\ Attempted(jobs[j]) /\ jobs \in [Jobs -> JobRec]
    BY DEF ProviderInv, Tables
  <1>2. time + LeaseSeconds \in 0..(MaxElapsed + LeaseSeconds)
    BY OneAttempt, Numbers
  <1>3. Renewed(j) \in JobRec /\ Renewed(j).owner = jobs[j].owner
        /\ Renewed(j).status = jobs[j].status /\ Renewed(j).attempts = jobs[j].attempts
        /\ Renewed(j).lease = time + LeaseSeconds
    BY <1>1, <1>2 DEF JobRec, Renewed
  <1>4. jobs' = [jobs EXCEPT ![j] = Renewed(j)]
    BY DEF Renewed
  <1>5. Attempted(Renewed(j))
    BY <1>1, <1>3 DEF Attempted
  <1>6. jobs'[j] = Renewed(j)
    BY <1>1, <1>4
  <1> QED BY <1>3, <1>4, <1>5, <1>6

(* An attempt goes on to a call that a renewal precedes. *)
LEMMA Proceeds ==
  ASSUME ProviderInv, NEW w \in Workers, workers[w].pc \in {"setup", "ready", "calling"},
         NEW request \in (Calls \cup {"heartbeat", "finish"}) \ {"classify"}, Proceed(w, request),
         jobs' = jobs \/ Renew(w), UNCHANGED <<time, cooldown, promised, routed, operator>>
  PROVE  ProviderInv'
  <1> DEFINE x == [workers[w] EXCEPT !.pc = "ready", !.call = request, !.due = 0, !.spare = FALSE]
  <1>1. workers[w] \in Attempt /\ Fits(workers[w]) /\ workers[w].job \in Jobs
    BY OneAttempt DEF Fits
  <1>2. x \in Attempt /\ x.pc = "ready" /\ x.call = request /\ x.spare = FALSE
        /\ x.job = workers[w].job /\ x.provider = workers[w].provider /\ x.known = workers[w].known
    BY <1>1 DEF Attempt
  <1>3. workers' = [workers EXCEPT ![w] = x]
    BY DEF Proceed
  <1> HIDE DEF x
  <1>4. Fits(x)
    BY <1>1, <1>2 DEF Fits, RoutedBySettings
  <1>5. \A d, t : Backed(x, w, d, t)
    BY <1>2 DEF Backed, Early
  <1>6. CASE jobs' = jobs
    BY <1>2, <1>3, <1>4, <1>5, <1>6, OnlyWorkerMoves
  <1>7. CASE Renew(w)
    <2>1. LET j == workers[w].job
          IN Renewed(j) \in JobRec /\ Attempted(Renewed(j)) /\ jobs' = [jobs EXCEPT ![j] = Renewed(j)]
      BY <1>1, <1>7, RenewedFits DEF Renew
    <2> QED BY <1>1, <1>2, <1>3, <1>4, <1>5, <1>7, <2>1, WorkerAndRowMove DEF Renew, Holds
  <1> QED BY <1>6, <1>7

(* An attempt has failed, and will say so. *)
LEMMA Fails ==
  ASSUME ProviderInv, NEW w \in Workers, workers[w].pc # "idle", NEW retry \in BOOLEAN, Failing(w, retry),
         UNCHANGED <<time, jobs, cooldown, promised, routed, operator>>
  PROVE  ProviderInv'
  <1> DEFINE x == [Resting EXCEPT !.pc = "failing", !.job = workers[w].job, !.retry = retry]
  <1>1. workers[w].job \in Jobs
    BY OneAttempt DEF Fits
  <1>2. x \in Attempt /\ x.pc = "failing" /\ x.job \in Jobs /\ x.spare = FALSE
    BY <1>1, RestingFits DEF Attempt, Resting
  <1>3. workers' = [workers EXCEPT ![w] = x]
    BY DEF Failing
  <1> HIDE DEF x
  <1>4. Fits(x) /\ Backed(x, w, jobs, time)
    BY <1>2 DEF Fits, Backed, Early
  <1> QED BY <1>2, <1>3, <1>4, OnlyWorkerMoves

-----------------------------------------------------------------------------
(* Steps of a worker.                                                      *)

LEMMA ClaimSound ==
  ASSUME ProviderInv, NEW w \in Workers, NEW j \in Jobs, Claim(w, j)
  PROVE  ProviderInv'
  <1> DEFINE x == [Resting EXCEPT !.pc = "check", !.job = j, !.provider = routed,
                                  !.due = time + Margin]
             y == [status |-> "running", owner |-> w, lease |-> time + LeaseSeconds,
                   runAfter |-> 0, attempts |-> jobs[j].attempts + 1]
  <1>1. /\ time \in Nat /\ time =< MaxElapsed /\ LeaseSeconds \in Nat
        /\ \A p \in Providers : LeaseSeconds >= CallBudget(p) + Margin
        /\ jobs \in [Jobs -> JobRec]
    BY OneAttempt
  <1>2. routed \in Providers
    BY DEF ProviderInv, Books
  <1>3. x \in Attempt /\ x.pc = "check" /\ x.job = j /\ x.provider = routed
        /\ x.due = time + Margin /\ x.spare = FALSE
    <2>1. time + Margin \in Nat
      BY <1>1, Numbers
    <2>2. Resting \in Attempt /\ Resting.spare = FALSE
      BY RestingFits DEF Resting
    <2> QED BY <1>2, <2>1, <2>2 DEF Attempt
  <1>4. jobs[j].attempts \in Nat /\ jobs[j].attempts < MaxAttempts
    BY <1>1 DEF JobRec, Claim
  <1>5. y \in JobRec /\ Attempted(y)
    <2>1. time + LeaseSeconds \in 0..(MaxElapsed + LeaseSeconds)
      BY <1>1, Numbers
    <2>2. 0 \in 0..(MaxElapsed + MaxCool + Backoff)
      BY Numbers
    <2>3. jobs[j].attempts + 1 \in 0..MaxAttempts /\ jobs[j].attempts + 1 > 0
      BY <1>4, ProviderCallsAssumption
    <2> QED BY <2>1, <2>2, <2>3 DEF JobRec, Attempted
  <1>6. jobs' = [jobs EXCEPT ![j] = y] /\ workers' = [workers EXCEPT ![w] = x]
    BY DEF Claim
  <1>7. jobs'[j] = y
    BY <1>1, <1>6
  <1>8. \A p \in Providers : time + LeaseSeconds >= (time + Margin) + CallBudget(p)
    BY <1>1, Budgets, Numbers
  <1>9. time =< time + Margin
    BY <1>1, Numbers
  <1> HIDE DEF x
  <1>10. Backed(x, w, jobs', time)
    BY <1>3, <1>7, <1>8, <1>9 DEF Backed, Outlasts
  <1>11. Fits(x)
    BY <1>2, <1>3 DEF Fits
  <1>12. jobs[j].status = "running" => jobs[j].owner = w \/ jobs[j].lease < time
    BY DEF Claim
  <1> HIDE DEF y
  <1> QED BY <1>3, <1>5, <1>6, <1>10, <1>11, <1>12, WorkerAndRowMove DEF Claim

LEMMA CheckCooldownSound ==
  ASSUME ProviderInv, NEW w \in Workers, CheckCooldown(w)
  PROVE  ProviderInv'
  <1> DEFINE a == workers[w]
             until == cooldown[a.provider]
  <1>1. a \in Attempt /\ Fits(a) /\ Backed(a, w, jobs, time) /\ a.pc = "check"
        /\ a.job \in Jobs /\ a.provider \in Providers /\ time \in Nat /\ KeepaliveInterval \in Nat
        /\ a.spare = FALSE
    <2>1. a \in Attempt /\ Fits(a) /\ a.pc = "check"
      BY OneAttempt DEF CheckCooldown
    <2>2. a.spare \in BOOLEAN
      BY <2>1 DEF Attempt
    <2>3. a.job \in Jobs /\ a.provider \in Providers /\ ~a.spare
      BY <2>1 DEF Fits
    <2> QED BY <2>1, <2>2, <2>3, OneAttempt
  <1>2. until \in 0..(MaxElapsed + MaxCool) /\ promised = cooldown
    BY <1>1 DEF ProviderInv, Books
  <1>3. CASE until > time
    <2> DEFINE x == [a EXCEPT !.pc = "park", !.until = until, !.due = 0]
    <2>1. x \in Attempt /\ x.pc = "park" /\ x.job = a.job /\ x.provider = a.provider
          /\ x.spare = FALSE
      BY <1>1, <1>2 DEF Attempt
    <2>2. workers' = [workers EXCEPT ![w] = x]
      BY <1>3 DEF CheckCooldown
    <2> HIDE DEF x
    <2>3. Fits(x) /\ Backed(x, w, jobs, time)
      BY <1>1, <2>1 DEF Fits, Backed, Early
    <2> QED BY <2>1, <2>2, <2>3, OnlyWorkerMoves DEF CheckCooldown
  <1>4. CASE ~(until > time)
    <2> DEFINE due == IF StageOf[a.job] = "ocr" THEN time + KeepaliveInterval ELSE a.due
               known == {p \in Providers : promised[p] > time}
               q == StageProvider(w)
               x == [a EXCEPT !.pc = "setup", !.provider = q, !.due = due, !.known = known]
    <2>1. q \in Providers /\ (RoutedBySettings(a) => q = a.provider)
      BY <1>1, ProviderCallsAssumption DEF StageProvider, RoutedBySettings
    <2>2. due \in Nat
      BY <1>1 DEF Attempt
    <2>3. known \subseteq Providers /\ a.provider \notin known
      BY <1>2, <1>4
    <2>4. workers' = [workers EXCEPT ![w] = x]
      BY <1>4 DEF CheckCooldown
    <2>5. StageOf[a.job] = "metadata" => due = a.due
      OBVIOUS
    <2> HIDE DEF due, known, q
    <2>6. x \in Attempt /\ x.pc = "setup" /\ x.job = a.job /\ x.provider = q
          /\ x.due = due /\ x.known = known /\ x.spare = FALSE
      BY <1>1, <2>1, <2>2, <2>3 DEF Attempt
    <2> HIDE DEF x
    <2>7. Fits(x)
      BY <1>1, <2>1, <2>3, <2>6 DEF Fits, RoutedBySettings
    <2>8. Backed(x, w, jobs, time)
      BY <1>1, <2>5, <2>6 DEF Backed, Early, Outlasts
    <2> QED BY <2>4, <2>6, <2>7, <2>8, OnlyWorkerMoves DEF CheckCooldown
  <1> QED BY <1>3, <1>4

LEMMA KeepaliveSound ==
  ASSUME ProviderInv, NEW w \in Workers, Keepalive(w)
  PROVE  ProviderInv'
  <1> DEFINE a == workers[w]
  <1>1. a \in Attempt /\ Fits(a) /\ a.pc = "setup" /\ StageOf[a.job] = "ocr" /\ a.job \in Jobs
        /\ time \in Nat /\ KeepaliveInterval \in Nat
    BY OneAttempt DEF Keepalive, Fits
  <1>2. CASE Holds(w)
    <2> DEFINE x == [a EXCEPT !.due = time + KeepaliveInterval]
    <2>1. x \in Attempt /\ x.pc = "setup" /\ x.job = a.job /\ x.provider = a.provider
          /\ x.spare = a.spare /\ x.known = a.known
      BY <1>1 DEF Attempt
    <2>2. workers' = [workers EXCEPT ![w] = x]
      BY <1>2 DEF Keepalive
    <2> HIDE DEF x
    <2>3. Fits(x) /\ \A d, t : Backed(x, w, d, t)
      BY <1>1, <2>1 DEF Fits, RoutedBySettings, Backed, Early
    <2>4. Renewed(a.job) \in JobRec /\ Attempted(Renewed(a.job))
          /\ jobs' = [jobs EXCEPT ![a.job] = Renewed(a.job)]
      BY <1>1, <1>2, RenewedFits DEF Keepalive
    <2> QED BY <1>1, <1>2, <2>1, <2>2, <2>3, <2>4, WorkerAndRowMove DEF Keepalive, Holds
  <1>3. CASE ~Holds(w)
    BY <1>3, Rests DEF Keepalive
  <1> QED BY <1>2, <1>3

LEMMA SetUpSound ==
  ASSUME ProviderInv, NEW w \in Workers, SetUp(w)
  PROVE  ProviderInv'
  <1> DEFINE a == workers[w]
  <1>1. a \in Attempt /\ Fits(a) /\ Backed(a, w, jobs, time) /\ a.pc = "setup"
    BY OneAttempt DEF SetUp
  <1>2. ASSUME Proceed(w, "page") \/ Proceed(w, "main")
        PROVE  ProviderInv'
    BY <1>1, <1>2, Proceeds DEF SetUp, Calls
  <1>3. ASSUME StageOf[a.job] # "ocr",
               workers' = [workers EXCEPT ![w].pc = "ready", ![w].call = "classify"]
        PROVE  ProviderInv'
    <2> DEFINE x == [a EXCEPT !.pc = "ready", !.call = "classify"]
    <2>1. x \in Attempt /\ x.pc = "ready" /\ x.call = "classify" /\ x.job = a.job
          /\ x.provider = a.provider /\ x.due = a.due /\ x.spare = a.spare /\ x.known = a.known
      BY <1>1 DEF Attempt, Calls
    <2>2. workers' = [workers EXCEPT ![w] = x]
      BY <1>3
    <2> HIDE DEF x
    <2>3. Fits(x)
      BY <1>1, <2>1 DEF Fits, RoutedBySettings
    <2>4. StageOf[a.job] = "metadata"
      BY <1>1, <1>3, ProviderCallsAssumption DEF Fits
    <2>5. Backed(x, w, jobs, time)
      BY <1>1, <2>1, <2>4 DEF Backed, Early, Outlasts
    <2> QED BY <2>1, <2>2, <2>3, <2>5, OnlyWorkerMoves DEF SetUp
  <1> QED BY <1>2, <1>3 DEF SetUp

(* A call begins, with the lease of the claim or a renewed one. *)
LEMMA BeginSound ==
  ASSUME ProviderInv, NEW w \in Workers, workers[w].pc = "ready", workers[w].call \in Calls, Begin(w),
         UNCHANGED <<time, cooldown, promised, routed, operator>>,
         \/ workers[w].call = "classify" /\ jobs' = jobs
         \/ Renew(w)
  PROVE  ProviderInv'
  <1> DEFINE a == workers[w]
             p == a.provider
             spare == a.call = "main" /\ p \in AutoSchema
             x == [a EXCEPT !.pc = "calling", !.due = time + Timeout[p], !.spare = spare]
  <1>1. a \in Attempt /\ Fits(a) /\ Backed(a, w, jobs, time) /\ a.job \in Jobs
        /\ p \in Providers /\ time \in Nat /\ jobs \in [Jobs -> JobRec] /\ LeaseSeconds \in Nat
        /\ LeaseSeconds >= CallBudget(p) + Margin
    BY OneAttempt DEF Fits
  <1>2. Timeout[p] \in Nat /\ CallBudget(p) \in Nat /\ Timeout[p] =< CallBudget(p)
        /\ (p \in AutoSchema => Timeout[p] + Timeout[p] = CallBudget(p))
        /\ Margin \in Nat
    BY <1>1, Numbers, Budgets
  <1>3. workers' = [workers EXCEPT ![w] = x]
    BY DEF Begin
  <1>4. spare \in BOOLEAN /\ (spare => p \in AutoSchema) /\ (a.call = "classify" => ~spare)
    OBVIOUS
  <1> HIDE DEF spare
  <1>5. x \in Attempt /\ x.pc = "calling" /\ x.call = a.call /\ x.job = a.job /\ x.provider = p
        /\ x.due = time + Timeout[p] /\ x.spare = spare /\ x.known = a.known
    <2> DEFINE y(d) == [a EXCEPT !.pc = "calling", !.due = d, !.spare = spare]
    <2>1. time + Timeout[p] \in Nat
      BY <1>1, <1>2
    <2>2. \A d \in Nat : y(d) \in Attempt /\ y(d).due = d
      BY <1>1, <1>4 DEF Attempt
    <2>3. x.pc = "calling" /\ x.call = a.call /\ x.job = a.job /\ x.provider = p
          /\ x.spare = spare /\ x.known = a.known
      BY <1>1 DEF Attempt
    <2> QED BY <2>1, <2>2, <2>3
  <1> HIDE DEF x
  <1>6. Fits(x)
    BY <1>1, <1>4, <1>5 DEF Fits, RoutedBySettings
  <1>7. CASE a.call = "classify" /\ jobs' = jobs
    <2>1. jobs[a.job].owner = w /\ jobs[a.job].status = "running" /\ time =< a.due
          /\ jobs[a.job].lease >= a.due + CallBudget(p)
      BY <1>1, <1>7 DEF Backed, Early, Outlasts
    <2>2. a.due \in Nat /\ jobs[a.job].lease \in Nat
      BY <1>1, Numbers DEF Attempt, JobRec
    <2>3. time =< x.due /\ jobs[a.job].lease >= x.due
      BY <1>1, <1>2, <1>5, <2>1, <2>2
    <2>4. ~x.spare
      BY <1>4, <1>5, <1>7
    <2>5. jobs[a.job].lease >= x.due + (IF x.spare THEN Timeout[x.provider] ELSE 0)
      BY <1>1, <1>2, <1>5, <2>3, <2>4
    <2>6. Backed(x, w, jobs, time)
      BY <1>5, <2>1, <2>3, <2>5 DEF Backed, Outlasts
    <2> QED BY <1>3, <1>5, <1>6, <1>7, <2>6, OnlyWorkerMoves
  <1>8. CASE Renew(w)
    <2>1. /\ Renewed(a.job) \in JobRec /\ Attempted(Renewed(a.job))
          /\ jobs' = [jobs EXCEPT ![a.job] = Renewed(a.job)]
          /\ jobs'[a.job].owner = w /\ jobs'[a.job].status = "running"
          /\ jobs'[a.job].lease = time + LeaseSeconds
      BY <1>1, <1>8, RenewedFits DEF Renew, Holds
    <2>2. x.spare => Timeout[p] + Timeout[p] = CallBudget(p)
      BY <1>2, <1>4, <1>5
    <2>3. time =< x.due /\ time + LeaseSeconds >= x.due + (IF x.spare THEN Timeout[p] ELSE 0)
      BY <1>1, <1>2, <1>5, <2>2
    <2>4. Backed(x, w, jobs', time)
      BY <1>5, <2>1, <2>3 DEF Backed, Outlasts
    <2>5. jobs[a.job].owner = w
      BY <1>8 DEF Renew, Holds
    <2> QED BY <1>1, <1>3, <1>5, <1>6, <2>1, <2>4, <2>5, WorkerAndRowMove
  <1> QED BY <1>7, <1>8

LEMMA SendSound ==
  ASSUME ProviderInv, NEW w \in Workers, Send(w)
  PROVE  ProviderInv'
  <1>1. CASE Begin(w) /\ ((workers[w].call = "classify" /\ jobs' = jobs) \/ Renew(w))
    BY <1>1, BeginSound DEF Send
  <1>2. CASE Stopped(w)
    BY <1>2, Rests DEF Send, Stopped
  <1> QED BY <1>1, <1>2 DEF Send

LEMMA CachedPageSound ==
  ASSUME ProviderInv, NEW w \in Workers, CachedPage(w)
  PROVE  ProviderInv'
  BY Proceeds DEF CachedPage, Calls

LEMMA HeartbeatSound ==
  ASSUME ProviderInv, NEW w \in Workers, Heartbeat(w)
  PROVE  ProviderInv'
  <1>1. ASSUME Renew(w), NEW request \in {"page", "finish"}, Proceed(w, request)
        PROVE  ProviderInv'
    BY <1>1, Proceeds DEF Heartbeat, Calls
  <1>2. CASE Stopped(w)
    BY <1>2, Rests DEF Heartbeat, Stopped
  <1> QED BY <1>1, <1>2 DEF Heartbeat

(* The second request of a call is sent inside the lease that covers both. *)
LEMMA WithoutSchemaSound ==
  ASSUME ProviderInv, NEW w \in Workers, workers[w].pc = "calling", workers[w].spare, WithoutSchema(w),
         UNCHANGED <<time, jobs, cooldown, promised, routed, operator>>
  PROVE  ProviderInv'
  <1> DEFINE a == workers[w]
             p == a.provider
             x == [a EXCEPT !.due = time + Timeout[p], !.spare = FALSE]
  <1>1. a \in Attempt /\ Fits(a) /\ Backed(a, w, jobs, time) /\ a.job \in Jobs
        /\ p \in Providers /\ time \in Nat /\ jobs \in [Jobs -> JobRec] /\ LeaseSeconds \in Nat
    BY OneAttempt DEF Fits
  <1>2. Timeout[p] \in Nat
    BY <1>1, Numbers
  <1>3. workers' = [workers EXCEPT ![w] = x]
    BY DEF WithoutSchema
  <1>4. x \in Attempt /\ x.pc = "calling" /\ x.call = a.call /\ x.job = a.job /\ x.provider = p
        /\ x.due = time + Timeout[p] /\ x.spare = FALSE /\ x.known = a.known
    <2> DEFINE y(d) == [a EXCEPT !.due = d, !.spare = FALSE]
    <2>1. time + Timeout[p] \in Nat
      BY <1>1, <1>2
    <2>2. \A d \in Nat : y(d) \in Attempt /\ y(d).due = d
      BY <1>1 DEF Attempt
    <2>3. x.pc = "calling" /\ x.call = a.call /\ x.job = a.job /\ x.provider = p
          /\ x.spare = FALSE /\ x.known = a.known
      BY <1>1 DEF Attempt
    <2> QED BY <2>1, <2>2, <2>3
  <1> HIDE DEF x
  <1>5. Fits(x)
    BY <1>1, <1>4 DEF Fits, RoutedBySettings
  <1>6. jobs[a.job].owner = w /\ jobs[a.job].status = "running" /\ time =< a.due
        /\ jobs[a.job].lease >= a.due + Timeout[p]
    BY <1>1 DEF Backed, Outlasts
  <1>7. a.due \in Nat /\ jobs[a.job].lease \in Nat
    BY <1>1, Numbers DEF Attempt, JobRec
  <1>8. time =< x.due /\ jobs[a.job].lease >= x.due + 0
    BY <1>1, <1>2, <1>4, <1>6, <1>7
  <1>9. Backed(x, w, jobs, time)
    BY <1>4, <1>6, <1>8 DEF Backed, Outlasts
  <1> QED BY <1>3, <1>4, <1>5, <1>9, OnlyWorkerMoves

LEMMA CallFailsSound ==
  ASSUME ProviderInv, NEW w \in Workers, workers[w].pc = "calling", NEW error, CallFails(w, error),
         UNCHANGED <<time, jobs, cooldown, promised, routed, operator>>
  PROVE  ProviderInv'
  <1> DEFINE a == workers[w]
  <1>1. a \in Attempt /\ Fits(a) /\ a.call \in Calls
    BY OneAttempt DEF Fits
  <1>2. ASSUME NEW request \in {"main", "consensus", "finish", "discovery", "fallback"}, Proceed(w, request)
        PROVE  ProviderInv'
    BY <1>2, Proceeds DEF Calls
  <1>3. ASSUME NEW retry \in BOOLEAN, Failing(w, retry)
        PROVE  ProviderInv'
    BY <1>3, Fails
  <1>4. ASSUME workers' = [workers EXCEPT ![w].pc = "record", ![w].due = 0, ![w].spare = FALSE]
        PROVE  ProviderInv'
    <2> DEFINE x == [a EXCEPT !.pc = "record", !.due = 0, !.spare = FALSE]
    <2>1. x \in Attempt /\ x.pc = "record" /\ x.job = a.job /\ x.provider = a.provider
          /\ x.spare = FALSE /\ x.known = a.known
      BY <1>1 DEF Attempt
    <2>2. workers' = [workers EXCEPT ![w] = x]
      BY <1>4
    <2> HIDE DEF x
    <2>3. Fits(x) /\ Backed(x, w, jobs, time)
      BY <1>1, <2>1 DEF Fits, RoutedBySettings, Backed, Early
    <2> QED BY <2>1, <2>2, <2>3, OnlyWorkerMoves
  <1>5. CASE a.call = "discovery"
    BY <1>2, <1>3, <1>5 DEF CallFails
  <1>6. CASE a.call # "discovery" /\ error = "QuotaExhausted"
    BY <1>4, <1>6 DEF CallFails
  <1>7. CASE a.call \in {"classify", "consensus"} /\ error # "QuotaExhausted"
    <2>1. \E next \in After(a.call) : Proceed(w, next)
      BY <1>7 DEF CallFails
    <2>2. After(a.call) \subseteq {"main", "finish"}
      BY <1>7 DEF After
    <2> QED BY <1>2, <2>1, <2>2
  <1>8. CASE a.call \in {"main", "page", "fallback"} /\ error # "QuotaExhausted"
    <2>1. (FailureClass(error) = "Transient") \in BOOLEAN
      OBVIOUS
    <2>2. Proceed(w, "discovery") \/ Failing(w, FailureClass(error) = "Transient")
      BY <1>8 DEF CallFails
    <2> QED BY <1>2, <1>3, <2>1, <2>2
  <1> QED BY <1>1, <1>5, <1>6, <1>7, <1>8 DEF Calls

LEMMA AnswerSound ==
  ASSUME ProviderInv, NEW w \in Workers, NEW reply \in Replies, Answer(w, reply)
  PROVE  ProviderInv'
  <1> DEFINE result == ResultOf(w, reply)
  <1>1. workers[w].pc = "calling" /\ UNCHANGED <<time, jobs, cooldown, promised, routed, operator>>
    BY DEF Answer
  <1>2. CASE workers[w].spare /\ WithoutSchema(w)
    BY <1>1, <1>2, WithoutSchemaSound
  <1>3. CASE CallFails(w, result)
    BY <1>1, <1>3, CallFailsSound
  <1>4. ASSUME NEW next \in After(workers[w].call), Proceed(w, next)
        PROVE  ProviderInv'
    <2>1. workers[w].call \in Calls
      BY <1>1, OneAttempt DEF Fits
    <2>2. After(workers[w].call) \subseteq {"main", "consensus", "finish", "heartbeat", "fallback"}
      BY <2>1 DEF Calls, After
    <2> QED BY <1>1, <1>4, <2>2, Proceeds DEF Calls
  <1> QED BY <1>2, <1>3, <1>4 DEF Answer

LEMMA CompleteSound ==
  ASSUME ProviderInv, NEW w \in Workers, Complete(w)
  PROVE  ProviderInv'
  <1> DEFINE j == workers[w].job
  <1>1. j \in Jobs
    BY OneAttempt DEF Complete, Fits
  <1>2. Released(j, "succeeded") \in JobRec /\ Attempted(Released(j, "succeeded"))
    BY <1>1, ReleasedFits, OneAttempt DEF ProviderInv
  <1> QED BY <1>1, <1>2, Rests DEF Complete

LEMMA FailSound ==
  ASSUME ProviderInv, NEW w \in Workers, Fail(w)
  PROVE  ProviderInv'
  <1> DEFINE j == workers[w].job
             y == [Released(j, "queued") EXCEPT !.runAfter = time + Backoff]
  <1>1. j \in Jobs
    BY OneAttempt DEF Fail, Fits
  <1>2. \A s \in {"queued", "failed"} :
          Released(j, s) \in JobRec /\ Attempted(Released(j, s)) /\ Released(j, s).status = s
    BY <1>1, ReleasedFits, OneAttempt DEF ProviderInv
  <1>3. time + Backoff \in 0..(MaxElapsed + MaxCool + Backoff)
    BY OneAttempt, Numbers
  <1>4. y \in JobRec /\ Attempted(y)
    BY <1>2, <1>3 DEF JobRec, Attempted
  <1> QED BY <1>1, <1>2, <1>4, Rests DEF Fail

LEMMA ParkSound ==
  ASSUME ProviderInv, NEW w \in Workers, Park(w)
  PROVE  ProviderInv'
  <1> DEFINE j == workers[w].job
             until == workers[w].until
             y == [Released(j, "queued") EXCEPT !.runAfter = until, !.attempts = @ - 1]
  <1>1. CASE Holds(w)
    <2>1. j \in Jobs /\ jobs[j] \in JobRec /\ jobs[j].attempts > 0
      <3>1. j \in Jobs
        BY OneAttempt DEF Park, Fits
      <3> QED BY <1>1, <3>1, OneAttempt DEF ProviderInv, Tables, Attempted, Holds
    <2>2. /\ Released(j, "queued") \in JobRec /\ Released(j, "queued").attempts = jobs[j].attempts
          /\ Released(j, "queued").status = "queued"
      BY <2>1, ReleasedFits, OneAttempt DEF ProviderInv
    <2>3. until \in 0..(MaxElapsed + MaxCool + Backoff)
      BY OneAttempt, Numbers DEF Attempt
    <2>4. jobs[j].attempts - 1 \in 0..MaxAttempts
      BY <2>1, ProviderCallsAssumption DEF JobRec
    <2>5. y \in JobRec /\ y.status = "queued"
      BY <2>2, <2>3, <2>4 DEF JobRec
    <2>6. jobs' = [jobs EXCEPT ![j] = y]
      BY <1>1 DEF Park
    <2>7. Attempted(y)
      BY <2>5 DEF Attempted
    <2> HIDE DEF y
    <2> QED BY <1>1, <2>1, <2>5, <2>6, <2>7, Rests DEF Park
  <1>2. CASE ~Holds(w)
    BY <1>2, Rests DEF Park
  <1> QED BY <1>1, <1>2

LEMMA QuotaFallsBackSound ==
  ASSUME ProviderInv, NEW w \in Workers, QuotaFallsBack(w)
  PROVE  ProviderInv'
  BY Fails DEF QuotaFallsBack

LEMMA CrashSound ==
  ASSUME ProviderInv, NEW w \in Workers, Crash(w)
  PROVE  ProviderInv'
  BY Rests DEF Crash

(* The recorded cooldown and the one promised are both the longer window. *)
LEMMA RecordSound ==
  ASSUME ProviderInv, NEW w \in Workers, Record(w)
  PROVE  ProviderInv'
  <1> DEFINE a == workers[w]
             p == a.provider
             span == 0..(MaxElapsed + MaxCool)
  <1>1. a \in Attempt /\ Fits(a) /\ a.pc = "record" /\ a.job \in Jobs /\ p \in Providers
        /\ a.spare = FALSE
    <2>1. a \in Attempt /\ Fits(a) /\ a.pc = "record"
      BY OneAttempt DEF Record
    <2>2. a.spare \in BOOLEAN
      BY <2>1 DEF Attempt
    <2> QED BY <2>1, <2>2 DEF Fits
  <1>2. cooldown \in [Providers -> span] /\ promised = cooldown
    BY DEF ProviderInv, Books
  <1>3. PICK retryAfter \in RetryAfters \cup {None} :
          /\ cooldown' = [cooldown EXCEPT ![p] = Upsert(@, time + QuotaCooldown(retryAfter))]
          /\ promised' = [promised EXCEPT ![p] = IF @ > time + QuotaCooldown(retryAfter) THEN @
                                                 ELSE time + QuotaCooldown(retryAfter)]
          /\ workers' = [workers EXCEPT ![w].pc = "park", ![w].until = cooldown'[p]]
    BY DEF Record
  <1> DEFINE until == time + QuotaCooldown(retryAfter)
             longer == Upsert(cooldown[p], until)
  <1>4. until \in span
    BY CooldownFits, OneAttempt, Numbers
  <1>5. longer \in span /\ longer = IF cooldown[p] > until THEN cooldown[p] ELSE until
    BY <1>1, <1>2, <1>4 DEF Upsert
  <1>6. cooldown' = [cooldown EXCEPT ![p] = longer] /\ promised' = cooldown'
    BY <1>2, <1>3, <1>5
  <1>7. cooldown' \in [Providers -> span] /\ cooldown'[p] \in span
    BY <1>1, <1>2, <1>5, <1>6
  <1>8. Books'
    BY <1>6, <1>7 DEF ProviderInv, Books, Record
  <1> DEFINE x == [a EXCEPT !.pc = "park", !.until = cooldown'[p]]
  <1>9. workers' = [workers EXCEPT ![w] = x]
    <2> HIDE DEF until, longer
    <2>1. \A u : [workers EXCEPT ![w].pc = "park", ![w].until = u] =
                 [workers EXCEPT ![w] = [a EXCEPT !.pc = "park", !.until = u]]
      OBVIOUS
    <2> QED BY <1>3, <2>1
  <1>10. x \in Attempt /\ x.pc = "park" /\ x.job = a.job /\ x.provider = p /\ x.spare = FALSE
    BY <1>1, <1>7 DEF Attempt
  <1> HIDE DEF x
  <1>11. Fits(x) /\ Backed(x, w, jobs, time)
    BY <1>1, <1>10 DEF Fits, Backed, Early
  <1>12. time' = time /\ jobs' = jobs /\ jobs \in [Jobs -> JobRec] /\ \A j \in Jobs : Attempted(jobs[j])
    BY DEF Record, ProviderInv, Tables
  <1> QED BY <1>8, <1>9, <1>10, <1>11, <1>12, WorkerMoves

-----------------------------------------------------------------------------
(* Steps of the queue, of the operator and of the clock.                    *)

(* The job table changes where no worker has a live lease. *)
LEMMA JobsMove ==
  ASSUME ProviderInv, UNCHANGED <<time, workers, cooldown, promised, routed>>,
         jobs' \in [Jobs -> JobRec], \A j \in Jobs : Attempted(jobs'[j]),
         \A k \in Jobs : jobs[k].status = "running" /\ jobs[k].lease >= time => jobs'[k] = jobs[k],
         operator' \in [pc : {"idle", "clear", "wake"}, beyond : 0..Backoff, left : 0..MaxActs]
  PROVE  ProviderInv'
  <1>1. ASSUME NEW w \in Workers
        PROVE  Fits(workers[w]) /\ Backed(workers[w], w, jobs', time)
    BY OneAttempt, StaysBacked
  <1>2. Books' /\ Tables'
    BY DEF ProviderInv, Books, Tables
  <1> QED BY <1>1, <1>2 DEF ProviderInv

LEMMA FailExhaustedSound ==
  ASSUME ProviderInv, NEW j \in Jobs, FailExhausted(j)
  PROVE  ProviderInv'
  <1>1. jobs \in [Jobs -> JobRec] /\ time \in Nat /\ LeaseSeconds \in Nat /\ Providers # {}
        /\ \A k \in Jobs : Attempted(jobs[k])
    BY LeaseCovers, Numbers DEF ProviderInv, Tables, Books
  <1>2. Released(j, "failed") \in JobRec /\ Attempted(Released(j, "failed"))
    BY <1>1, ReleasedFits DEF ProviderInv
  <1>3. jobs' = [jobs EXCEPT ![j] = Released(j, "failed")]
    BY DEF FailExhausted
  <1>4. jobs' \in [Jobs -> JobRec] /\ \A k \in Jobs : Attempted(jobs'[k])
    BY <1>1, <1>2, <1>3
  <1>5. ~(jobs[j].lease >= time)
    <2>1. jobs[j].lease \in Nat
      BY <1>1, Numbers DEF JobRec
    <2> QED BY <1>1, <2>1 DEF FailExhausted
  <1>6. \A k \in Jobs : jobs[k].status = "running" /\ jobs[k].lease >= time => jobs'[k] = jobs[k]
    BY <1>1, <1>3, <1>5
  <1> QED BY <1>4, <1>6, JobsMove DEF FailExhausted, ProviderInv, Books

LEMMA WakeParkedSound ==
  ASSUME ProviderInv, WakeParked
  PROVE  ProviderInv'
  <1>1. jobs \in [Jobs -> JobRec] /\ time \in 0..MaxElapsed /\ \A k \in Jobs : Attempted(jobs[k])
    BY DEF ProviderInv, Tables
  <1>2. time \in 0..(MaxElapsed + MaxCool + Backoff)
    BY <1>1, Numbers
  <1>3. ASSUME NEW k \in Jobs
        PROVE  /\ jobs'[k] \in JobRec /\ Attempted(jobs'[k])
               /\ jobs[k].status = "running" => jobs'[k] = jobs[k]
    <2>1. CASE jobs[k].status = "queued" /\ jobs[k].runAfter > time + operator.beyond
      <3>1. jobs'[k] = [jobs[k] EXCEPT !.runAfter = time]
        BY <2>1 DEF WakeParked
      <3> QED BY <1>1, <1>2, <2>1, <3>1 DEF JobRec, Attempted
    <2>2. CASE ~(jobs[k].status = "queued" /\ jobs[k].runAfter > time + operator.beyond)
      <3>1. jobs'[k] = jobs[k]
        BY <2>2 DEF WakeParked
      <3> QED BY <1>1, <3>1
    <2> QED BY <2>1, <2>2
  <1>4. jobs' \in [Jobs -> JobRec]
    BY <1>3 DEF WakeParked
  <1>5. operator' \in [pc : {"idle", "clear", "wake"}, beyond : 0..Backoff, left : 0..MaxActs]
    <2>1. 0 \in 0..Backoff
      BY Numbers
    <2> QED BY <2>1 DEF WakeParked, ProviderInv, Books
  <1> QED BY <1>3, <1>4, <1>5, JobsMove DEF WakeParked

(* A cooldown is lifted, and with it what the attempts know of it. *)
LEMMA LiftSound ==
  ASSUME ProviderInv, NEW P \in SUBSET Providers, Lifted(P), UNCHANGED <<time, jobs, routed>>,
         operator' \in [pc : {"idle", "clear", "wake"}, beyond : 0..Backoff, left : 0..MaxActs]
  PROVE  ProviderInv'
  <1>1. workers \in [Workers -> Attempt] /\ cooldown \in [Providers -> 0..(MaxElapsed + MaxCool)]
        /\ promised = cooldown /\ 0 \in 0..(MaxElapsed + MaxCool)
    BY Numbers DEF ProviderInv, Tables, Books
  <1>2. Books'
    BY <1>1 DEF ProviderInv, Books, Lifted
  <1>3. ASSUME NEW w \in Workers
        PROVE  workers'[w] \in Attempt /\ Fits(workers'[w]) /\ Backed(workers'[w], w, jobs, time)
    <2> DEFINE a == workers[w]
               x == [a EXCEPT !.known = @ \ P]
    <2>1. a \in Attempt /\ Fits(a) /\ Backed(a, w, jobs, time) /\ workers'[w] = x
      BY OneAttempt DEF Lifted
    <2>2. x \in Attempt /\ x.pc = a.pc /\ x.job = a.job /\ x.provider = a.provider
          /\ x.call = a.call /\ x.due = a.due /\ x.spare = a.spare /\ x.known \subseteq a.known
      BY <2>1 DEF Attempt
    <2> HIDE DEF x
    <2>3. Fits(x)
      BY <2>1, <2>2 DEF Fits, RoutedBySettings
    <2>4. Backed(x, w, jobs, time)
      BY <2>1, <2>2 DEF Backed, Early, Outlasts
    <2> QED BY <2>1, <2>2, <2>3, <2>4
  <1>4. workers' \in [Workers -> Attempt]
    BY <1>3 DEF Lifted
  <1> QED BY <1>2, <1>3, <1>4 DEF ProviderInv, Tables

LEMMA OperatorSound ==
  ASSUME ProviderInv,
         \/ \E P \in SUBSET Providers : LiftCooldowns(P)
         \/ \E p \in Providers : ChangeModel(p)
         \/ ClearAfterChange
         \/ ReleaseRetries
  PROVE  ProviderInv'
  <1> DEFINE Endpoint == [pc : {"idle", "clear", "wake"}, beyond : 0..Backoff, left : 0..MaxActs]
  <1>1. operator \in Endpoint /\ Backoff \in 0..Backoff /\ 0 \in 0..Backoff
    BY Numbers DEF ProviderInv, Books
  <1>2. operator.left > 0 => operator.left - 1 \in 0..MaxActs
    BY <1>1, Numbers
  <1>3. ASSUME NEW P \in SUBSET Providers, LiftCooldowns(P)
        PROVE  ProviderInv'
    BY <1>1, <1>2, <1>3, LiftSound DEF LiftCooldowns
  <1>4. ASSUME ClearAfterChange
        PROVE  ProviderInv'
    <2>1. operator' \in Endpoint
      BY <1>1, <1>4 DEF ClearAfterChange
    <2> QED BY <1>4, <2>1, LiftSound DEF ClearAfterChange
  <1>5. ASSUME UNCHANGED <<time, jobs, workers, cooldown, promised>>, routed' \in Providers,
               operator' \in Endpoint
        PROVE  ProviderInv'
    BY <1>5 DEF ProviderInv, Books, Tables
  <1>6. ASSUME NEW p \in Providers, ChangeModel(p)
        PROVE  ProviderInv'
    BY <1>1, <1>2, <1>5, <1>6 DEF ChangeModel
  <1>7. CASE ReleaseRetries
    BY <1>1, <1>2, <1>5, <1>7 DEF ReleaseRetries, ProviderInv, Books
  <1> QED BY <1>3, <1>4, <1>6, <1>7

LEMMA ElapseSound ==
  ASSUME ProviderInv, Elapse
  PROVE  ProviderInv'
  <1>1. time \in 0..MaxElapsed /\ time < MaxElapsed
    BY DEF ProviderInv, Tables, Elapse
  <1>2. time' = time + 1 /\ time' \in 0..MaxElapsed
    BY <1>1, Numbers DEF Elapse
  <1>3. ASSUME NEW w \in Workers
        PROVE  Backed(workers[w], w, jobs, time')
    <2> DEFINE a == workers[w]
    <2>1. Backed(a, w, jobs, time) /\ a \in Attempt
      BY OneAttempt
    <2>2. a.pc = "calling" \/ Early(a) => time' =< a.due
      <3>1. a.pc = "calling" \/ Early(a) => Urgent(w)
        BY DEF Early, Urgent
      <3>2. Urgent(w) => time < a.due
        BY DEF Elapse
      <3>3. a.due \in Nat
        BY <2>1 DEF Attempt
      <3> QED BY <1>1, <1>2, <3>1, <3>2, <3>3
    <2> QED BY <2>1, <2>2 DEF Backed
  <1> QED BY <1>2, <1>3 DEF ProviderInv, Books, Tables, Elapse

-----------------------------------------------------------------------------
(* The invariant and what follows from it.                                 *)

LEMMA InitProviderInv == ProviderInit => ProviderInv
  <1> SUFFICES ASSUME ProviderInit
               PROVE  ProviderInv
    OBVIOUS
  <1>1. time \in 0..MaxElapsed /\ 0 \in 0..(MaxElapsed + MaxCool) /\ Providers # {}
    BY ProviderCallsAssumption, Numbers DEF ProviderInit
  <1>2. Books
    BY <1>1, Numbers DEF ProviderInit, Books
  <1>3. 0 \in 0..(MaxElapsed + LeaseSeconds) /\ 0 \in 0..(MaxElapsed + MaxCool + Backoff)
        /\ 0 \in 0..MaxAttempts
    BY <1>1, LeaseCovers, Numbers, ProviderCallsAssumption
  <1>4. jobs \in [Jobs -> JobRec] /\ \A j \in Jobs : Attempted(jobs[j])
    BY <1>3 DEF ProviderInit, JobRec, Attempted
  <1>5. \A w \in Workers : workers[w] = Resting
    BY DEF ProviderInit
  <1>6. workers \in [Workers -> Attempt]
    BY RestingFits DEF ProviderInit
  <1>7. \A w \in Workers : Fits(workers[w]) /\ Backed(workers[w], w, jobs, time)
    <2>1. Resting.pc = "idle"
      BY DEF Resting
    <2> QED BY <1>5, <2>1, RestingFits DEF Backed, Early
  <1> QED BY <1>1, <1>2, <1>4, <1>6, <1>7 DEF ProviderInv, Tables

LEMMA NextProviderInv == ProviderInv /\ [ProviderNext]_callVars => ProviderInv'
  <1> SUFFICES ASSUME ProviderInv, [ProviderNext]_callVars
               PROVE  ProviderInv'
    OBVIOUS
  <1>1. ASSUME NEW w \in Workers, NEW j \in Jobs, Claim(w, j)
        PROVE  ProviderInv'
    BY <1>1, ClaimSound
  <1>2. ASSUME NEW w \in Workers, CheckCooldown(w) \/ Keepalive(w) \/ SetUp(w)
        PROVE  ProviderInv'
    BY <1>2, CheckCooldownSound, KeepaliveSound, SetUpSound
  <1>3. ASSUME NEW w \in Workers, Send(w) \/ CachedPage(w) \/ Heartbeat(w)
        PROVE  ProviderInv'
    BY <1>3, SendSound, CachedPageSound, HeartbeatSound
  <1>4. ASSUME NEW w \in Workers, NEW reply \in Replies, Answer(w, reply)
        PROVE  ProviderInv'
    BY <1>4, AnswerSound
  <1>5. ASSUME NEW w \in Workers, Complete(w) \/ Fail(w) \/ Record(w)
        PROVE  ProviderInv'
    BY <1>5, CompleteSound, FailSound, RecordSound
  <1>6. ASSUME NEW w \in Workers, Park(w) \/ QuotaFallsBack(w) \/ Crash(w)
        PROVE  ProviderInv'
    BY <1>6, ParkSound, QuotaFallsBackSound, CrashSound
  <1>7. ASSUME NEW j \in Jobs, FailExhausted(j)
        PROVE  ProviderInv'
    BY <1>7, FailExhaustedSound
  <1>8. CASE \/ \E P \in SUBSET Providers : LiftCooldowns(P)
             \/ \E p \in Providers : ChangeModel(p)
             \/ ClearAfterChange
             \/ ReleaseRetries
    BY <1>8, OperatorSound
  <1>9. CASE WakeParked
    BY <1>9, WakeParkedSound
  <1>10. CASE Elapse
    BY <1>10, ElapseSound
  <1>11. CASE UNCHANGED callVars
    BY <1>11 DEF callVars, ProviderInv, Books, Tables
  <1> QED BY <1>1, <1>2, <1>3, <1>4, <1>5, <1>6, <1>7, <1>8, <1>9, <1>10, <1>11 DEF ProviderNext

(* Every variable keeps its type: in particular a job that runs has an       *)
(* attempt to give back, and no cooldown or backoff leaves its range.        *)
THEOREM ProviderTypeAlwaysOK == ProviderSpec => []ProviderTypeOK
  <1>1. ProviderInv => ProviderTypeOK
    <2> SUFFICES ASSUME ProviderInv
                 PROVE  ProviderTypeOK
      OBVIOUS
    <2>1. Books /\ Tables
      BY DEF ProviderInv
    <2>2. jobs \in [Jobs -> JobRec] /\ workers \in [Workers -> Attempt]
      BY <2>1 DEF Tables
    <2> QED BY <2>1, <2>2 DEF Books, Tables, JobRec, Attempt, ProviderTypeOK
  <1> QED BY InitProviderInv, NextProviderInv, <1>1, PTL DEF ProviderSpec

(* No job has two provider calls in flight, whatever the timeouts of the     *)
(* providers, the margin and the number of workers: a lease sized for the    *)
(* slowest enabled provider outlasts every call it covers.                   *)
THEOREM OneCallAlways == ProviderSpec => []OneCallPerJob
  <1>1. ProviderInv => OneCallPerJob
    BY DEF ProviderInv, Backed, OneCallPerJob
  <1> QED BY InitProviderInv, NextProviderInv, <1>1, PTL DEF ProviderSpec

(* No attempt that the settings route calls a provider whose recorded        *)
(* cooldown was running when the attempt passed its check.                   *)
THEOREM CooldownAlwaysRespected == ProviderSpec => []CooldownRespected
  <1>1. ProviderInv => CooldownRespected
    BY DEF ProviderInv, Fits, RoutedBySettings, ReviewRetry, CooldownRespected
  <1> QED BY InitProviderInv, NextProviderInv, <1>1, PTL DEF ProviderSpec

-----------------------------------------------------------------------------
(***************************************************************************)
(* Intake.                                                                 *)
(***************************************************************************)

(* What a document, its row and a run are made of. *)
DocRec == [tags : SUBSET (Workflow \cup PeopleTags), modified : Int]
RowRec == [tags : SUBSET (Workflow \cup PeopleTags), modified : Int, full : BOOLEAN,
           status : [Stages -> {"unknown", "failed"} \cup Resolved]]
RunRec == [via : {"manual", "trigger", "auto-selector"}, stages : (SUBSET Stages) \ {{}},
           status : {"active", "failed"} \cup Resolved, created : Int,
           finished : {Unset} \cup Int, written : BOOLEAN]

(* A run has an end exactly when it is over. *)
HistoryOk(q) ==
  /\ Len(q) <= MaxRuns
  /\ \A i \in 1..Len(q) : q[i] \in RunRec /\ (q[i].status = "active" <=> q[i].finished = Unset)

(* A sync in progress: what it has to list yet, what it has listed, and what of that
   is left to do. *)
CallOk(k) ==
  /\ k = [pc |-> k.pc, start |-> k.start, since |-> k.since, left |-> k.left,
          snap |-> k.snap, todo |-> k.todo]
  /\ k.pc \in {"idle", "read", "sync", "lookup", "create", "select"}
  /\ k.start \in Nat /\ k.since \in {Unset} \cup Int
  /\ k.left \subseteq Docs /\ k.todo \subseteq Docs
  /\ k.pc \in {"sync", "lookup", "create"} =>
       DOMAIN k.snap \subseteq Docs /\ \A d \in DOMAIN k.snap : k.snap[d] \in DocRec
  /\ k.pc \in {"sync", "create"} => k.todo \subseteq DOMAIN k.snap
  /\ k.pc = "create" => \A d \in k.todo : Requested(k.snap[d].tags) # {}
  /\ k.pc = "select" => \A d \in k.todo : k.snap[d] \in (SUBSET Stages) \ {{}}

(* A request of the API syncs and does nothing else. *)
RequestOk(k) == k.pc \in {"idle", "read", "sync"}

(* What the overlap has to cover: Paperless' clock behind that of Archivist. *)
Covered == Overlap + skew > 0

(* The property: the row agrees, or the cursor is not past the document's edit, or a
   sync that outlasted the overlap wrote the row, in which case d is in o. *)
RowFresh(d, r, a, o, c) ==
  r.tags # a.tags /\ d \notin o /\ c # Unset => a.modified > c - Overlap
(* A sync in progress, which will set the cursor to its start, misses nothing either:
   what it has yet to list it will list, what it has listed it will store, and what
   changed since it listed it is recent enough for the sync after it. *)
CallFresh(d, r, a, o, k, s) ==
  /\ k.pc = "sync" /\ d \in k.left /\ r.tags # a.tags /\ d \notin o =>
       k.since = Unset \/ a.modified > k.since \/ a.modified > k.start - Overlap
  /\ k.pc = "sync" /\ d \notin k.left /\ r.tags # a.tags /\ d \notin o =>
       (d \in k.todo /\ k.snap[d].tags = a.tags) \/ a.modified > k.start - Overlap
  /\ k.pc = "sync" /\ d \in k.todo => k.snap[d].tags = a.tags \/ a.modified >= k.start + s

(* The runs of a history that a trigger asked for. *)
Triggered(q) == Cardinality({i \in 1..Len(q) : q[i].via = "trigger"})
Busy(q) == q # << >> /\ q[Len(q)].status = "active"
(* A trigger seen on a document modified at m asks for nothing new. *)
Answered(q, m) == Busy(q) \/ (q # << >> /\ q[Len(q)].finished >= m)
Asks(seen) == seen.tags \cap TriggerTags # {}

(* The trigger runs of a document never outnumber its reasons n: a run is created only
   where a reason is left, that is where the latest run does not answer the trigger.
   A poll acts on what it read before, so its snapshot carries the same credit. *)
Credited(d, q, a, w, n, t) ==
  /\ Triggered(q) <= n
  /\ a.modified <= t /\ (Asks(a) => Answered(q, a.modified) \/ Triggered(q) < n)
  /\ w.pc \in {"sync", "lookup"} /\ d \in DOMAIN w.snap =>
       /\ w.snap[d].modified <= t
       /\ Asks(w.snap[d]) => Answered(q, w.snap[d].modified) \/ Triggered(q) < n
  /\ w.pc = "create" /\ d \in w.todo => Busy(q) \/ Triggered(q) < n

(* Types, and that no call and no cursor is ahead of the clock. *)
Typed ==
  /\ clock \in 0..MaxClock /\ skew \in Skews /\ cursor \in {Unset} \cup 0..clock
  /\ archive \in [Docs -> DocRec] /\ row \in [Docs -> RowRec]
  /\ runs \in [Docs -> Seq(RunRec)] /\ \A d \in Docs : HistoryOk(runs[d])
  /\ call = [c \in Callers |-> call[c]]
  /\ \A c \in Callers : CallOk(call[c]) /\ call[c].start <= clock
  /\ \A q \in Requests : RequestOk(call[q])
  /\ retagged \in [Docs -> Nat] /\ raced \in [Docs -> Nat]

(* Row, cursor and the syncs in progress, for each document. *)
Fresh ==
  Covered => \A d \in Docs :
    /\ RowFresh(d, row[d], archive[d], outlasted, cursor)
    /\ \A c \in Callers : CallFresh(d, row[d], archive[d], outlasted, call[c], skew)

(* Only a Paperless clock that is not ahead dates a change before the run that ends. *)
Credit ==
  skew <= 0 => \A d \in Docs, p \in Pollers :
    Credited(d, runs[d], archive[d], call[p], retagged[d] + raced[d], clock)

(* What keeps a run's credit: no trigger run is added, and what was answered
   stays answered. *)
RunKept(p, q) ==
  /\ Triggered(p) = Triggered(q) /\ (Busy(q) => Busy(p))
  /\ \A m \in Int : Answered(q, m) => Answered(p, m)

(* A poll relies on nothing it did not rely on before. *)
PollKept(x, w) ==
  \/ x = w
  \/ x.pc \in {"idle", "read", "select"}
  \/ x.pc = "sync" /\ DOMAIN x.snap = {}
  \/ {x.pc, w.pc} \subseteq {"sync", "lookup"} /\ x.snap = w.snap
PollsKept == \A p \in Pollers : PollKept(call[p]', call[p])

IntakeInv == Typed /\ Fresh /\ Credit

-----------------------------------------------------------------------------

LEMMA MinExists ==
  ASSUME NEW S, S \subseteq Nat, S # {}
  PROVE  \E x \in S : \A y \in S : x =< y
  <1> DEFINE T == {0..x : x \in S}
  <1>0. \A x \in S : 0..x \in FiniteSubsetsOf(Nat)
    <2> TAKE x \in S
    <2>1. IsFiniteSet(0..x)
      BY FS_Interval
    <2>2. 0..x \in SUBSET Nat
      OBVIOUS
    <2> QED BY <2>1, <2>2 DEF FiniteSubsetsOf
  <1>1. T \subseteq FiniteSubsetsOf(Nat) /\ T # {}
    BY <1>0
  <1>2. PICK t \in T : \A u \in T : ~ (<<u, t>> \in StrictSubsetOrdering(Nat))
    BY <1>1, FS_StrictSubsetOrderingWellFounded, WFMin
  <1>3. PICK x \in S : t = 0..x
    BY <1>2
  <1>4. ASSUME NEW y \in S, y < x PROVE FALSE
    <2>1. 0..y \in T /\ 0..y \subseteq 0..x /\ 0..y # 0..x
      BY <1>4
    <2>2. 0..y \in SUBSET Nat /\ 0..x \in SUBSET Nat
      OBVIOUS
    <2>3. <<0..y, 0..x>> \in StrictSubsetOrdering(Nat)
      BY <2>1, <2>2 DEF StrictSubsetOrdering
    <2> QED BY <2>1, <2>3, <1>2, <1>3
  <1> QED BY <1>4

LEMMA LowestOf ==
  ASSUME NEW S, S \subseteq Nat, S # {}
  PROVE  Lowest(S) \in S
  <1>1. \E x \in S : \A y \in S : x =< y
    BY MinExists
  <1> QED BY <1>1 DEF Lowest

(* The runs a trigger asked for, counted.                                  *)

LEMMA TriggeredNat ==
  ASSUME NEW q \in Seq(RunRec)
  PROVE  Triggered(q) \in Nat
  <1>1. IsFiniteSet(1..Len(q))
    BY FS_Interval
  <1>2. IsFiniteSet({i \in 1..Len(q) : q[i].via = "trigger"})
    BY <1>1, FS_Subset
  <1> QED BY <1>2, FS_CardinalityType DEF Triggered

LEMMA TriggeredSame ==
  ASSUME NEW p, NEW q, Len(p) = Len(q), \A i \in 1..Len(q) : p[i].via = q[i].via
  PROVE  Triggered(p) = Triggered(q)
  <1>1. {i \in 1..Len(p) : p[i].via = "trigger"} = {i \in 1..Len(q) : q[i].via = "trigger"}
    OBVIOUS
  <1> QED BY <1>1 DEF Triggered

LEMMA RunAppended ==
  ASSUME NEW q \in Seq(RunRec), NEW r \in RunRec
  PROVE  /\ Append(q, r) \in Seq(RunRec) /\ Append(q, r) # << >>
         /\ Len(Append(q, r)) = Len(q) + 1
         /\ Append(q, r)[Len(q) + 1] = r
         /\ \A i \in 1..Len(q) : Append(q, r)[i] = q[i]
         /\ Triggered(Append(q, r)) = Triggered(q) + IF r.via = "trigger" THEN 1 ELSE 0
  <1> DEFINE p == Append(q, r)
             F == {i \in 1..Len(q) : q[i].via = "trigger"}
             G == {i \in 1..Len(p) : p[i].via = "trigger"}
  <1>1. /\ p \in Seq(RunRec) /\ p # << >> /\ Len(p) = Len(q) + 1
        /\ p[Len(q) + 1] = r /\ \A i \in 1..Len(q) : p[i] = q[i]
    OBVIOUS
  <1>2. Len(q) \in Nat /\ Len(q) + 1 \notin F
    OBVIOUS
  <1>3. G = F \cup IF r.via = "trigger" THEN {Len(q) + 1} ELSE {}
    <2> HIDE DEF p
    <2>1. \A i : i \in 1..(Len(q) + 1) <=> i \in 1..Len(q) \/ i = Len(q) + 1
      BY <1>2
    <2>2. \A i \in 1..Len(q) : i # Len(q) + 1
      BY <1>2
    <2> QED BY <1>1, <2>1, <2>2
  <1>4. IsFiniteSet(1..Len(q))
    BY <1>2, FS_Interval
  <1>5. IsFiniteSet(F)
    BY <1>4, FS_Subset
  <1>6. Cardinality(F) \in Nat
    BY <1>5, FS_CardinalityType
  <1> HIDE DEF F, G
  <1>7. Cardinality(G) = Cardinality(F) + IF r.via = "trigger" THEN 1 ELSE 0
    <2>1. CASE r.via = "trigger"
      <3>1. G = F \cup {Len(q) + 1}
        BY <2>1, <1>3
      <3> QED BY <3>1, <2>1, <1>2, <1>5, FS_AddElement
    <2>2. CASE r.via # "trigger"
      <3>1. G = F
        BY <2>2, <1>3
      <3> QED BY <3>1, <2>2, <1>6
    <2> QED BY <2>1, <2>2
  <1> USE DEF F, G
  <1> QED BY <1>1, <1>7 DEF Triggered

LEMMA LastUpdated ==
  ASSUME NEW q \in Seq(RunRec), q # << >>, NEW r \in RunRec, r.via = q[Len(q)].via
  PROVE  LET p == [q EXCEPT ![Len(q)] = r]
         IN  /\ p \in Seq(RunRec) /\ p # << >> /\ Len(p) = Len(q) /\ p[Len(p)] = r
             /\ \A i \in 1..Len(q) : i # Len(q) => p[i] = q[i]
             /\ Triggered(p) = Triggered(q)
  <1> DEFINE p == [q EXCEPT ![Len(q)] = r]
  <1>1. Len(q) \in 1..Len(q)
    OBVIOUS
  <1>2. /\ p \in Seq(RunRec) /\ p # << >> /\ Len(p) = Len(q) /\ p[Len(q)] = r
        /\ \A i \in 1..Len(q) : i # Len(q) => p[i] = q[i]
    BY <1>1
  <1>3. \A i \in 1..Len(q) : p[i].via = q[i].via
    BY <1>2
  <1>4. Triggered(p) = Triggered(q)
    BY <1>2, <1>3, TriggeredSame
  <1> QED BY <1>2, <1>4

(* Two ways to add to the runs, and one to change the last.                *)

LEMMA EnsuredRun ==
  ASSUME Typed, NEW d \in Docs, Room(d), NEW via \in {"manual", "trigger", "auto-selector"},
         NEW stages \in (SUBSET Stages) \ {{}}
  PROVE  LET p == EnsureRun(runs, d, via, stages)
         IN  /\ p = [runs EXCEPT ![d] = p[d]]
             /\ p[d] \in Seq(RunRec) /\ HistoryOk(p[d]) /\ Busy(p[d])
             /\ \/ Busy(runs[d]) /\ p[d] = runs[d]
                \/ /\ ~Busy(runs[d])
                   /\ Triggered(p[d]) = Triggered(runs[d]) + IF via = "trigger" THEN 1 ELSE 0
  <1> DEFINE q == runs[d]
             r == [via |-> via, stages |-> stages, status |-> "active",
                   created |-> clock, finished |-> Unset, written |-> FALSE]
             p == EnsureRun(runs, d, via, stages)
  <1>1. q \in Seq(RunRec) /\ HistoryOk(q) /\ runs \in [Docs -> Seq(RunRec)]
    BY DEF Typed
  <1>2. CASE Busy(q)
    <2>1. p = runs
      BY <1>2 DEF EnsureRun, Busy
    <2> QED BY <2>1, <1>1, <1>2
  <1>3. CASE ~Busy(q)
    <2>1. r \in RunRec /\ r.via = via /\ r.status = "active" /\ r.finished = Unset
      BY DEF Typed, RunRec
    <2>2. p = [runs EXCEPT ![d] = Append(q, r)]
      BY <1>3 DEF EnsureRun, Busy
    <2> HIDE DEF r
    <2>3. /\ Append(q, r) \in Seq(RunRec) /\ Append(q, r) # << >>
          /\ Len(Append(q, r)) = Len(q) + 1
          /\ Append(q, r)[Len(q) + 1] = r
          /\ \A i \in 1..Len(q) : Append(q, r)[i] = q[i]
          /\ Triggered(Append(q, r)) = Triggered(q) + IF via = "trigger" THEN 1 ELSE 0
      BY <1>1, <2>1, RunAppended
    <2>4. Len(q) < MaxRuns /\ Len(q) \in Nat /\ MaxRuns \in Nat
      BY <1>1, <1>3, IntakeAssumption DEF Room, Running, LatestRun, Busy
    <2>5. p[d] = Append(q, r) /\ p = [runs EXCEPT ![d] = p[d]]
      BY <2>2, <1>1
    <2> HIDE DEF p, q
    <2>6. HistoryOk(p[d])
      BY <1>1, <2>1, <2>3, <2>4, <2>5 DEF HistoryOk
    <2>7. Busy(p[d])
      BY <2>1, <2>3, <2>5 DEF Busy
    <2> USE DEF p, q
    <2> QED BY <1>3, <2>3, <2>5, <2>6, <2>7
  <1> QED BY <1>2, <1>3

LEMMA LastRunSet ==
  ASSUME Typed, NEW d \in Docs, runs[d] # << >>, NEW r \in RunRec,
         r.via = LatestRun(d).via, r.status = "active" <=> r.finished = Unset
  PROVE  LET p == [runs[d] EXCEPT ![Len(runs[d])] = r]
         IN  /\ p \in Seq(RunRec) /\ HistoryOk(p) /\ p # << >> /\ p[Len(p)] = r
             /\ Triggered(p) = Triggered(runs[d])
  <1> DEFINE q == runs[d]
             p == [q EXCEPT ![Len(q)] = r]
  <1>1. q \in Seq(RunRec) /\ HistoryOk(q) /\ r.via = q[Len(q)].via
    BY DEF Typed, LatestRun
  <1>2. /\ p \in Seq(RunRec) /\ p # << >> /\ Len(p) = Len(q) /\ p[Len(p)] = r
        /\ \A i \in 1..Len(q) : i # Len(q) => p[i] = q[i]
        /\ Triggered(p) = Triggered(q)
    BY <1>1, LastUpdated
  <1>3. HistoryOk(p)
    <2> HIDE DEF p, q
    <2> QED BY <1>1, <1>2 DEF HistoryOk
  <1> QED BY <1>2, <1>3

-----------------------------------------------------------------------------
(* What leaves freshness and credit alone.                                 *)

LEMMA SkewBound ==
  ASSUME Typed
  PROVE  skew \in Int /\ Overlap \in Nat /\ clock \in Nat
  BY IntakeAssumption DEF Typed

LEMMA FreshKept ==
  ASSUME Fresh, UNCHANGED <<skew, archive, cursor, outlasted>>,
         \A d \in Docs : row[d]'.tags = row[d].tags,
         \A c \in Callers : call[c]' = call[c] \/ call[c]'.pc # "sync"
  PROVE  Fresh'
  BY DEF Fresh, Covered, RowFresh, CallFresh

LEMMA CreditedKept ==
  ASSUME NEW d, NEW q \in Seq(RunRec), NEW p, RunKept(p, q), NEW a, a.modified \in Int,
         NEW w, NEW x, CallOk(w), PollKept(x, w),
         NEW n \in Nat, NEW m \in Nat, n <= m, NEW t \in Int, NEW u \in Int, t <= u,
         NEW b, b = a \/ (b.modified <= u /\ (Asks(b) => n < m)),
         Credited(d, q, a, w, n, t)
  PROVE  Credited(d, p, b, x, m, u)
  <1>1. Triggered(q) \in Nat
    BY TriggeredNat
  <1>2. \A e \in DOMAIN w.snap : w.pc \in {"sync", "lookup"} => w.snap[e].modified \in Int
    BY DEF CallOk, DocRec
  <1>3. Triggered(p) = Triggered(q) /\ (Triggered(q) < n => Triggered(p) < m) /\ Triggered(p) <= m
    BY <1>1 DEF RunKept, Credited
  <1>4. b.modified <= u /\ (Asks(b) => Answered(p, b.modified) \/ Triggered(p) < m)
    <2>1. CASE b = a
      BY <2>1, <1>1, <1>3 DEF RunKept, Credited
    <2>2. CASE b.modified <= u /\ (Asks(b) => n < m)
      BY <2>2, <1>1, <1>3 DEF Credited
    <2> QED BY <2>1, <2>2
  <1>5. x.pc \in {"sync", "lookup"} /\ d \in DOMAIN x.snap =>
          /\ x.snap[d].modified <= u
          /\ Asks(x.snap[d]) => Answered(p, x.snap[d].modified) \/ Triggered(p) < m
    <2> HAVE x.pc \in {"sync", "lookup"} /\ d \in DOMAIN x.snap
    <2>1. w.pc \in {"sync", "lookup"} /\ x.snap = w.snap
      BY DEF PollKept
    <2> QED BY <2>1, <1>2, <1>3 DEF Credited, RunKept
  <1>6. x.pc = "create" /\ d \in x.todo => Busy(p) \/ Triggered(p) < m
    BY <1>3 DEF Credited, RunKept, PollKept
  <1> QED BY <1>3, <1>4, <1>5, <1>6 DEF Credited

LEMMA CreditKept ==
  ASSUME Typed, Credit, UNCHANGED <<skew, archive, retagged, raced>>,
         clock' \in Int, clock' >= clock, PollsKept,
         \A d \in Docs : RunKept(runs[d]', runs[d])
  PROVE  Credit'
  <1> SUFFICES ASSUME skew =< 0, NEW d \in Docs, NEW p \in Pollers
               PROVE  Credited(d, runs[d]', archive[d], call[p]', retagged[d] + raced[d], clock')
    BY DEF Credit
  <1>1. Credited(d, runs[d], archive[d], call[p], retagged[d] + raced[d], clock)
    BY DEF Credit
  <1>2. /\ RunKept(runs[d]', runs[d]) /\ archive[d].modified \in Int
        /\ clock \in Int /\ CallOk(call[p]) /\ runs[d] \in Seq(RunRec)
        /\ retagged[d] + raced[d] \in Nat /\ PollKept(call[p]', call[p])
    <2>1. p \in Callers
      BY DEF Callers
    <2>2. /\ archive[d] \in DocRec /\ CallOk(call[p]) /\ runs[d] \in Seq(RunRec)
          /\ retagged[d] \in Nat /\ raced[d] \in Nat /\ clock \in Int
      BY <2>1 DEF Typed
    <2>3. PollKept(call[p]', call[p])
      BY DEF PollsKept
    <2> QED BY <2>2, <2>3 DEF DocRec
  <1>3. clock' \in Int /\ clock <= clock' /\ retagged[d] + raced[d] <= retagged[d] + raced[d]
    BY <1>2
  <1> QED BY <1>1, <1>2, <1>3, CreditedKept

LEMMA CallsSame ==
  ASSUME call' = call
  PROVE  PollsKept
  BY DEF PollsKept, PollKept

LEMMA RunSame == \A q : RunKept(q, q)
  BY DEF RunKept

LEMMA RunStarted ==
  ASSUME NEW p, NEW q, Triggered(p) = Triggered(q), Busy(p)
  PROVE  RunKept(p, q)
  BY DEF RunKept, Answered

(* A change in Paperless is stamped behind every cursor, and earns a trigger
   tag one more run. *)
LEMMA ChangeFresh ==
  ASSUME Typed, Fresh, NEW d \in Docs, NEW tags, Change(d, tags),
         UNCHANGED <<clock, skew, cursor, call, row>>
  PROVE  Fresh'
  <1> SUFFICES ASSUME Covered, NEW e \in Docs
               PROVE  /\ RowFresh(e, row[e], archive[e]', outlasted', cursor)
                      /\ \A c \in Callers : CallFresh(e, row[e], archive[e]', outlasted', call[c], skew)
    BY DEF Fresh, Covered
  <1>1. CASE e # d
    <2>1. archive[e]' = archive[e] /\ (e \in outlasted' <=> e \in outlasted)
      BY <1>1 DEF Change, Typed
    <2> QED BY <2>1 DEF Fresh, RowFresh, CallFresh
  <1>2. CASE e = d
    <2>1. archive[e]' = [tags |-> tags, modified |-> clock + skew]
      BY <1>2 DEF Change, Typed, Stamp
    <2>2. skew \in Int /\ Overlap \in Nat /\ clock + skew > clock - Overlap /\ clock \in Int
      BY SkewBound DEF Covered
    <2>3. cursor # Unset => cursor \in Int /\ cursor =< clock
      BY DEF Typed
    <2>4. RowFresh(e, row[e], archive[e]', outlasted', cursor)
      BY <2>1, <2>2, <2>3 DEF RowFresh
    <2>5. ASSUME NEW c \in Callers PROVE CallFresh(e, row[e], archive[e]', outlasted', call[c], skew)
      <3>1. call[c].start \in Int /\ call[c].start =< clock
        BY DEF Typed, CallOk
      <3> QED BY <2>1, <2>2, <3>1 DEF CallFresh
    <2> QED BY <2>4, <2>5
  <1> QED BY <1>1, <1>2

LEMMA ChangeTyped ==
  ASSUME Typed, NEW d \in Docs, NEW tags, tags \subseteq Workflow \cup PeopleTags, Change(d, tags)
  PROVE  archive' \in [Docs -> DocRec] /\ retagged' \in [Docs -> Nat]
  <1>1. clock + skew \in Int
    BY SkewBound
  <1>2. [tags |-> tags, modified |-> clock + skew] \in DocRec
    BY <1>1 DEF DocRec
  <1>3. archive' = [archive EXCEPT ![d] = [tags |-> tags, modified |-> clock + skew]]
    BY DEF Change, Stamp
  <1>4. \E n \in {0, 1} : retagged' = [retagged EXCEPT ![d] = @ + n]
    BY DEF Change
  <1>5. archive' \in [Docs -> DocRec]
    BY <1>2, <1>3 DEF Typed
  <1>6. retagged' \in [Docs -> Nat]
    BY <1>4 DEF Typed
  <1> QED BY <1>5, <1>6

LEMMA ChangeCredit ==
  ASSUME Typed, Credit, NEW d \in Docs, NEW tags, tags \subseteq Workflow \cup PeopleTags,
         Change(d, tags), UNCHANGED <<clock, skew, call, raced>>,
         \A e \in Docs : RunKept(runs[e]', runs[e])
  PROVE  Credit'
  <1> SUFFICES ASSUME skew =< 0, NEW e \in Docs, NEW p \in Pollers
               PROVE  Credited(e, runs[e]', archive[e]', call[p], retagged[e]' + raced[e], clock)
    BY DEF Credit
  <1>1. Credited(e, runs[e], archive[e], call[p], retagged[e] + raced[e], clock)
    BY DEF Credit
  <1>2. /\ RunKept(runs[e]', runs[e]) /\ archive[e].modified \in Int
        /\ clock \in Int /\ CallOk(call[p]) /\ runs[e] \in Seq(RunRec)
        /\ retagged[e] \in Nat /\ raced[e] \in Nat /\ skew \in Int
        /\ PollKept(call[p], call[p])
    <2>1. p \in Callers
      BY DEF Callers
    <2>2. /\ archive[e] \in DocRec /\ CallOk(call[p]) /\ runs[e] \in Seq(RunRec)
          /\ retagged[e] \in Nat /\ raced[e] \in Nat /\ clock \in Int
      BY <2>1 DEF Typed
    <2>3. PollKept(call[p], call[p])
      BY DEF PollKept
    <2> QED BY <2>2, <2>3, SkewBound DEF DocRec
  <1>3. retagged[e]' \in Nat
    BY ChangeTyped
  <1>4. /\ retagged[e]' >= retagged[e]
        /\ \/ archive[e]' = archive[e]
           \/ archive[e]'.modified <= clock /\ (Asks(archive[e]') => retagged[e]' > retagged[e])
    <2>1. CASE e # d
      BY <2>1, <1>2 DEF Change, Typed
    <2>2. CASE e = d
      <3>1. archive[e]' = [tags |-> tags, modified |-> clock + skew]
        BY <2>2 DEF Change, Typed, Stamp
      <3>2. retagged[e]' = retagged[e] + IF tags \cap TriggerTags # {} THEN 1 ELSE 0
        BY <2>2 DEF Change, Typed
      <3>3. archive[e]'.tags = tags /\ archive[e]'.modified <= clock
        BY <3>1, <1>2
      <3> QED BY <3>2, <3>3, <1>2 DEF Asks
    <2> QED BY <2>1, <2>2
  <1> DEFINE n == retagged[e] + raced[e]
             m == retagged[e]' + raced[e]
  <1>5. /\ n \in Nat /\ m \in Nat /\ n <= m
        /\ \/ archive[e]' = archive[e]
           \/ archive[e]'.modified <= clock /\ (Asks(archive[e]') => n < m)
    BY <1>2, <1>3, <1>4
  <1>6. clock <= clock
    BY <1>2
  <1>7. Credited(e, runs[e], archive[e], call[p], n, clock)
    BY <1>1
  <1> HIDE DEF n, m
  <1>8. Credited(e, runs[e]', archive[e]', call[p], m, clock)
    BY <1>2, <1>5, <1>6, <1>7, CreditedKept
  <1> USE DEF m
  <1> QED BY <1>8

-----------------------------------------------------------------------------
(* The initial state.                                                      *)

LEMMA UpsertedRow ==
  ASSUME NEW r \in RowRec, NEW seen \in DocRec
  PROVE  Upserted(r, seen) \in RowRec /\ Upserted(r, seen).tags = seen.tags
  <1> DEFINE st == [s \in Stages |->
                      IF {DoneTag[s], ProcessedTag} \cap seen.tags # {} THEN "succeeded" ELSE r.status[s]]
             full == ProcessedTag \in seen.tags
  <1>1. /\ seen.tags \in SUBSET (Workflow \cup PeopleTags) /\ seen.modified \in Int
        /\ r.status \in [Stages -> {"unknown", "failed"} \cup Resolved]
    BY DEF DocRec, RowRec
  <1>2. st \in [Stages -> {"unknown", "failed"} \cup Resolved]
    BY <1>1 DEF Resolved
  <1>3. full \in BOOLEAN
    OBVIOUS
  <1>4. Upserted(r, seen) = [r EXCEPT !.tags = seen.tags, !.modified = seen.modified,
                                      !.full = full, !.status = st]
    BY DEF Upserted
  <1> HIDE DEF st, full
  <1> QED BY <1>1, <1>2, <1>3, <1>4 DEF RowRec

LEMMA InitIntakeInv == IntakeInit => IntakeInv
  <1> SUFFICES ASSUME IntakeInit PROVE IntakeInv
    OBVIOUS
  <1>0. skew \in Int /\ skew \in Skews /\ clock = 0 /\ MaxClock \in Nat /\ MaxRuns \in Nat
    BY IntakeAssumption DEF IntakeInit
  <1>1. archive \in [Docs -> DocRec] /\ \A d \in Docs : archive[d].modified = skew
    BY <1>0 DEF IntakeInit, DocRec
  <1>2. row \in [Docs -> RowRec] /\ \A d \in Docs : row[d].tags = archive[d].tags
    <2> DEFINE r == [tags |-> {}, modified |-> skew, full |-> FALSE,
                     status |-> [s \in Stages |-> "unknown"]]
    <2>1. r \in RowRec
      BY <1>0 DEF RowRec
    <2>2. row = [d \in Docs |-> Upserted(r, archive[d])]
      BY DEF IntakeInit
    <2> HIDE DEF r
    <2> QED BY <2>1, <2>2, <1>1, UpsertedRow
  <1>3. \A c \in Callers : call[c] = NoSync
    BY DEF IntakeInit
  <1>4. CallOk(NoSync) /\ RequestOk(NoSync) /\ NoSync.start <= clock
    BY <1>0 DEF CallOk, RequestOk, NoSync
  <1>5. Triggered(<< >>) = 0 /\ HistoryOk(<< >>) /\ << >> \in Seq(RunRec)
    <2>1. {i \in 1..Len(<< >>) : << >>[i].via = "trigger"} = {}
      OBVIOUS
    <2> QED BY <2>1, <1>0, FS_EmptySet DEF Triggered, HistoryOk
  <1>6. Typed
    <2>1. call = [c \in Callers |-> call[c]] /\ retagged \in [Docs -> Nat] /\ raced \in [Docs -> Nat]
      BY DEF IntakeInit
    <2>2. runs \in [Docs -> Seq(RunRec)] /\ \A d \in Docs : HistoryOk(runs[d])
      BY <1>5 DEF IntakeInit
    <2>3. clock \in 0..MaxClock /\ cursor \in {Unset} \cup 0..clock
      BY <1>0 DEF IntakeInit
    <2> QED BY <2>1, <2>2, <2>3, <1>0, <1>1, <1>2, <1>3, <1>4 DEF Typed, Callers
  <1>7. Fresh
    BY <1>2, <1>3 DEF Fresh, RowFresh, CallFresh, NoSync
  <1>8. Credit
    <2> SUFFICES ASSUME skew =< 0, NEW d \in Docs
                 PROVE  Credited(d, << >>, archive[d], NoSync, retagged[d] + raced[d], clock)
      BY <1>3 DEF Credit, IntakeInit, Callers
    <2>1. raced[d] = 0 /\ retagged[d] \in Nat /\ (Asks(archive[d]) => retagged[d] = 1)
      BY DEF IntakeInit, Asks
    <2> QED BY <2>1, <1>0, <1>1, <1>5 DEF Credited, NoSync
  <1> QED BY <1>6, <1>7, <1>8 DEF IntakeInv

-----------------------------------------------------------------------------
(* Each step keeps the invariant.  First time, people and the runs.         *)

LEMMA RunsSame ==
  ASSUME runs' = runs
  PROVE  \A d \in Docs : RunKept(runs[d]', runs[d])
  BY RunSame

LEMMA TickKept ==
  ASSUME IntakeInv, ClockTick
  PROVE  IntakeInv'
  <1> USE DEF IntakeInv
  <1>1. clock \in Int /\ clock' = clock + 1 /\ clock' \in 0..MaxClock
    <2>1. clock \in 0..MaxClock
      BY DEF Typed
    <2>2. clock < MaxClock /\ clock' = clock + 1
      BY DEF ClockTick
    <2>3. MaxClock \in Nat
      BY IntakeAssumption
    <2> QED BY <2>1, <2>2, <2>3
  <1>2. ASSUME NEW c \in Callers PROVE call[c].start <= clock'
    BY <1>1 DEF Typed, CallOk
  <1>3. cursor \in {Unset} \cup 0..clock'
    BY <1>1 DEF Typed
  <1>4. Typed'
    BY <1>1, <1>2, <1>3 DEF Typed, ClockTick, syncVars
  <1>5. Fresh'
    BY FreshKept DEF ClockTick, syncVars
  <1>6. Credit'
    <2>1. PollsKept
      BY CallsSame DEF ClockTick, syncVars
    <2>2. UNCHANGED <<skew, archive, retagged, raced, runs>> /\ clock' >= clock
      BY <1>1 DEF ClockTick
    <2> QED BY <1>1, <2>1, <2>2, CreditKept, RunsSame
  <1> QED BY <1>4, <1>5, <1>6

LEMMA EditKept ==
  ASSUME IntakeInv, NEW d \in Docs, Edit(d)
  PROVE  IntakeInv'
  <1> USE DEF IntakeInv
  <1>1. PICK tag \in PeopleTags : Change(d, (archive[d].tags \ {tag}) \cup ({tag} \ archive[d].tags))
    BY DEF Edit
  <1> DEFINE tags == (archive[d].tags \ {tag}) \cup ({tag} \ archive[d].tags)
  <1>2. tags \subseteq Workflow \cup PeopleTags /\ Change(d, tags)
    BY <1>1 DEF Typed, DocRec
  <1>3. UNCHANGED <<clock, skew, row, runs, raced, cursor, call>>
    BY DEF Edit, syncVars
  <1> HIDE DEF tags
  <1>4. archive' \in [Docs -> DocRec] /\ retagged' \in [Docs -> Nat]
    BY <1>2, ChangeTyped
  <1> QED BY <1>2, <1>3, <1>4, ChangeFresh, ChangeCredit, RunsSame DEF Typed

LEMMA WriteFullTagKept ==
  ASSUME IntakeInv, NEW d \in Docs, Change(d, archive[d].tags \cup {ProcessedTag}),
         UNCHANGED <<clock, skew, row, runs, raced, cursor, call>>
  PROVE  IntakeInv'
  <1> USE DEF IntakeInv
  <1> DEFINE tags == archive[d].tags \cup {ProcessedTag}
  <1>1. tags \subseteq Workflow \cup PeopleTags /\ Change(d, tags)
    BY DEF Typed, DocRec, Workflow
  <1> HIDE DEF tags
  <1>2. archive' \in [Docs -> DocRec] /\ retagged' \in [Docs -> Nat]
    BY <1>1, ChangeTyped
  <1> QED BY <1>1, <1>2, ChangeFresh, ChangeCredit, RunsSame DEF Typed

(* The last run is marked written: nothing of it that matters here changes. *)
LEMMA MarkedWritten ==
  ASSUME Typed, NEW d \in Docs, runs[d] # << >>,
         runs' = [runs EXCEPT ![d][Len(runs[d])].written = TRUE]
  PROVE  /\ runs' \in [Docs -> Seq(RunRec)] /\ \A e \in Docs : HistoryOk(runs[e]')
         /\ \A e \in Docs : RunKept(runs[e]', runs[e])
  <1> DEFINE q == runs[d]
             r == [q[Len(q)] EXCEPT !.written = TRUE]
             p == [q EXCEPT ![Len(q)] = r]
  <1>1. q \in Seq(RunRec) /\ HistoryOk(q) /\ q # << >> /\ Len(q) \in 1..Len(q)
    BY DEF Typed
  <1>2. q[Len(q)] \in RunRec /\ (q[Len(q)].status = "active" <=> q[Len(q)].finished = Unset)
    BY <1>1 DEF HistoryOk
  <1>3. /\ r \in RunRec /\ r.via = q[Len(q)].via /\ r.status = q[Len(q)].status
        /\ r.finished = q[Len(q)].finished
    BY <1>2 DEF RunRec
  <1>4. runs' = [runs EXCEPT ![d] = p]
    BY DEF Typed
  <1> HIDE DEF r
  <1>5. /\ p \in Seq(RunRec) /\ HistoryOk(p) /\ p # << >> /\ p[Len(p)] = r
        /\ Triggered(p) = Triggered(q)
    BY <1>2, <1>3, LastRunSet DEF LatestRun
  <1> HIDE DEF p
  <1>6. RunKept(p, q)
    BY <1>1, <1>3, <1>5 DEF RunKept, Busy, Answered
  <1>7. \A e \in Docs : runs[e]' = IF e = d THEN p ELSE runs[e]
    BY <1>4 DEF Typed
  <1>8. runs' \in [Docs -> Seq(RunRec)]
    BY <1>4, <1>5 DEF Typed
  <1>9. \A e \in Docs : HistoryOk(runs[e]')
    BY <1>5, <1>7 DEF Typed
  <1> QED BY <1>6, <1>7, <1>8, <1>9, RunSame

LEMMA RunWriteKept ==
  ASSUME IntakeInv, NEW d \in Docs, runs[d] # << >>, NEW tags, tags \subseteq Workflow \cup PeopleTags,
         Change(d, tags), runs' = [runs EXCEPT ![d][Len(runs[d])].written = TRUE],
         UNCHANGED <<clock, skew, row, raced, cursor, call>>
  PROVE  IntakeInv'
  <1> USE DEF IntakeInv
  <1>1. archive' \in [Docs -> DocRec] /\ retagged' \in [Docs -> Nat]
    BY ChangeTyped
  <1>2. /\ runs' \in [Docs -> Seq(RunRec)] /\ \A e \in Docs : HistoryOk(runs[e]')
        /\ \A e \in Docs : RunKept(runs[e]', runs[e])
    BY MarkedWritten
  <1>3. Typed'
    BY <1>1, <1>2 DEF Typed
  <1>4. Fresh'
    BY ChangeFresh
  <1>5. Credit'
    BY <1>2, ChangeCredit
  <1> QED BY <1>3, <1>4, <1>5

LEMMA WriteRunKept ==
  ASSUME IntakeInv, NEW d \in Docs, WriteRun(d)
  PROVE  IntakeInv'
  <1> DEFINE tags == (archive[d].tags \cup {ProcessedTag} \cup {DoneTag[s] : s \in LatestRun(d).stages})
                       \ ({ProcessTag} \cup UNION {TriggersOf[s] : s \in LatestRun(d).stages})
  <1>1. /\ runs[d] # << >> /\ runs[d] \in Seq(RunRec) /\ archive[d] \in DocRec
    BY DEF WriteRun, Running, IntakeInv, Typed
  <1>2. LatestRun(d) \in RunRec
    BY <1>1 DEF LatestRun
  <1>3. LatestRun(d).stages \subseteq Stages
    BY <1>2 DEF RunRec
  <1>4. tags \subseteq Workflow \cup PeopleTags
    BY <1>1, <1>3 DEF DocRec, Workflow
  <1>5. /\ Change(d, tags) /\ runs' = [runs EXCEPT ![d][Len(runs[d])].written = TRUE]
        /\ UNCHANGED <<clock, skew, row, raced, cursor, call>>
    BY DEF WriteRun, syncVars
  <1> HIDE DEF tags
  <1> QED BY <1>1, <1>4, <1>5, RunWriteKept

LEMMA RetireKept ==
  ASSUME IntakeInv, NEW d \in Docs, RetireTriggers(d)
  PROVE  IntakeInv'
  <1> DEFINE tags == archive[d].tags \ TriggerTags
  <1>1. tags \subseteq Workflow \cup PeopleTags
    BY DEF IntakeInv, Typed, DocRec
  <1>2. /\ Change(d, tags) /\ runs' = [runs EXCEPT ![d][Len(runs[d])].written = TRUE]
        /\ runs[d] # << >> /\ UNCHANGED <<clock, skew, row, raced, cursor, call>>
    BY DEF RetireTriggers, syncVars
  <1> HIDE DEF tags
  <1> QED BY <1>1, <1>2, RunWriteKept

LEMMA TriggerByHandKept ==
  ASSUME IntakeInv, NEW d \in Docs, TriggerByHand(d)
  PROVE  IntakeInv'
  <1> USE DEF IntakeInv
  <1> DEFINE p == EnsureRun(runs, d, "manual", Enabled)
  <1>1. /\ p = [runs EXCEPT ![d] = p[d]]
        /\ p[d] \in Seq(RunRec) /\ HistoryOk(p[d]) /\ Busy(p[d])
        /\ \/ Busy(runs[d]) /\ p[d] = runs[d]
           \/ /\ ~Busy(runs[d])
              /\ Triggered(p[d]) = Triggered(runs[d]) + IF "manual" = "trigger" THEN 1 ELSE 0
    BY IntakeAssumption, EnsuredRun DEF TriggerByHand
  <1>2. runs' = p /\ UNCHANGED <<clock, skew, archive, row, retagged, raced, outlasted, cursor, call>>
    BY DEF TriggerByHand, syncVars
  <1>3. Triggered(runs[d]) \in Nat
    BY TriggeredNat DEF Typed
  <1> HIDE DEF p
  <1>4. RunKept(p[d], runs[d])
    BY <1>1, <1>3, RunStarted, RunSame
  <1>5. \A e \in Docs : runs[e]' = IF e = d THEN p[d] ELSE runs[e]
    BY <1>1, <1>2 DEF Typed
  <1>6. runs' \in [Docs -> Seq(RunRec)]
    BY <1>1, <1>2 DEF Typed
  <1>7. \A e \in Docs : HistoryOk(runs[e]') /\ RunKept(runs[e]', runs[e])
    BY <1>1, <1>4, <1>5, RunSame DEF Typed
  <1>8. Typed'
    BY <1>2, <1>6, <1>7 DEF Typed
  <1>9. Fresh'
    BY <1>2, FreshKept
  <1>10. PollsKept /\ clock' \in Int /\ clock' >= clock
    BY <1>2, CallsSame DEF Typed
  <1>11. Credit'
    BY <1>2, <1>7, <1>10, CreditKept
  <1> QED BY <1>8, <1>9, <1>11

(* The end of a run answers every trigger seen so far; one the poll had already
   looked up is counted as raced. *)
LEMMA EndRunKept ==
  ASSUME IntakeInv, NEW d \in Docs, NEW status \in {"succeeded", "rejected", "failed"}, EndRun(d, status)
  PROVE  IntakeInv'
  <1> USE DEF IntakeInv
  <1> DEFINE q == runs[d]
             r == [q[Len(q)] EXCEPT !.status = status, !.finished = clock]
             p == [q EXCEPT ![Len(q)] = r]
  <1>1. q \in Seq(RunRec) /\ HistoryOk(q) /\ q # << >> /\ Len(q) \in 1..Len(q) /\ Busy(q)
    BY DEF Typed, EndRun, Running, LatestRun, Busy
  <1>2. q[Len(q)] \in RunRec /\ clock \in Int /\ Unset # clock
    <2>1. clock \in Int /\ Unset \notin Int
      BY IntakeAssumption DEF Typed
    <2> HIDE DEF q
    <2> QED BY <1>1, <2>1 DEF HistoryOk
  <1>3. /\ r \in RunRec /\ r.via = q[Len(q)].via /\ r.status = status /\ r.finished = clock
        /\ status # "active"
    BY <1>2 DEF RunRec, Resolved
  <1>4. runs' = [runs EXCEPT ![d] = p]
    BY DEF Typed, EndRun
  <1> HIDE DEF r
  <1>5. /\ p \in Seq(RunRec) /\ HistoryOk(p) /\ p # << >> /\ p[Len(p)] = r
        /\ Triggered(p) = Triggered(q)
    BY <1>1, <1>2, <1>3, LastRunSet DEF LatestRun
  <1> HIDE DEF p
  <1>6. \A e \in Docs : runs[e]' = IF e = d THEN p ELSE runs[e]
    BY <1>4 DEF Typed
  <1>7. runs' \in [Docs -> Seq(RunRec)] /\ \A e \in Docs : HistoryOk(runs[e]')
    BY <1>4, <1>5, <1>6 DEF Typed
  <1>8. \A m \in Int : m <= clock => Answered(p, m)
    BY <1>2, <1>3, <1>5 DEF Answered
  <1>9. /\ row' \in [Docs -> RowRec] /\ \A e \in Docs : row[e]'.tags = row[e].tags
    <2> DEFINE st == [s \in Stages |-> IF s \in LatestRun(d).stages THEN status ELSE row[d].status[s]]
    <2>1. st \in [Stages -> {"unknown", "failed"} \cup Resolved]
      BY DEF Typed, RowRec, Resolved
    <2>2. row' = [row EXCEPT ![d] = [row[d] EXCEPT !.status = st]]
      BY DEF EndRun, Typed
    <2>3. row[d] \in RowRec /\ row \in [Docs -> RowRec]
      BY DEF Typed
    <2> HIDE DEF st
    <2> QED BY <2>1, <2>2, <2>3 DEF RowRec
  <1> DEFINE n == IF \E x \in Pollers : call[x].pc = "create" /\ d \in call[x].todo THEN 1 ELSE 0
  <1>10. raced' = [raced EXCEPT ![d] = @ + n]
    BY DEF EndRun
  <1>11. UNCHANGED <<clock, skew, archive, retagged, outlasted, cursor, call>>
    BY DEF EndRun, syncVars
  <1>12. raced' \in [Docs -> Nat] /\ \A e \in Docs : raced[e]' = raced[e] + IF e = d THEN n ELSE 0
    BY <1>10 DEF Typed
  <1>13. Typed'
    BY <1>7, <1>9, <1>11, <1>12 DEF Typed
  <1>14. Fresh'
    BY <1>9, <1>11, FreshKept
  <1>15. Credit'
    <2> SUFFICES ASSUME skew =< 0, NEW e \in Docs, NEW c \in Pollers
                 PROVE  Credited(e, runs[e]', archive[e], call[c], retagged[e] + raced[e]', clock)
      BY <1>11 DEF Credit
    <2> DEFINE w == call[c]
    <2>1. Credited(e, runs[e], archive[e], w, retagged[e] + raced[e], clock)
      BY DEF Credit
    <2>2. /\ CallOk(w) /\ archive[e].modified \in Int /\ raced[e] \in Nat
          /\ raced[e]' \in Nat /\ retagged[e] \in Nat
      <3>1. c \in Callers
        BY DEF Callers
      <3>2. CallOk(w) /\ archive[e] \in DocRec /\ raced[e] \in Nat /\ retagged[e] \in Nat
        BY <3>1 DEF Typed
      <3> QED BY <3>2, <1>12 DEF DocRec
    <2>3. CASE e # d
      <3>1. runs[e]' = runs[e] /\ raced[e]' = raced[e]
        BY <2>3, <1>6, <1>12 DEF Typed
      <3> QED BY <3>1, <2>1
    <2>4. CASE e = d
      <3>1. runs[e]' = p /\ raced[e]' = raced[e] + n
        BY <2>4, <1>6, <1>12
      <3>2. Triggered(q) \in Nat
        BY <1>1, TriggeredNat
      <3>3. \A f \in DOMAIN w.snap : w.pc \in {"sync", "lookup"} => w.snap[f].modified \in Int
        BY <2>2 DEF CallOk, DocRec
      <3> DEFINE h == retagged[e] + raced[e]
                 b == retagged[e] + raced[e]'
      <3>4. h \in Nat /\ b = h + n
        <4>1. n \in Nat
          OBVIOUS
        <4> HIDE DEF n
        <4> QED BY <4>1, <3>1, <2>2
      <3>11. n \in Nat /\ (w.pc = "create" /\ d \in w.todo => n = 1)
        OBVIOUS
      <3>5. Credited(d, q, archive[d], w, h, clock)
        BY <2>1, <2>4
      <3> HIDE DEF h, b, q, w, n
      <3>6. Triggered(p) <= b
        BY <3>2, <3>4, <3>5, <3>11, <1>5 DEF Credited
      <3>7. archive[d].modified <= clock /\ Answered(p, archive[d].modified)
        BY <2>2, <2>4, <3>5, <1>8 DEF Credited
      <3>8. w.pc \in {"sync", "lookup"} /\ d \in DOMAIN w.snap =>
              w.snap[d].modified <= clock /\ Answered(p, w.snap[d].modified)
        BY <3>3, <3>5, <1>8 DEF Credited
      <3>9. w.pc = "create" /\ d \in w.todo => Triggered(p) < b
        BY <3>2, <3>4, <3>5, <3>11, <1>5 DEF Credited
      <3>10. Credited(d, p, archive[d], w, b, clock)
        BY <3>6, <3>7, <3>8, <3>9 DEF Credited
      <3> USE DEF b, w
      <3> QED BY <3>1, <3>10, <2>4
    <2> QED BY <2>3, <2>4
  <1> QED BY <1>13, <1>14, <1>15

(* Steps that change at most the flag of a row: the reconciliation's.      *)
LEMMA FlagKept ==
  ASSUME IntakeInv, row' \in [Docs -> RowRec], \A d \in Docs : row[d]'.tags = row[d].tags,
         UNCHANGED <<clock, skew, archive, runs, cursor, call, retagged, raced, outlasted>>
  PROVE  IntakeInv'
  <1>1. Typed'
    BY DEF IntakeInv, Typed
  <1>2. Fresh'
    BY FreshKept DEF IntakeInv
  <1>3. PollsKept /\ clock' \in Int /\ clock' >= clock
    BY CallsSame DEF IntakeInv, Typed
  <1>4. Credit'
    BY <1>3, CreditKept, RunsSame DEF IntakeInv
  <1> QED BY <1>1, <1>2, <1>4 DEF IntakeInv

LEMMA FlagSet ==
  ASSUME Typed, NEW d \in Docs, NEW full \in BOOLEAN, row' = [row EXCEPT ![d].full = full]
  PROVE  row' \in [Docs -> RowRec] /\ \A e \in Docs : row[e]'.tags = row[e].tags
  BY ZenonT(40) DEF Typed, RowRec

LEMMA ReconcileKept ==
  ASSUME IntakeInv, StartReconcile \/ ListReconcile \/ EndReconcile \/ DropReconcile
  PROVE  IntakeInv'
  <1>1. UNCHANGED <<clock, skew, archive, row, runs, cursor, call, retagged, raced, outlasted>>
    BY DEF StartReconcile, ListReconcile, EndReconcile, DropReconcile
  <1>2. row' \in [Docs -> RowRec] /\ \A d \in Docs : row[d]'.tags = row[d].tags
    BY <1>1 DEF IntakeInv, Typed
  <1> QED BY <1>1, <1>2, FlagKept

LEMMA ReconcileDocKept ==
  ASSUME IntakeInv, NEW d \in Docs,
         Reserve(d) \/ WriteFullTag(d) \/ FailWrite(d) \/ Release(d) \/ RecordTag(d)
  PROVE  IntakeInv'
  <1> USE DEF IntakeInv
  <1>1. ASSUME NEW full \in BOOLEAN, row' = row \/ row' = [row EXCEPT ![d].full = full],
               UNCHANGED <<clock, skew, archive, runs, cursor, call, retagged, raced, outlasted>>
        PROVE  IntakeInv'
    <2>1. row' \in [Docs -> RowRec] /\ \A e \in Docs : row[e]'.tags = row[e].tags
      BY <1>1, FlagSet DEF Typed
    <2> QED BY <2>1, <1>1, FlagKept
  <1>2. CASE Reserve(d)
    <2>1. /\ row' = row \/ row' = [row EXCEPT ![d].full = TRUE]
          /\ UNCHANGED <<clock, skew, archive, runs, cursor, call, retagged, raced, outlasted>>
      BY <1>2 DEF Reserve
    <2> QED BY <2>1, <1>1
  <1>3. CASE WriteFullTag(d)
    <2>1. /\ Change(d, archive[d].tags \cup {ProcessedTag})
          /\ UNCHANGED <<clock, skew, row, runs, raced, cursor, call>>
      BY <1>3 DEF WriteFullTag
    <2> QED BY <2>1, WriteFullTagKept
  <1>4. CASE FailWrite(d)
    <2>1. UNCHANGED <<clock, skew, row, runs, raced, cursor, call>>
      BY <1>4 DEF FailWrite
    <2>2. CASE Change(d, archive[d].tags \cup {ProcessedTag})
      BY <2>1, <2>2, WriteFullTagKept
    <2>3. CASE UNCHANGED <<archive, retagged, outlasted>>
      BY <2>1, <2>3, <1>1
    <2> QED BY <2>2, <2>3, <1>4 DEF FailWrite
  <1>5. CASE Release(d)
    <2>1. /\ row' = [row EXCEPT ![d].full = FALSE]
          /\ UNCHANGED <<clock, skew, archive, runs, cursor, call, retagged, raced, outlasted>>
      BY <1>5 DEF Release
    <2> QED BY <2>1, <1>1
  <1>6. CASE RecordTag(d)
    <2>1. /\ row' = [row EXCEPT ![d].full = TRUE]
          /\ UNCHANGED <<clock, skew, archive, runs, cursor, call, retagged, raced, outlasted>>
      BY <1>6 DEF RecordTag
    <2> QED BY <2>1, <1>1
  <1> QED BY <1>2, <1>3, <1>4, <1>5, <1>6

-----------------------------------------------------------------------------
(* The syncs and the polls.                                                *)

LEMMA CallTyped ==
  ASSUME Typed, NEW c \in Callers, NEW k, CallOk(k), k.start <= clock,
         c \in Requests => RequestOk(k), call' = [call EXCEPT ![c] = k]
  PROVE  /\ call' = [x \in Callers |-> call'[x]]
         /\ \A x \in Callers : CallOk(call[x]') /\ call[x]'.start <= clock
         /\ \A q \in Requests : RequestOk(call[q]')
         /\ call[c]' = k /\ \A x \in Callers : x # c => call[x]' = call[x]
  BY DEF Typed, Callers

(* A call with some of its fields set anew is again a record of its six fields. *)
CallsWith(pc, start, since, left, snap, todo) ==
  [pc : {pc}, start : {start}, since : {since}, left : {left}, snap : {snap}, todo : {todo}]

LEMMA CallsWithOk ==
  ASSUME NEW w, CallOk(w)
  PROVE  w \in CallsWith(w.pc, w.start, w.since, w.left, w.snap, w.todo)
  BY DEF CallOk, CallsWith

LEMMA CallsWithOne ==
  ASSUME NEW a, NEW b, NEW c, NEW d, NEW e, NEW f, NEW x \in CallsWith(a, b, c, d, e, f)
  PROVE  x = [pc |-> a, start |-> b, since |-> c, left |-> d, snap |-> e, todo |-> f]
  BY DEF CallsWith

LEMMA NoSyncOk ==
  /\ CallOk(NoSync) /\ RequestOk(NoSync) /\ NoSync.pc = "idle"
  /\ \A t \in Nat : NoSync.start <= t
  BY DEF CallOk, RequestOk, NoSync

(* A step of one call that changes nothing else. *)
LEMMA CallReplaced ==
  ASSUME IntakeInv, NEW c \in Callers, NEW k, CallOk(k), k.start <= clock,
         c \in Requests => RequestOk(k), call' = [call EXCEPT ![c] = k],
         PollKept(k, call[c]),
         Covered => \A d \in Docs : CallFresh(d, row[d], archive[d], outlasted, k, skew),
         UNCHANGED <<clock, skew, archive, row, runs, cursor, retagged, raced, outlasted>>
  PROVE  IntakeInv'
  <1>1. /\ call' = [x \in Callers |-> call'[x]]
        /\ \A x \in Callers : CallOk(call[x]') /\ call[x]'.start <= clock
        /\ \A q \in Requests : RequestOk(call[q]')
        /\ call[c]' = k /\ \A x \in Callers : x # c => call[x]' = call[x]
    BY CallTyped DEF IntakeInv
  <1>2. Typed'
    BY <1>1 DEF IntakeInv, Typed
  <1>3. Fresh'
    BY <1>1 DEF IntakeInv, Fresh, Covered
  <1>4. PollsKept /\ clock' \in Int /\ clock' >= clock
    BY <1>1 DEF PollsKept, PollKept, IntakeInv, Typed, Callers
  <1>5. Credit'
    BY <1>4, CreditKept, RunsSame DEF IntakeInv
  <1> QED BY <1>2, <1>3, <1>5 DEF IntakeInv

LEMMA DropKept ==
  ASSUME IntakeInv, NEW c \in Callers, Drop(c)
  PROVE  IntakeInv'
  <1>1. /\ call' = [call EXCEPT ![c] = NoSync]
        /\ UNCHANGED <<clock, skew, archive, row, runs, cursor, retagged, raced, outlasted>>
    BY DEF Drop
  <1>2. CallOk(NoSync) /\ RequestOk(NoSync) /\ NoSync.pc = "idle" /\ NoSync.start <= clock
    BY NoSyncOk, SkewBound DEF IntakeInv
  <1> HIDE DEF NoSync
  <1>3. /\ PollKept(NoSync, call[c])
        /\ \A d \in Docs : CallFresh(d, row[d], archive[d], outlasted, NoSync, skew)
    BY <1>2 DEF PollKept, CallFresh
  <1> QED BY <1>1, <1>2, <1>3, CallReplaced

LEMMA StartSyncKept ==
  ASSUME IntakeInv, NEW c \in Callers, StartSync(c)
  PROVE  IntakeInv'
  <1> DEFINE k == [NoSync EXCEPT !.pc = "read", !.start = clock]
  <1>1. /\ call' = [call EXCEPT ![c] = k]
        /\ UNCHANGED <<clock, skew, archive, row, runs, cursor, retagged, raced, outlasted>>
    BY DEF StartSync
  <1>2. k = [pc |-> "read", start |-> clock, since |-> Unset, left |-> {}, snap |-> << >>, todo |-> {}]
    <2>1. NoSync \in CallsWith("idle", 0, Unset, {}, << >>, {})
      BY DEF NoSync, CallsWith
    <2> HIDE DEF NoSync
    <2>2. k \in CallsWith("read", clock, Unset, {}, << >>, {})
      BY <2>1 DEF CallsWith
    <2> QED BY <2>2, CallsWithOne
  <1>3. clock \in Nat
    BY SkewBound DEF IntakeInv
  <1> HIDE DEF k
  <1>4. CallOk(k) /\ RequestOk(k) /\ k.start <= clock /\ k.pc = "read"
    BY <1>2, <1>3 DEF CallOk, RequestOk
  <1>5. /\ PollKept(k, call[c])
        /\ \A d \in Docs : CallFresh(d, row[d], archive[d], outlasted, k, skew)
    BY <1>4 DEF PollKept, CallFresh
  <1> QED BY <1>1, <1>4, <1>5, CallReplaced

(* A call that is about to list everything from a moment that is not past the edits
   it has to list. *)
LEMMA ListingKept ==
  ASSUME IntakeInv, NEW c \in Callers, NEW since \in {Unset} \cup Int,
         call' = [call EXCEPT ![c] = Listing(call[c].start, since)],
         Covered => \A d \in Docs :
           row[d].tags # archive[d].tags /\ d \notin outlasted =>
             since = Unset \/ archive[d].modified > since,
         UNCHANGED <<clock, skew, archive, row, runs, cursor, retagged, raced, outlasted>>
  PROVE  IntakeInv'
  <1> DEFINE k == Listing(call[c].start, since)
  <1>1. call[c].start \in Nat /\ call[c].start <= clock
    BY DEF IntakeInv, Typed, CallOk
  <1>2. k = [pc |-> "sync", start |-> call[c].start, since |-> since, left |-> Docs,
             snap |-> << >>, todo |-> {}]
    BY DEF Listing
  <1>3. DOMAIN << >> = {}
    OBVIOUS
  <1> HIDE DEF k
  <1>4. CallOk(k) /\ RequestOk(k) /\ k.start <= clock
    BY <1>1, <1>2, <1>3 DEF CallOk, RequestOk
  <1>5. PollKept(k, call[c])
    BY <1>2, <1>3 DEF PollKept
  <1>6. Covered => \A d \in Docs : CallFresh(d, row[d], archive[d], outlasted, k, skew)
    BY <1>2 DEF CallFresh
  <1>7. call' = [call EXCEPT ![c] = k]
    BY DEF k
  <1> QED BY <1>4, <1>5, <1>6, <1>7, CallReplaced

(* The cursor is past no edit that is missing in the inventory. *)
LEMMA ReadCursorKept ==
  ASSUME IntakeInv, NEW c \in Callers, ReadCursor(c)
  PROVE  IntakeInv'
  <1>1. /\ call' = [call EXCEPT ![c] = Listing(call[c].start, Since)]
        /\ UNCHANGED <<clock, skew, archive, row, runs, cursor, retagged, raced, outlasted>>
    BY DEF ReadCursor, IntakeInv, Typed
  <1>2. /\ Since \in {Unset} \cup Int
        /\ Since = Unset \/ (cursor # Unset /\ cursor \in Int /\ Since = cursor - Overlap)
    BY SkewBound DEF Since, IntakeInv, Typed
  <1>3. Covered => \A d \in Docs :
          row[d].tags # archive[d].tags /\ d \notin outlasted =>
            Since = Unset \/ archive[d].modified > Since
    BY <1>2 DEF IntakeInv, Fresh, RowFresh
  <1> QED BY <1>1, <1>2, <1>3, ListingKept

LEMMA ListAllKept ==
  ASSUME IntakeInv, NEW c \in Callers, ListAll(c)
  PROVE  IntakeInv'
  <1>1. /\ call' = [call EXCEPT ![c] = Listing(call[c].start, Unset)]
        /\ UNCHANGED <<clock, skew, archive, row, runs, cursor, retagged, raced, outlasted>>
    BY DEF ListAll, IntakeInv, Typed
  <1> QED BY <1>1, ListingKept

LEMMA ListPageKept ==
  ASSUME IntakeInv, NEW c \in Callers, NEW d \in Docs, ListPage(c, d)
  PROVE  IntakeInv'
  <1> USE DEF IntakeInv
  <1> DEFINE w == call[c]
             T == w.todo \cup ({d} \cap Listed(w.since))
             S == [e \in T |-> IF e = d THEN archive[d] ELSE w.snap[e]]
             k == [pc |-> "sync", start |-> w.start, since |-> w.since, left |-> w.left \ {d},
                   snap |-> S, todo |-> T]
  <1>1. /\ w.pc = "sync" /\ d \in w.left
        /\ UNCHANGED <<clock, skew, archive, row, runs, cursor, retagged, raced, outlasted>>
    BY DEF ListPage
  <1>2. CallOk(w) /\ w.start <= clock
    BY DEF Typed
  <1>3. call' = [call EXCEPT ![c] = k]
    <2>1. call' = [call EXCEPT ![c] = [w EXCEPT !.left = w.left \ {d}, !.todo = T, !.snap = S]]
      BY DEF ListPage, Typed
    <2>2. [w EXCEPT !.left = w.left \ {d}, !.todo = T, !.snap = S] = k
      <3> HIDE DEF T, S
      <3>1. w \in CallsWith(w.pc, w.start, w.since, w.left, w.snap, w.todo)
        BY <1>2, CallsWithOk
      <3>2. [w EXCEPT !.left = w.left \ {d}, !.todo = T, !.snap = S]
              \in CallsWith(w.pc, w.start, w.since, w.left \ {d}, S, T)
        BY <3>1 DEF CallsWith
      <3> QED BY <3>2, <1>1, CallsWithOne
    <2> QED BY <2>1, <2>2
  <1>4. T \subseteq Docs /\ \A e \in T : S[e] \in DocRec
    <2>1. w.todo \subseteq Docs /\ w.todo \subseteq DOMAIN w.snap /\ \A e \in w.todo : w.snap[e] \in DocRec
      BY <1>1, <1>2 DEF CallOk
    <2> QED BY <2>1 DEF Typed
  <1>5. /\ k.pc = "sync" /\ k.start = w.start /\ k.since = w.since /\ k.left = w.left \ {d}
        /\ k.todo = T /\ k.snap = S /\ DOMAIN S = T
        /\ \A e \in T : S[e] = IF e = d THEN archive[d] ELSE w.snap[e]
        /\ \A e : e # d => (e \in T <=> e \in w.todo)
        /\ d \notin T => d \notin Listed(w.since)
    OBVIOUS
  <1>6. k = [pc |-> k.pc, start |-> k.start, since |-> k.since, left |-> k.left,
             snap |-> k.snap, todo |-> k.todo]
    OBVIOUS
  <1> HIDE DEF k, S, T
  <1>7. CallOk(k) /\ RequestOk(k) /\ k.start <= clock
    BY <1>1, <1>2, <1>4, <1>5, <1>6 DEF CallOk, RequestOk
  <1>8. /\ call' = [x \in Callers |-> call'[x]]
        /\ \A x \in Callers : CallOk(call[x]') /\ call[x]'.start <= clock
        /\ \A q \in Requests : RequestOk(call[q]')
        /\ call[c]' = k /\ \A x \in Callers : x # c => call[x]' = call[x]
    BY <1>3, <1>7, CallTyped
  <1>9. Typed'
    BY <1>1, <1>8 DEF Typed
  <1>10. Fresh'
    <2> SUFFICES ASSUME Covered, NEW e \in Docs
                 PROVE  CallFresh(e, row[e], archive[e], outlasted, k, skew)
      BY <1>1, <1>8 DEF Fresh, Covered
    <2>1. CallFresh(e, row[e], archive[e], outlasted, w, skew)
      BY DEF Fresh
    <2>2. CASE e # d
      BY <2>1, <2>2, <1>1, <1>5 DEF CallFresh
    <2>3. CASE e = d /\ d \in T
      <3>1. k.snap[d] = archive[d]
        BY <2>3, <1>5
      <3> QED BY <3>1, <2>3, <1>5 DEF CallFresh
    <2>4. CASE e = d /\ d \notin T
      <3>1. w.since # Unset /\ ~(archive[d].modified > w.since)
        BY <2>4, <1>5 DEF Listed
      <3> QED BY <3>1, <2>1, <2>4, <1>1, <1>5 DEF CallFresh
    <2> QED BY <2>2, <2>3, <2>4
  <1>11. Credit'
    <2> SUFFICES ASSUME skew =< 0, NEW e \in Docs, NEW p \in Pollers
                 PROVE  Credited(e, runs[e], archive[e], call[p]', retagged[e] + raced[e], clock)
      BY <1>1 DEF Credit
    <2>1. Credited(e, runs[e], archive[e], call[p], retagged[e] + raced[e], clock)
      BY DEF Credit
    <2>2. CASE p # c
      BY <2>1, <2>2, <1>8 DEF Callers
    <2>3. CASE p = c
      <3>1. w.todo \subseteq DOMAIN w.snap
        BY <1>1, <1>2 DEF CallOk
      <3> QED BY <3>1, <2>1, <2>3, <1>1, <1>5, <1>8 DEF Credited
    <2> QED BY <2>2, <2>3
  <1> QED BY <1>9, <1>10, <1>11

(* Rows that a sync stores agree with the documents, or are known to be outdated, or the
   documents changed so late that no cursor and no sync in progress is past it. *)
LEMMA Stored ==
  ASSUME Typed, Fresh, NEW c \in Callers, Fetched(c), NEW S, S \subseteq call[c].todo,
         Store(call[c], S)
  PROVE  /\ row' \in [Docs -> RowRec]
         /\ \A d \in Docs \ S : row[d]' = row[d] /\ (d \in outlasted' <=> d \in outlasted)
         /\ Covered => \A d \in S : \/ row[d]'.tags = archive[d].tags
                                    \/ d \in outlasted'
                                    \/ archive[d].modified > clock - Overlap
  <1> DEFINE k == call[c]
  <1>1. /\ CallOk(k) /\ k.pc = "sync" /\ k.start \in Int
        /\ clock \in Int /\ skew \in Int /\ Overlap \in Int
    <2>1. CallOk(k) /\ k.pc = "sync"
      BY DEF Typed, Fetched
    <2> QED BY <2>1, SkewBound DEF CallOk
  <1>2. S \subseteq Docs /\ S \subseteq k.todo /\ \A d \in S : k.snap[d] \in DocRec
    BY <1>1 DEF CallOk
  <1>3. row' = [d \in Docs |-> IF d \in S THEN Upserted(row[d], k.snap[d]) ELSE row[d]]
    BY DEF Store
  <1>4. \A d \in S : Upserted(row[d], k.snap[d]) \in RowRec
                     /\ Upserted(row[d], k.snap[d]).tags = k.snap[d].tags
    BY <1>2, UpsertedRow DEF Typed
  <1>5. /\ row' \in [Docs -> RowRec]
        /\ \A d \in Docs \ S : row[d]' = row[d]
        /\ \A d \in S : row[d]'.tags = k.snap[d].tags
    BY <1>2, <1>3, <1>4 DEF Typed
  <1>6. \A d \in Docs \ S : d \in outlasted' <=> d \in outlasted
    BY DEF Store
  <1>7. ASSUME Covered, NEW d \in S, row[d]'.tags # archive[d].tags, d \notin outlasted'
        PROVE  archive[d].modified > clock - Overlap
    <2>1. k.snap[d].tags # archive[d].tags
      BY <1>5, <1>7
    <2>2. ~(clock - k.start >= Overlap + skew)
      BY <2>1, <1>7 DEF Store, Outdated
    <2>3. archive[d].modified >= k.start + skew /\ archive[d].modified \in Int
      BY <2>1, <1>1, <1>2, <1>7 DEF Fresh, CallFresh, Typed, DocRec
    <2> QED BY <2>2, <2>3, <1>1
  <1> QED BY <1>5, <1>6, <1>7

(* So the store leaves no cursor and no other call with a missing edit. *)
LEMMA StoredFresh ==
  ASSUME Typed, Fresh, Covered, NEW S, UNCHANGED <<clock, skew, archive>>,
         NEW d \in Docs,
         d \notin S => row[d]' = row[d] /\ (d \in outlasted' <=> d \in outlasted),
         d \in S => \/ row[d]'.tags = archive[d].tags
                    \/ d \in outlasted'
                    \/ archive[d].modified > clock - Overlap
  PROVE  /\ RowFresh(d, row[d]', archive[d], outlasted', cursor)
         /\ \A x \in Callers : CallFresh(d, row[d]', archive[d], outlasted', call[x], skew)
  <1>1. /\ RowFresh(d, row[d], archive[d], outlasted, cursor)
        /\ \A x \in Callers : CallFresh(d, row[d], archive[d], outlasted, call[x], skew)
    BY DEF Fresh
  <1>2. /\ clock \in Int /\ Overlap \in Int /\ archive[d].modified \in Int
        /\ cursor # Unset => cursor \in Int /\ cursor <= clock
        /\ \A x \in Callers : call[x].start \in Int /\ call[x].start <= clock
    BY SkewBound DEF Typed, CallOk, DocRec
  <1>3. CASE d \notin S
    BY <1>1, <1>3 DEF RowFresh, CallFresh
  <1>4. CASE row[d]'.tags = archive[d].tags \/ d \in outlasted'
    BY <1>1, <1>4 DEF RowFresh, CallFresh
  <1>5. CASE archive[d].modified > clock - Overlap
    <2>1. RowFresh(d, row[d]', archive[d], outlasted', cursor)
      BY <1>2, <1>5 DEF RowFresh
    <2>2. ASSUME NEW x \in Callers
          PROVE  CallFresh(d, row[d]', archive[d], outlasted', call[x], skew)
      <3>1. archive[d].modified > call[x].start - Overlap
        BY <1>2, <1>5
      <3>2. CallFresh(d, row[d], archive[d], outlasted, call[x], skew)
        BY <1>1
      <3> QED BY <3>1, <3>2 DEF CallFresh
    <2> QED BY <2>1, <2>2
  <1> QED BY <1>3, <1>4, <1>5

LEMMA UpsertBatchKept ==
  ASSUME IntakeInv, NEW p \in Pollers, UpsertBatch(p)
  PROVE  IntakeInv'
  <1> USE DEF IntakeInv
  <1> DEFINE w == call[p]
             d == Lowest(w.todo)
             k == [w EXCEPT !.todo = @ \ {d}]
  <1>1. p \in Callers /\ p \notin Requests
    BY IntakeAssumption DEF Callers
  <1>2. /\ Fetched(p) /\ w.pc = "sync" /\ w.left = {} /\ w.todo # {} /\ Store(w, {d})
        /\ UNCHANGED <<clock, skew, archive, runs, cursor, retagged, raced>>
    BY DEF UpsertBatch, Fetched
  <1>3. CallOk(w) /\ w.start <= clock
    BY <1>1 DEF Typed
  <1>4. w.todo \subseteq Docs /\ w.todo \subseteq Nat
    BY <1>2, <1>3, IntakeAssumption DEF CallOk
  <1>5. d \in w.todo /\ d \in Docs
    BY <1>2, <1>4, LowestOf
  <1>6. call' = [call EXCEPT ![p] = k]
    BY <1>1 DEF UpsertBatch, Typed
  <1>7. k = [pc |-> w.pc, start |-> w.start, since |-> w.since, left |-> w.left,
             snap |-> w.snap, todo |-> w.todo \ {d}]
    BY <1>3 DEF CallOk
  <1> HIDE DEF k, d
  <1>8. CallOk(k) /\ k.start <= clock
    BY <1>2, <1>3, <1>7 DEF CallOk
  <1>9. /\ call' = [x \in Callers |-> call'[x]]
        /\ \A x \in Callers : CallOk(call[x]') /\ call[x]'.start <= clock
        /\ \A q \in Requests : RequestOk(call[q]')
        /\ call[p]' = k /\ \A x \in Callers : x # p => call[x]' = call[x]
    BY <1>1, <1>6, <1>8, CallTyped
  <1>10. {d} \subseteq w.todo
    BY <1>5
  <1>11. /\ row' \in [Docs -> RowRec]
         /\ \A e \in Docs \ {d} : row[e]' = row[e] /\ (e \in outlasted' <=> e \in outlasted)
         /\ Covered => \A e \in {d} : \/ row[e]'.tags = archive[e].tags
                                      \/ e \in outlasted'
                                      \/ archive[e].modified > clock - Overlap
    BY <1>1, <1>2, <1>10, Stored
  <1>12. Typed'
    BY <1>2, <1>9, <1>11 DEF Typed
  <1>13. Fresh'
    <2> SUFFICES ASSUME Covered, NEW e \in Docs
                 PROVE  /\ RowFresh(e, row[e]', archive[e], outlasted', cursor)
                        /\ \A x \in Callers :
                             CallFresh(e, row[e]', archive[e], outlasted', call[x]', skew)
      BY <1>2 DEF Fresh, Covered
    <2>1. /\ RowFresh(e, row[e]', archive[e], outlasted', cursor)
          /\ \A x \in Callers : CallFresh(e, row[e]', archive[e], outlasted', call[x], skew)
      <3>1. e \notin {d} => row[e]' = row[e] /\ (e \in outlasted' <=> e \in outlasted)
        BY <1>11
      <3>2. e \in {d} => \/ row[e]'.tags = archive[e].tags
                         \/ e \in outlasted'
                         \/ archive[e].modified > clock - Overlap
        BY <1>11
      <3> QED BY <3>1, <3>2, <1>2, StoredFresh
    <2>2. CallFresh(e, row[e]', archive[e], outlasted', w, skew)
      BY <2>1, <1>1
    <2>3. CallFresh(e, row[e]', archive[e], outlasted', k, skew)
      <3>1. CASE e # d
        BY <2>2, <3>1, <1>7 DEF CallFresh
      <3>2. CASE e = d
        <4>1. \/ row[e]'.tags = archive[e].tags \/ e \in outlasted'
              \/ archive[e].modified > clock - Overlap
          BY <3>2, <1>11
        <4>2. archive[e].modified > clock - Overlap => archive[e].modified > k.start - Overlap
          <5>1. archive[e] \in DocRec
            BY DEF Typed
          <5>2. /\ clock \in Int /\ Overlap \in Int /\ archive[e].modified \in Int
                /\ k.start \in Int
            BY <5>1, <1>8, SkewBound DEF DocRec, CallOk
          <5> QED BY <5>2, <1>8
        <4>3. e \notin k.todo /\ e \notin k.left
          BY <3>2, <1>2, <1>7
        <4> QED BY <4>1, <4>2, <4>3 DEF CallFresh
      <3> QED BY <3>1, <3>2
    <2> QED BY <2>1, <2>3, <1>9
  <1>14. PollsKept /\ clock' \in Int /\ clock' >= clock
    <2>1. PollKept(k, w)
      BY <1>2, <1>7 DEF PollKept
    <2>2. \A x \in Pollers : call[x]' = IF x = p THEN k ELSE call[x]
      BY <1>9 DEF Callers
    <2>3. \A x \in Pollers : PollKept(call[x], call[x])
      BY DEF PollKept
    <2> QED BY <2>1, <2>2, <2>3, <1>2, SkewBound DEF PollsKept
  <1>15. Credit'
    BY <1>2, <1>14, CreditKept, RunsSame
  <1> QED BY <1>12, <1>13, <1>15

LEMMA AdvanceCursorKept ==
  ASSUME IntakeInv, NEW p \in Pollers, AdvanceCursor(p)
  PROVE  IntakeInv'
  <1> USE DEF IntakeInv
  <1> DEFINE w == call[p]
             k == [w EXCEPT !.pc = "lookup"]
  <1>1. p \in Callers /\ p \notin Requests
    BY IntakeAssumption DEF Callers
  <1>2. /\ w.pc = "sync" /\ w.left = {} /\ w.todo = {} /\ cursor' = w.start
        /\ UNCHANGED <<clock, skew, archive, row, runs, retagged, raced, outlasted>>
    BY DEF AdvanceCursor, NextCursor, Fetched
  <1>3. CallOk(w) /\ w.start <= clock /\ clock \in Int /\ w.start \in Nat
    BY <1>1 DEF Typed, CallOk
  <1>4. call' = [call EXCEPT ![p] = k]
    BY <1>1 DEF AdvanceCursor, Typed
  <1>5. k = [pc |-> "lookup", start |-> w.start, since |-> w.since, left |-> w.left,
             snap |-> w.snap, todo |-> w.todo]
    BY <1>3 DEF CallOk
  <1> HIDE DEF k
  <1>6. CallOk(k) /\ k.start <= clock
    BY <1>2, <1>3, <1>5 DEF CallOk
  <1>7. /\ call' = [x \in Callers |-> call'[x]]
        /\ \A x \in Callers : CallOk(call[x]') /\ call[x]'.start <= clock
        /\ \A q \in Requests : RequestOk(call[q]')
        /\ call[p]' = k /\ \A x \in Callers : x # p => call[x]' = call[x]
    BY <1>1, <1>4, <1>6, CallTyped
  <1>8. Fresh'
    <2> SUFFICES ASSUME Covered, NEW d \in Docs
                 PROVE  /\ RowFresh(d, row[d], archive[d], outlasted, w.start)
                        /\ \A x \in Callers :
                             CallFresh(d, row[d], archive[d], outlasted, call[x]', skew)
      BY <1>2 DEF Fresh, Covered
    <2>1. \A x \in Callers : CallFresh(d, row[d], archive[d], outlasted, call[x], skew)
      BY DEF Fresh
    <2>2. RowFresh(d, row[d], archive[d], outlasted, w.start)
      BY <2>1, <1>1, <1>2 DEF CallFresh, RowFresh
    <2>3. CallFresh(d, row[d], archive[d], outlasted, k, skew)
      BY <1>5 DEF CallFresh
    <2> QED BY <2>1, <2>2, <2>3, <1>7
  <1>9. cursor' \in 0..clock
    BY <1>2, <1>3
  <1>10. Typed'
    BY <1>2, <1>7, <1>9 DEF Typed
  <1>11. PollsKept /\ clock' \in Int /\ clock' >= clock
    <2>1. PollKept(k, w)
      BY <1>2, <1>5 DEF PollKept
    <2> QED BY <2>1, <1>2, <1>3, <1>7 DEF PollsKept, PollKept, Callers
  <1>12. Credit'
    BY <1>2, <1>11, CreditKept, RunsSame
  <1> QED BY <1>8, <1>10, <1>12

LEMMA CommitSyncKept ==
  ASSUME IntakeInv, NEW q \in Requests, CommitSync(q)
  PROVE  IntakeInv'
  <1> USE DEF IntakeInv
  <1> DEFINE w == call[q]
  <1>1. q \in Callers /\ q \notin Pollers
    BY IntakeAssumption DEF Callers
  <1>2. /\ Fetched(q) /\ w.pc = "sync" /\ w.left = {} /\ Store(w, w.todo)
        /\ cursor' = w.start /\ call' = [call EXCEPT ![q] = NoSync]
        /\ UNCHANGED <<clock, skew, archive, runs, retagged, raced>>
    BY DEF CommitSync, NextCursor, Fetched
  <1>3. w.start <= clock /\ clock \in Nat /\ w.start \in Nat
    BY <1>1, SkewBound DEF Typed, CallOk
  <1>4. CallOk(NoSync) /\ RequestOk(NoSync) /\ NoSync.pc = "idle" /\ NoSync.start <= clock
    BY <1>3, NoSyncOk
  <1> HIDE DEF NoSync
  <1>5. /\ call' = [x \in Callers |-> call'[x]]
        /\ \A x \in Callers : CallOk(call[x]') /\ call[x]'.start <= clock
        /\ \A x \in Requests : RequestOk(call[x]')
        /\ call[q]' = NoSync /\ \A x \in Callers : x # q => call[x]' = call[x]
    BY <1>1, <1>2, <1>4, CallTyped
  <1>6. /\ row' \in [Docs -> RowRec]
        /\ \A e \in Docs \ w.todo : row[e]' = row[e] /\ (e \in outlasted' <=> e \in outlasted)
        /\ Covered => \A e \in w.todo : \/ row[e]'.tags = archive[e].tags
                                        \/ e \in outlasted'
                                        \/ archive[e].modified > clock - Overlap
    BY <1>1, <1>2, Stored
  <1>7. Typed'
    BY <1>2, <1>3, <1>5, <1>6 DEF Typed
  <1>8. Fresh'
    <2> SUFFICES ASSUME Covered, NEW e \in Docs
                 PROVE  /\ RowFresh(e, row[e]', archive[e], outlasted', w.start)
                        /\ \A x \in Callers :
                             CallFresh(e, row[e]', archive[e], outlasted', call[x]', skew)
      BY <1>2 DEF Fresh, Covered
    <2>1. \A x \in Callers : CallFresh(e, row[e]', archive[e], outlasted', call[x], skew)
      <3>1. e \notin w.todo => row[e]' = row[e] /\ (e \in outlasted' <=> e \in outlasted)
        BY <1>6
      <3>2. e \in w.todo => \/ row[e]'.tags = archive[e].tags
                            \/ e \in outlasted'
                            \/ archive[e].modified > clock - Overlap
        BY <1>6
      <3> QED BY <3>1, <3>2, <1>2, StoredFresh
    <2>2. CallFresh(e, row[e]', archive[e], outlasted', NoSync, skew)
      BY <1>4 DEF CallFresh
    <2>3. RowFresh(e, row[e]', archive[e], outlasted', w.start)
      <3>1. CASE e \in w.todo
        <4>1. /\ clock \in Int /\ Overlap \in Int /\ archive[e].modified \in Int
          <5>1. archive[e] \in DocRec
            BY DEF Typed
          <5> QED BY <5>1, SkewBound DEF DocRec
        <4> QED BY <4>1, <3>1, <1>3, <1>6 DEF RowFresh
      <3>2. CASE e \notin w.todo
        BY <3>2, <2>1, <1>1, <1>2 DEF CallFresh, RowFresh
      <3> QED BY <3>1, <3>2
    <2> QED BY <2>1, <2>2, <2>3, <1>5
  <1>9. PollsKept /\ clock' \in Int /\ clock' >= clock
    BY <1>1, <1>2, <1>3, <1>5 DEF PollsKept, PollKept, Callers
  <1>10. Credit'
    BY <1>2, <1>9, CreditKept, RunsSame
  <1> QED BY <1>7, <1>8, <1>10

(* The lookup drops what a run has answered: every trigger left has a run to
   its credit, or its document is being worked on. *)
LEMMA LookupKept ==
  ASSUME IntakeInv, NEW p \in Pollers, Lookup(p)
  PROVE  IntakeInv'
  <1> USE DEF IntakeInv
  <1> DEFINE w == call[p]
             T == {d \in DOMAIN w.snap : Requested(w.snap[d].tags) # {} /\ ~Handled(d, w.snap[d])}
             k == [pc |-> "create", start |-> w.start, since |-> w.since, left |-> w.left, snap |-> w.snap, todo |-> T]
  <1>1. p \in Callers /\ p \notin Requests
    BY IntakeAssumption DEF Callers
  <1>3. CallOk(w) /\ w.start <= clock /\ clock \in Int
    BY <1>1 DEF Typed
  <1>2. /\ w.pc = "lookup" /\ UNCHANGED <<clock, skew, archive, row, runs, cursor, retagged, raced, outlasted>>
        /\ call' = [call EXCEPT ![p] = k]
    <2>1. /\ w.pc = "lookup" /\ UNCHANGED <<clock, skew, archive, row, runs, cursor, retagged, raced, outlasted>>
          /\ call' = [call EXCEPT ![p] = [w EXCEPT !.pc = "create", !.todo = T]]
      BY <1>1 DEF Lookup, Typed
    <2>2. [w EXCEPT !.pc = "create", !.todo = T] = k
      <3> HIDE DEF T
      <3>1. w \in CallsWith(w.pc, w.start, w.since, w.left, w.snap, w.todo)
        BY <1>3, CallsWithOk
      <3>2. [w EXCEPT !.pc = "create", !.todo = T]
              \in CallsWith("create", w.start, w.since, w.left, w.snap, T)
        BY <3>1 DEF CallsWith
      <3> QED BY <3>2, CallsWithOne
    <2> QED BY <2>1, <2>2
  <1>4. /\ k.pc = "create" /\ k.todo = T /\ k.snap = w.snap
        /\ T \subseteq DOMAIN w.snap /\ \A d \in T : Requested(w.snap[d].tags) # {} /\ ~Handled(d, w.snap[d])
    OBVIOUS
  <1>5. T \subseteq Docs /\ \A d \in DOMAIN w.snap : w.snap[d] \in DocRec
    BY <1>2, <1>3, <1>4 DEF CallOk
  <1>6. CallOk(k) /\ k.start <= clock
    <2> HIDE DEF T
    <2> QED BY <1>2, <1>3, <1>4, <1>5 DEF CallOk
  <1> HIDE DEF k, T
  <1>7. /\ call' = [x \in Callers |-> call'[x]]
        /\ \A x \in Callers : CallOk(call[x]') /\ call[x]'.start <= clock
        /\ \A q \in Requests : RequestOk(call[q]')
        /\ call[p]' = k /\ \A x \in Callers : x # p => call[x]' = call[x]
    BY <1>1, <1>2, <1>6, CallTyped
  <1>8. Typed'
    BY <1>2, <1>7 DEF Typed
  <1>9. Fresh'
    <2>1. \A x \in Callers : call[x]' = call[x] \/ call[x]'.pc # "sync"
      BY <1>4, <1>7
    <2> QED BY <1>2, <2>1, FreshKept
  <1>10. Credit'
    <2> SUFFICES ASSUME skew =< 0, NEW d \in Docs
                 PROVE  Credited(d, runs[d], archive[d], k, retagged[d] + raced[d], clock)
      BY <1>2, <1>7 DEF Credit, Callers
    <2>1. Credited(d, runs[d], archive[d], w, retagged[d] + raced[d], clock)
      BY DEF Credit
    <2>2. ASSUME d \in T PROVE Busy(runs[d]) \/ Triggered(runs[d]) < retagged[d] + raced[d]
      <3>1. Requested(w.snap[d].tags) # {} /\ ~Handled(d, w.snap[d]) /\ d \in DOMAIN w.snap
        BY <2>2, <1>4
      <3>2. Asks(w.snap[d])
        BY <3>1 DEF Requested, Asks, TriggerTags
      <3>3. Busy(runs[d]) \/ ~Answered(runs[d], w.snap[d].modified)
        BY <3>1 DEF Handled, Running, LatestRun, Busy, Answered
      <3> QED BY <2>1, <3>1, <3>2, <3>3, <1>2 DEF Credited
    <2> QED BY <2>1, <2>2, <1>4 DEF Credited
  <1> QED BY <1>8, <1>9, <1>10

LEMMA SelectKept ==
  ASSUME IntakeInv, NEW p \in Pollers, Select(p)
  PROVE  IntakeInv'
  <1> USE DEF IntakeInv
  <1> DEFINE w == call[p]
             P == Picked(Budget)
             k == [pc |-> "select", start |-> w.start, since |-> w.since, left |-> w.left,
                   snap |-> [d \in P |-> MissingStages(row[d])], todo |-> P]
  <1>1. p \in Callers /\ p \notin Requests
    BY IntakeAssumption DEF Callers
  <1>3. CallOk(w) /\ w.start <= clock
    BY <1>1 DEF Typed
  <1>2. /\ w.pc = "create"
        /\ UNCHANGED <<clock, skew, archive, row, runs, cursor, retagged, raced, outlasted>>
        /\ call' = [call EXCEPT ![p] = k] \/ call' = [call EXCEPT ![p] = NoSync]
    <2>1. /\ w.pc = "create"
          /\ UNCHANGED <<clock, skew, archive, row, runs, cursor, retagged, raced, outlasted>>
          /\ \/ call' = [call EXCEPT ![p] = [w EXCEPT !.pc = "select", !.todo = P,
                                                  !.snap = [d \in P |-> MissingStages(row[d])]]]
             \/ call' = [call EXCEPT ![p] = NoSync]
      BY <1>1 DEF Select, Typed
    <2>2. [w EXCEPT !.pc = "select", !.todo = P, !.snap = [d \in P |-> MissingStages(row[d])]] = k
      <3> DEFINE M == [d \in P |-> MissingStages(row[d])]
      <3> HIDE DEF P, M
      <3>1. w \in CallsWith(w.pc, w.start, w.since, w.left, w.snap, w.todo)
        BY <1>3, CallsWithOk
      <3>2. [w EXCEPT !.pc = "select", !.todo = P, !.snap = M]
              \in CallsWith("select", w.start, w.since, w.left, M, P)
        BY <3>1 DEF CallsWith
      <3>3. [w EXCEPT !.pc = "select", !.todo = P, !.snap = M] =
              [pc |-> "select", start |-> w.start, since |-> w.since, left |-> w.left,
               snap |-> M, todo |-> P]
        BY <3>2, CallsWithOne
      <3> USE DEF M
      <3> QED BY <3>3
    <2> QED BY <2>1, <2>2
  <1>4. P \subseteq Docs /\ \A d \in P : MissingStages(row[d]) # {} /\ MissingStages(row[d]) \subseteq Stages
    BY IntakeAssumption DEF Picked, Candidates, MissingStages
  <1>5. CallOk(k) /\ k.start <= clock /\ k.pc = "select"
    <2> HIDE DEF P
    <2> QED BY <1>2, <1>3, <1>4 DEF CallOk
  <1>6. CallOk(NoSync) /\ NoSync.start <= clock /\ NoSync.pc = "idle"
    BY NoSyncOk, SkewBound
  <1> HIDE DEF k, NoSync
  <1>7. PICK h \in {k, NoSync} : call' = [call EXCEPT ![p] = h]
    BY <1>2
  <1>8. CallOk(h) /\ h.start <= clock /\ h.pc \in {"idle", "select"}
    BY <1>5, <1>6
  <1>9. /\ PollKept(h, w)
        /\ \A d \in Docs : CallFresh(d, row[d], archive[d], outlasted, h, skew)
    BY <1>8 DEF PollKept, CallFresh
  <1> QED BY <1>1, <1>2, <1>7, <1>8, <1>9, CallReplaced

LEMMA QueueSelectedKept ==
  ASSUME IntakeInv, NEW p \in Pollers, QueueSelected(p)
  PROVE  IntakeInv'
  <1> USE DEF IntakeInv
  <1> DEFINE w == call[p]
  <1>1. p \in Callers /\ p \notin Requests
    BY IntakeAssumption DEF Callers
  <1>2. /\ w.pc = "select" /\ \A d \in w.todo : Room(d)
        /\ UNCHANGED <<clock, skew, archive, row, cursor, retagged, raced, outlasted>>
        /\ call' = [call EXCEPT ![p] = NoSync]
        /\ runs' = [d \in Docs |-> IF d \in w.todo
                      THEN EnsureRun(runs, d, "auto-selector", w.snap[d])[d] ELSE runs[d]]
    BY DEF QueueSelected
  <1>3. CallOk(w)
    BY <1>1 DEF Typed
  <1>4. ASSUME NEW d \in Docs
        PROVE  /\ runs[d]' \in Seq(RunRec) /\ HistoryOk(runs[d]')
               /\ RunKept(runs[d]', runs[d])
    <2>1. CASE d \notin w.todo
      <3>1. runs[d]' = runs[d]
        BY <2>1, <1>2
      <3> QED BY <3>1, RunSame DEF Typed
    <2>2. CASE d \in w.todo
      <3> DEFINE z == EnsureRun(runs, d, "auto-selector", w.snap[d])
      <3>1. w.snap[d] \in (SUBSET Stages) \ {{}} /\ Room(d)
        BY <2>2, <1>2, <1>3 DEF CallOk
      <3>2. /\ z = [runs EXCEPT ![d] = z[d]]
            /\ z[d] \in Seq(RunRec) /\ HistoryOk(z[d]) /\ Busy(z[d])
            /\ \/ Busy(runs[d]) /\ z[d] = runs[d]
               \/ /\ ~Busy(runs[d])
                  /\ Triggered(z[d]) = Triggered(runs[d]) + IF "auto-selector" = "trigger" THEN 1 ELSE 0
        BY <3>1, EnsuredRun
      <3>3. runs[d]' = z[d]
        BY <2>2, <1>2
      <3>4. Triggered(runs[d]) \in Nat
        BY TriggeredNat DEF Typed
      <3> HIDE DEF z
      <3> QED BY <3>2, <3>3, <3>4, RunStarted, RunSame
    <2> QED BY <2>1, <2>2
  <1>5. runs' \in [Docs -> Seq(RunRec)]
    BY <1>2, <1>4
  <1>6. /\ call' = [x \in Callers |-> call'[x]]
        /\ \A x \in Callers : CallOk(call[x]') /\ call[x]'.start <= clock
        /\ \A q \in Requests : RequestOk(call[q]')
        /\ call[p]' = NoSync /\ \A x \in Callers : x # p => call[x]' = call[x]
    BY <1>1, <1>2, NoSyncOk, SkewBound, CallTyped
  <1>7. NoSync.pc = "idle"
    BY DEF NoSync
  <1>8. Typed'
    BY <1>2, <1>4, <1>5, <1>6 DEF Typed
  <1>9. Fresh'
    <2>1. \A x \in Callers : call[x]' = call[x] \/ call[x]'.pc # "sync"
      BY <1>6, <1>7
    <2> QED BY <1>2, <2>1, FreshKept
  <1>10. PollsKept /\ clock' \in Int /\ clock' >= clock
    BY <1>2, <1>6, <1>7 DEF PollsKept, PollKept, Callers, Typed
  <1>11. Credit'
    BY <1>2, <1>4, <1>10, CreditKept
  <1> QED BY <1>8, <1>9, <1>11

(* The one step that spends a credit. *)
LEMMA CreateRunKept ==
  ASSUME IntakeInv, NEW p \in Pollers, NEW d \in Docs, CreateRun(p, d)
  PROVE  IntakeInv'
  <1> USE DEF IntakeInv
  <1> DEFINE w == call[p]
             k == [w EXCEPT !.todo = @ \ {d}]
             z == EnsureRun(runs, d, "trigger", Requested(w.snap[d].tags))
  <1>1. p \in Callers /\ p \notin Requests
    BY IntakeAssumption DEF Callers
  <1>2. /\ w.pc = "create" /\ d \in w.todo /\ Room(d) /\ runs' = z
        /\ UNCHANGED <<clock, skew, archive, row, cursor, retagged, raced, outlasted>>
    BY DEF CreateRun
  <1>3. CallOk(w) /\ w.start <= clock
    BY <1>1 DEF Typed
  <1>4. call' = [call EXCEPT ![p] = k]
    BY <1>1 DEF CreateRun, Typed
  <1>5. k = [pc |-> w.pc, start |-> w.start, since |-> w.since, left |-> w.left, snap |-> w.snap, todo |-> w.todo \ {d}]
    BY <1>3 DEF CallOk
  <1> HIDE DEF k
  <1>6. CallOk(k) /\ k.start <= clock
    BY <1>2, <1>3, <1>5 DEF CallOk
  <1>7. Requested(w.snap[d].tags) \in (SUBSET Stages) \ {{}}
    BY <1>2, <1>3 DEF CallOk, Requested
  <1>8. /\ z = [runs EXCEPT ![d] = z[d]]
        /\ z[d] \in Seq(RunRec) /\ HistoryOk(z[d]) /\ Busy(z[d])
        /\ \/ Busy(runs[d]) /\ z[d] = runs[d]
           \/ /\ ~Busy(runs[d])
              /\ Triggered(z[d]) = Triggered(runs[d]) + IF "trigger" = "trigger" THEN 1 ELSE 0
    BY <1>2, <1>7, EnsuredRun
  <1> HIDE DEF z
  <1>9. /\ call' = [x \in Callers |-> call'[x]]
        /\ \A x \in Callers : CallOk(call[x]') /\ call[x]'.start <= clock
        /\ \A q \in Requests : RequestOk(call[q]')
        /\ call[p]' = k /\ \A x \in Callers : x # p => call[x]' = call[x]
    BY <1>1, <1>4, <1>6, CallTyped
  <1>10. \A e \in Docs : runs[e]' = IF e = d THEN z[d] ELSE runs[e]
    BY <1>2, <1>8 DEF Typed
  <1>11. runs' \in [Docs -> Seq(RunRec)] /\ \A e \in Docs : HistoryOk(runs[e]')
    BY <1>2, <1>8, <1>10 DEF Typed
  <1>12. Typed'
    BY <1>2, <1>9, <1>11 DEF Typed
  <1>13. Fresh'
    <2>1. \A x \in Callers : call[x]' = call[x] \/ call[x]'.pc # "sync"
      BY <1>2, <1>5, <1>9
    <2> QED BY <1>2, <2>1, FreshKept
  <1>14. Credit'
    <2> SUFFICES ASSUME skew =< 0, NEW e \in Docs, NEW x \in Pollers
                 PROVE  Credited(e, runs[e]', archive[e], call[x]', retagged[e] + raced[e], clock)
      BY <1>2 DEF Credit
    <2>1. /\ Credited(e, runs[e], archive[e], w, retagged[e] + raced[e], clock)
          /\ Credited(e, runs[e], archive[e], call[x], retagged[e] + raced[e], clock)
          /\ call[x]' = IF x = p THEN k ELSE call[x]
      BY <1>9 DEF Credit, Callers
    <2>2. CASE e # d
      <3>1. runs[e]' = runs[e] /\ (e \in k.todo <=> e \in w.todo)
        BY <2>2, <1>5, <1>10
      <3> QED BY <3>1, <2>1, <1>2, <1>5 DEF Credited
    <2>3. CASE e = d
      <3>1. runs[e]' = z[d]
        BY <2>3, <1>10
      <3>2. Triggered(runs[d]) \in Nat /\ retagged[d] + raced[d] \in Nat
        BY TriggeredNat DEF Typed
      <3>3. Triggered(z[d]) <= retagged[d] + raced[d]
        BY <3>2, <2>1, <2>3, <1>2, <1>8 DEF Credited
      <3>4. Busy(z[d]) /\ \A m : Answered(z[d], m)
        BY <1>8 DEF Answered
      <3>5. d \notin k.todo /\ k.pc = "create"
        BY <1>2, <1>5
      <3>6. CASE x = p
        BY <3>1, <3>3, <3>4, <3>5, <3>6, <2>1, <2>3 DEF Credited
      <3>7. CASE x # p
        BY <3>1, <3>3, <3>4, <3>7, <2>1, <2>3 DEF Credited
      <3> QED BY <3>6, <3>7
    <2> QED BY <2>2, <2>3
  <1> QED BY <1>12, <1>13, <1>14

-----------------------------------------------------------------------------
LEMMA NextIntakeInv == IntakeInv /\ [IntakeNext]_intakeVars => IntakeInv'
  <1> SUFFICES ASSUME IntakeInv, [IntakeNext]_intakeVars PROVE IntakeInv'
    OBVIOUS
  <1>1. CASE ClockTick
    BY <1>1, TickKept
  <1>2. ASSUME NEW p \in Pollers, PollStep(p) PROVE IntakeInv'
    BY <1>2, UpsertBatchKept, AdvanceCursorKept, LookupKept, SelectKept, QueueSelectedKept,
       CreateRunKept DEF PollStep
  <1>3. ASSUME NEW q \in Requests, CommitSync(q) PROVE IntakeInv'
    BY <1>3, CommitSyncKept
  <1>4. CASE StartReconcile \/ ListReconcile \/ EndReconcile \/ DropReconcile
    BY <1>4, ReconcileKept
  <1>5. ASSUME NEW c \in Callers, SyncStep(c) PROVE IntakeInv'
    BY <1>5, StartSyncKept, ReadCursorKept, ListAllKept, ListPageKept, DropKept DEF SyncStep
  <1>6. ASSUME NEW d \in Docs, DocStep(d) PROVE IntakeInv'
    <2>1. CASE Edit(d) \/ TriggerByHand(d) \/ WriteRun(d) \/ RetireTriggers(d)
      BY <2>1, EditKept, TriggerByHandKept, WriteRunKept, RetireKept
    <2>2. CASE Reserve(d) \/ WriteFullTag(d) \/ FailWrite(d) \/ Release(d) \/ RecordTag(d)
      BY <2>2, ReconcileDocKept
    <2>3. CASE \E status \in {"succeeded", "rejected", "failed"} : EndRun(d, status)
      BY <2>3, EndRunKept
    <2> QED BY <1>6, <2>1, <2>2, <2>3 DEF DocStep
  <1>7. CASE UNCHANGED intakeVars
    <2>1. UNCHANGED <<clock, skew, archive, row, runs, cursor, call, retagged, raced, outlasted>>
      BY <1>7 DEF intakeVars
    <2>2. row' \in [Docs -> RowRec] /\ \A d \in Docs : row[d]'.tags = row[d].tags
      BY <2>1 DEF IntakeInv, Typed
    <2> QED BY <2>1, <2>2, FlagKept
  <1> QED BY <1>1, <1>2, <1>3, <1>4, <1>5, <1>6, <1>7 DEF IntakeNext

LEMMA SpecIInv == IntakeSpec => []IntakeInv
  BY InitIntakeInv, NextIntakeInv, PTL DEF IntakeSpec

(* The inventory misses no edit in Paperless: a row agrees with the document, or the
   next sync lists the document, for any number of documents, of polls and of requests
   whose syncs overlap and last as they may, page by page, with failures between two
   batches, and for every clock of Paperless that the overlap allows for; but for rows
   that a sync wrote from an outdated listing after it had outlasted the overlap
   (sync_metadata, sync_paperless_inventory). *)
THEOREM EditsAlwaysReachInventory == IntakeSpec => []EditsReachInventory
  <1>1. IntakeInv => EditsReachInventory
    <2> SUFFICES ASSUME IntakeInv, Overlap + skew > 0, NEW d \in Docs,
                        row[d].tags # archive[d].tags, d \notin outlasted
                 PROVE  d \in Listed(Since)
      BY DEF EditsReachInventory
    <2>1. cursor # Unset => archive[d].modified > cursor - Overlap
      BY DEF IntakeInv, Fresh, Covered, RowFresh
    <2> QED BY <2>1 DEF Listed, Since
  <1> QED BY <1>1, SpecIInv, PTL

(* A trigger tag that survives its run starts no loop: with a Paperless clock that is
   not ahead, polls create at most one run for each change that left a trigger on
   the document, and one for each run that ended between its lookup and its use
   (trigger_already_handled). *)
THEOREM TriggersNeverLoop == IntakeSpec => []NoTriggerLoop
  <1>1. IntakeInv => NoTriggerLoop
    <2> SUFFICES ASSUME IntakeInv, skew <= 0, NEW d \in Docs
                 PROVE  Triggered(runs[d]) <= retagged[d] + raced[d]
      BY DEF NoTriggerLoop, Triggered
    <2>1. PICK p \in Pollers : TRUE
      BY IntakeAssumption
    <2> QED BY <2>1 DEF IntakeInv, Credit, Credited
  <1> QED BY <1>1, SpecIInv, PTL

(* Every variable of the intake keeps its type. *)
THEOREM IntakeTypeAlwaysOK == IntakeSpec => []IntakeTypeOK
  <1>1. IntakeInv => IntakeTypeOK
    <2> SUFFICES ASSUME IntakeInv PROVE IntakeTypeOK
      OBVIOUS
    <2>1. clock \in 0..MaxClock /\ cursor \in {Unset} \cup 0..MaxClock
      BY IntakeAssumption DEF IntakeInv, Typed
    <2>2. ASSUME NEW d \in Docs
          PROVE  /\ archive[d].tags \cup row[d].tags \subseteq Workflow \cup PeopleTags
                 /\ row[d].status \in [Stages -> {"unknown", "failed"} \cup Resolved]
                 /\ Len(runs[d]) <= MaxRuns
                 /\ \A i \in 1..Len(runs[d]) :
                      /\ runs[d][i].status \in {"active", "failed"} \cup Resolved
                      /\ runs[d][i].stages \in (SUBSET Stages) \ {{}}
                      /\ runs[d][i].status = "active" <=> runs[d][i].finished = Unset
      <3>1. archive[d] \in DocRec /\ row[d] \in RowRec /\ HistoryOk(runs[d])
        BY DEF IntakeInv, Typed
      <3> QED BY <3>1 DEF DocRec, RowRec, RunRec, HistoryOk
    <2>3. ASSUME NEW c \in Callers
          PROVE  /\ call[c].pc \in {"idle", "read", "sync", "lookup", "create", "select"}
                 /\ call[c].pc \in {"sync", "create"} => call[c].todo \subseteq DOMAIN call[c].snap
                 /\ c \in Requests => call[c].pc \in {"idle", "read", "sync"}
      BY DEF IntakeInv, Typed, CallOk, RequestOk
    <2> QED BY <2>1, <2>2, <2>3 DEF IntakeTypeOK
  <1> QED BY <1>1, SpecIInv, PTL
=============================================================================
