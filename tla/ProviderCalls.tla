------------------------------ MODULE ProviderCalls ------------------------------
(***************************************************************************)
(* The provider calls of a job, in time: how long a call may run against    *)
(* the lease that protects it, which replies become retries, permanent      *)
(* failures or a provider cooldown, and what a cooldown holds back.         *)
(*                                                                         *)
(* One worker runs one job here (WorkerSupervisor has the slots of a        *)
(* process, JobQueue the rest of the job table).  time counts in units of    *)
(* the shortest request timeout.                                           *)
(***************************************************************************)
EXTENDS Integers, FiniteSets

CONSTANTS Workers,      \* worker processes
          Jobs,         \* queued jobs
          StageOf,      \* Jobs -> "ocr" or "metadata"
          RetryWith,    \* Jobs -> the provider of a review "retry with ...", or None
          Providers,    \* enabled providers
          Kind,         \* Providers -> AiProviderKind
          AutoSchema,         \* OpenAI kinds with structured_output = auto
          Timeout,      \* Providers -> request_timeout_seconds
          BaseLease,    \* BASE_JOB_LEASE_SECONDS
          Margin,       \* JOB_LEASE_TIMEOUT_MARGIN_SECONDS
          RetryAfters,  \* Retry-After headers that come with a usage-cap reply
          MinCool, DefaultCool, MaxCool,   \* quota cooldown: floor, default, ceiling
          Backoff,      \* MAX_TRANSIENT_RETRY_BACKOFF_SECONDS
          MaxAttempts,  \* jobs.max_attempts
          MaxActs,      \* bound: operator interventions
          MaxElapsed,      \* bound on time
          None

ASSUME ProviderCallsAssumption ==
  /\ StageOf \in [Jobs -> {"ocr", "metadata"}]
  /\ RetryWith \in [Jobs -> Providers \cup {None}]
  /\ Kind \in [Providers -> {"ollama", "openai", "anthropic", "mineru"}]
  /\ AutoSchema \subseteq {p \in Providers : Kind[p] = "openai"}
  /\ Timeout \in [Providers -> Nat \ {0}]
  /\ {BaseLease, Margin, MinCool, DefaultCool, MaxCool, Backoff, MaxActs, MaxElapsed} \subseteq Nat
  /\ MaxElapsed > 0 /\ IsFiniteSet(Providers)
  /\ MaxAttempts \in Nat \ {0} /\ RetryAfters \subseteq Nat
  /\ MinCool <= DefaultCool /\ DefaultCool <= MaxCool
  /\ None \notin Providers \cup Jobs

-----------------------------------------------------------------------------
(* What a client makes of the reply to one request.  "cap" is a 429 whose   *)
(* body names a usage limit, "throttle" any other 429, "schema" a 400 that  *)
(* blames response_format, "crash" a 5xx with a runner-crash signature,     *)
(* "reasoning" a 200 without visible text, "wrong" one whose text is not the *)
(* metadata asked for, "oversize" a body past 8 MiB, "garbled" one that does *)
(* not decode, "lost" a timeout or a broken connection that names itself as  *)
(* such, "cut" any other failure of the transport.                          *)

Refusals == {"cap", "throttle", "schema", "client", "server", "crash"}
Replies == Refusals \cup {"text", "reasoning", "wrong", "oversize", "garbled", "lost", "cut"}

FromHttp(reply) == IF reply \in {"server", "crash"} THEN "Server" ELSE "Client"

\* check_quota_then_take_body.
CheckQuota(reply) == IF reply = "cap" THEN "QuotaExhausted" ELSE FromHttp(reply)

\* Errors without a type go by their text: "Network" has one of the markers of
\* classify_processing_failure, "Untyped" none.
Received(reply) ==
  CASE reply = "lost"               -> "Network"
    [] reply \in {"cut", "garbled"} -> "Untyped"
    [] OTHER                        -> "text"

\* The name Ollama, in the context of each of its errors, is such a marker.
ReceivedFromOllama(reply) == IF Received(reply) = "text" THEN "text" ELSE "Network"

OllamaChat(reply) == IF reply \in Refusals THEN CheckQuota(reply) ELSE ReceivedFromOllama(reply)

OllamaVision(reply) == IF reply = "crash" THEN "RunnerUnavailable" ELSE OllamaChat(reply)

OpenAiMessage(reply) ==
  CASE reply = "reasoning" -> "Untyped"
    [] reply = "oversize"  -> "InvalidResponse"
    [] OTHER               -> Received(reply)

OpenAiCall(reply) == IF reply \in Refusals THEN CheckQuota(reply) ELSE OpenAiMessage(reply)

AnthropicMessages(reply) == IF reply \in Refusals THEN CheckQuota(reply) ELSE Received(reply)

\* The MinerU client never reports a quota.
MineruVision(reply) == IF reply \in Refusals THEN FromHttp(reply) ELSE Received(reply)

\* VisionClient::vision and chat_with_provider: MinerU cannot chat.
VisionResult(p, reply) ==
  CASE Kind[p] = "ollama"    -> OllamaVision(reply)
    [] Kind[p] = "openai"    -> OpenAiCall(reply)
    [] Kind[p] = "anthropic" -> AnthropicMessages(reply)
    [] Kind[p] = "mineru"    -> MineruVision(reply)

ChatResult(p, reply) ==
  CASE Kind[p] = "ollama"    -> OllamaChat(reply)
    [] Kind[p] = "openai"    -> OpenAiCall(reply)
    [] Kind[p] = "anthropic" -> AnthropicMessages(reply)
    [] Kind[p] = "mineru"    -> "Untyped"

IsTransient(error) == error \in {"Network", "Server", "RunnerUnavailable"}

\* classify_processing_failure, for the errors of a provider call.
FailureClass(error) ==
  CASE error = "QuotaExhausted"                      -> "ProviderQuota"
    [] IsTransient(error) \/ error = "MetadataContract" -> "Transient"
    [] OTHER                                         -> "Permanent"

\* quota_cooldown_duration; None is a reply without Retry-After.
QuotaCooldown(retryAfter) ==
  IF retryAfter = None THEN DefaultCool
  ELSE IF retryAfter < MinCool THEN MinCool
  ELSE IF retryAfter > MaxCool THEN MaxCool ELSE retryAfter

\* What one call may take: the schema fallback sends a second request.
CallBudget(p) == IF p \in AutoSchema THEN 2 * Timeout[p] ELSE Timeout[p]

\* job_lease_seconds: sized for the slowest enabled provider.
LeaseSeconds ==
  LET slowest == CHOOSE p \in Providers : \A q \in Providers : CallBudget(q) <= CallBudget(p)
      needed == CallBudget(slowest) + Margin
  IN IF needed > BaseLease THEN needed ELSE BaseLease

\* lease_keepalive_interval.
KeepaliveInterval == IF LeaseSeconds < 3 THEN 1 ELSE LeaseSeconds \div 3

-----------------------------------------------------------------------------
VARIABLES time,
          jobs,      \* Jobs -> [status, owner, lease, runAfter, attempts]
          workers,   \* Workers -> the attempt in progress
          cooldown,  \* ai_provider_cooldowns: Providers -> cooldown_until, 0 without a row
          promised,  \* Providers -> the latest cooldown end recorded since the last lift
          routed,    \* the provider the settings route both stages to
          operator   \* an endpoint between its statements, and the interventions left

callVars == <<time, jobs, workers, cooldown, promised, routed, operator>>

\* known: the providers whose recorded cooldown was running when the attempt
\* passed its cooldown check.
Resting == [pc |-> "idle", job |-> None, provider |-> None, call |-> "none",
            due |-> 0, spare |-> FALSE, retry |-> FALSE, until |-> 0,
            known |-> {}]

Calls == {"classify", "main", "consensus", "page", "discovery", "fallback"}

ProviderTypeOK ==
  /\ time \in 0..MaxElapsed
  /\ jobs \in [Jobs -> [status : {"queued", "running", "succeeded", "failed"},
                        owner : Workers \cup {None}, lease : 0..(MaxElapsed + LeaseSeconds),
                        runAfter : 0..(MaxElapsed + MaxCool + Backoff), attempts : 0..MaxAttempts]]
  /\ workers \in [Workers ->
       [pc : {"idle", "check", "setup", "ready", "calling", "record", "park", "failing"},
        job : Jobs \cup {None}, provider : Providers \cup {None}, call : Calls \cup {"none", "heartbeat", "finish"},
        due : Nat, spare : BOOLEAN, retry : BOOLEAN,
        until : 0..(MaxElapsed + MaxCool), known : SUBSET Providers]]
  /\ cooldown \in [Providers -> 0..(MaxElapsed + MaxCool)]
  /\ promised \in [Providers -> 0..(MaxElapsed + MaxCool)]
  /\ routed \in Providers
  /\ operator \in [pc : {"idle", "clear", "wake"}, beyond : 0..Backoff,
                   left : 0..MaxActs]

ProviderInit ==
  /\ time = 1
  /\ \E waiting \in SUBSET Jobs :
       jobs = [j \in Jobs |-> [status |-> IF j \in waiting THEN "queued" ELSE "succeeded",
                               owner |-> None, lease |-> 0, runAfter |-> 0, attempts |-> 0]]
  /\ workers = [w \in Workers |-> Resting]
  /\ cooldown = [p \in Providers |-> 0] /\ promised = cooldown
  /\ routed \in Providers
  /\ \E acts \in 0..MaxActs : operator = [pc |-> "idle", beyond |-> 0, left |-> acts]

Holds(w) == jobs[workers[w].job].owner = w /\ jobs[workers[w].job].status = "running"
Released(j, status) == [jobs[j] EXCEPT !.status = status, !.owner = None, !.lease = 0]
Rest(w) == workers' = [workers EXCEPT ![w] = Resting]
Proceed(w, call) ==
  workers' = [workers EXCEPT ![w].pc = "ready", ![w].call = call, ![w].due = 0,
                             ![w].spare = FALSE]

-----------------------------------------------------------------------------
(* An attempt up to its first call.                                         *)

\* claim_jobs: a stale lease or a due job; the settings are read at the tick.
\* The margin covers what comes before the first call, which no renewal precedes.
Claim(w, j) ==
  /\ workers[w].pc = "idle"
  /\ \/ jobs[j].status = "queued" /\ jobs[j].runAfter <= time
     \/ jobs[j].status = "running" /\ jobs[j].lease < time
  /\ jobs[j].attempts < MaxAttempts
  /\ jobs' = [jobs EXCEPT ![j] = [status |-> "running", owner |-> w, lease |-> time + LeaseSeconds,
                                  runAfter |-> 0, attempts |-> @.attempts + 1]]
  /\ workers' = [workers EXCEPT ![w] = [Resting EXCEPT !.pc = "check", !.job = j,
                                          !.provider = routed, !.due = time + Margin]]
  /\ UNCHANGED <<time, cooldown, promised, routed, operator>>

\* fail_exhausted_stale_jobs_tx.
FailExhausted(j) ==
  /\ jobs[j].status = "running" /\ jobs[j].lease < time /\ jobs[j].attempts >= MaxAttempts
  /\ jobs' = [jobs EXCEPT ![j] = Released(j, "failed")]
  /\ UNCHANGED <<time, workers, cooldown, promised, routed, operator>>

\* The provider the stage will call: the settings', or the one a review retry chose.
StageProvider(w) ==
  LET j == workers[w].job
  IN IF StageOf[j] = "metadata" /\ RetryWith[j] # None THEN RetryWith[j]
     ELSE workers[w].provider

\* process_job: a running cooldown of the configured provider ends the attempt.
CheckCooldown(w) ==
  LET until == cooldown[workers[w].provider]
  IN /\ workers[w].pc = "check"
     /\ workers' = [workers EXCEPT ![w] =
          IF until > time THEN [@ EXCEPT !.pc = "park", !.until = until, !.due = 0]
          ELSE [@ EXCEPT !.pc = "setup", !.provider = StageProvider(w),
                         !.due = IF StageOf[workers[w].job] = "ocr"
                                 THEN time + KeepaliveInterval ELSE workers[w].due,
                         !.known = {p \in Providers : promised[p] > time}]]
     /\ UNCHANGED <<time, jobs, cooldown, promised, routed, operator>>

\* with_lease_keepalive, while OCR downloads and renders.
Keepalive(w) ==
  /\ workers[w].pc = "setup" /\ StageOf[workers[w].job] = "ocr"
  /\ time = workers[w].due
  /\ IF Holds(w)
     THEN /\ jobs' = [jobs EXCEPT ![workers[w].job].lease = time + LeaseSeconds]
          /\ workers' = [workers EXCEPT ![w].due = time + KeepaliveInterval]
     ELSE Rest(w) /\ UNCHANGED jobs
  /\ UNCHANGED <<time, cooldown, promised, routed, operator>>

\* The pages are rendered; or the document is fetched, and an empty one is not
\* classified.
SetUp(w) ==
  /\ workers[w].pc = "setup"
  /\ IF StageOf[workers[w].job] = "ocr" THEN Proceed(w, "page")
     ELSE \/ workers' = [workers EXCEPT ![w].pc = "ready", ![w].call = "classify"]
          \/ Proceed(w, "main")
  /\ UNCHANGED <<time, jobs, cooldown, promised, routed, operator>>

-----------------------------------------------------------------------------
(* Calls.  Every call but the classification runs after a lease renewal.    *)

\* Mutation: the call starts whether or not the renewal found the lease.
RenewOrNot(w) ==
  /\ jobs' = IF Holds(w) THEN [jobs EXCEPT ![workers[w].job].lease = time + LeaseSeconds] ELSE jobs

\* run_after_lease_renewal: only a renewal that succeeds lets the call start.
Renew(w) == Holds(w) /\ jobs' = [jobs EXCEPT ![workers[w].job].lease = time + LeaseSeconds]

Begin(w) ==
  workers' = [workers EXCEPT ![w].pc = "calling",
                ![w].due = time + Timeout[workers[w].provider],
                ![w].spare = workers[w].call = "main" /\ workers[w].provider \in AutoSchema]

\* The lease is lost: the attempt stops before it polls the call.
Stopped(w) == ~Holds(w) /\ Rest(w) /\ UNCHANGED jobs

Send(w) ==
  /\ workers[w].pc = "ready" /\ workers[w].call \in Calls
  /\ \/ workers[w].call = "classify" /\ Begin(w) /\ UNCHANGED jobs
     \/ workers[w].call # "classify" /\ Renew(w) /\ Begin(w)
     \/ workers[w].call # "classify" /\ Stopped(w)
  /\ UNCHANGED <<time, cooldown, promised, routed, operator>>

\* A page found in the OCR page cache is not sent.
CachedPage(w) ==
  /\ workers[w].pc = "ready" /\ workers[w].call = "page"
  /\ Proceed(w, "finish")
  /\ UNCHANGED <<time, jobs, cooldown, promised, routed, operator>>

\* The renewal after a transcribed page; another page may follow.
Heartbeat(w) ==
  /\ workers[w].pc = "ready" /\ workers[w].call = "heartbeat"
  /\ \/ Renew(w) /\ \E call \in {"page", "finish"} : Proceed(w, call)
     \/ Stopped(w)
  /\ UNCHANGED <<time, cooldown, promised, routed, operator>>

\* The answer to the main call must be the metadata asked for.
ResultOf(w, reply) ==
  LET chat == ChatResult(workers[w].provider, reply) IN
  IF workers[w].call \in {"page", "discovery", "fallback"}
  THEN VisionResult(workers[w].provider, reply)
  ELSE IF workers[w].call = "main" /\ chat = "text" /\ reply \in {"reasoning", "wrong"}
       THEN "MetadataContract" ELSE chat

\* A 400 that blames the schema is answered by one request without it.
WithoutSchema(w) ==
  workers' = [workers EXCEPT ![w].due = time + Timeout[workers[w].provider], ![w].spare = FALSE]

\* The call after an answer with text.
After(call) ==
  CASE call = "classify"              -> {"main"}
    [] call = "main"                  -> {"consensus", "finish"}
    [] call = "consensus"             -> {"finish"}
    [] call \in {"page", "fallback"} -> {"heartbeat"}
    [] call = "discovery"             -> {"fallback"}

Failing(w, retry) ==
  workers' = [workers EXCEPT ![w] = [Resting EXCEPT !.pc = "failing", !.job = workers[w].job,
                                                    !.retry = retry]]

\* The typed error of a call, seen by its caller: the classification and the
\* consensus do without, discovery finds no model, a crash of the primary model
\* asks for another.
CallFails(w, error) ==
  LET call == workers[w].call
  IN CASE call = "discovery" -> Proceed(w, "fallback") \/ Failing(w, TRUE)
       [] call # "discovery" /\ error = "QuotaExhausted" ->
            workers' = [workers EXCEPT ![w].pc = "record", ![w].due = 0, ![w].spare = FALSE]
       [] call \in {"classify", "consensus"} /\ error # "QuotaExhausted" ->
            \E next \in After(call) : Proceed(w, next)
       [] call = "page" /\ error = "RunnerUnavailable" -> Proceed(w, "discovery")
       [] OTHER -> Failing(w, FailureClass(error) = "Transient")

Answer(w, reply) ==
  /\ workers[w].pc = "calling"
  /\ LET result == ResultOf(w, reply)
     IN \/ workers[w].spare /\ reply = "schema" /\ WithoutSchema(w)
        \/ ~(workers[w].spare /\ reply = "schema") /\ result # "text" /\ CallFails(w, result)
        \/ result = "text" /\ \E next \in After(workers[w].call) : Proceed(w, next)
  /\ UNCHANGED <<time, jobs, cooldown, promised, routed, operator>>

-----------------------------------------------------------------------------
(* How an attempt ends.                                                     *)

\* The side effects start after a last renewal and end in complete_job.
Complete(w) ==
  /\ workers[w].pc = "ready" /\ workers[w].call = "finish"
  /\ jobs' = IF Holds(w) THEN [jobs EXCEPT ![workers[w].job] = Released(workers[w].job, "succeeded")]
             ELSE jobs
  /\ Rest(w)
  /\ UNCHANGED <<time, cooldown, promised, routed, operator>>

\* fail_job.
Fail(w) ==
  LET j == workers[w].job
  IN /\ workers[w].pc = "failing"
     /\ jobs' = IF ~Holds(w) THEN jobs
                ELSE IF workers[w].retry /\ jobs[j].attempts < MaxAttempts
                     THEN [jobs EXCEPT ![j] = [Released(j, "queued") EXCEPT !.runAfter = time + Backoff]]
                     ELSE [jobs EXCEPT ![j] = Released(j, "failed")]
     /\ Rest(w)
     /\ UNCHANGED <<time, cooldown, promised, routed, operator>>

\* Mutation: the cooldown reported last replaces the one in force.
LatestReport(existing, requested) == requested

\* upsert_provider_cooldown: the longer window wins.
Upsert(existing, requested) == IF existing > requested THEN existing ELSE requested

\* record_quota_cooldown_for_failure.
Record(w) ==
  /\ workers[w].pc = "record"
  /\ \E retryAfter \in RetryAfters \cup {None} :
       LET p == workers[w].provider
           until == time + QuotaCooldown(retryAfter)
       IN /\ cooldown' = [cooldown EXCEPT ![p] = Upsert(@, until)]
          /\ promised' = [promised EXCEPT ![p] = IF @ > until THEN @ ELSE until]
          /\ workers' = [workers EXCEPT ![w].pc = "park", ![w].until = cooldown'[p]]
  /\ UNCHANGED <<time, jobs, routed, operator>>

\* release_lease_for_cooldown: the job comes back with its attempt.
Park(w) ==
  /\ workers[w].pc = "park"
  /\ jobs' = IF ~Holds(w) THEN jobs
             ELSE [jobs EXCEPT ![workers[w].job] =
                     [Released(workers[w].job, "queued") EXCEPT !.runAfter = workers[w].until,
                                                                !.attempts = @ - 1]]
  /\ Rest(w)
  /\ UNCHANGED <<time, cooldown, promised, routed, operator>>

\* The cooldown or the release could not be written: the attempt fails, retryable.
QuotaFallsBack(w) ==
  /\ workers[w].pc \in {"record", "park"} /\ workers[w].call # "none"
  /\ Failing(w, TRUE)
  /\ UNCHANGED <<time, jobs, cooldown, promised, routed, operator>>

\* The process dies; its request dies with it and its lease runs out.
Crash(w) ==
  /\ workers[w].pc # "idle" /\ Rest(w)
  /\ UNCHANGED <<time, jobs, cooldown, promised, routed, operator>>

-----------------------------------------------------------------------------
(* The operator: lifting a cooldown, releasing parked jobs, changing models. *)

Lifted(P) ==
  /\ cooldown' = [p \in Providers |-> IF p \in P THEN 0 ELSE cooldown[p]]
  /\ promised' = [p \in Providers |-> IF p \in P THEN 0 ELSE promised[p]]
  /\ workers' = [w \in Workers |-> [workers[w] EXCEPT !.known = @ \ P]]

\* clear_provider_cooldowns and the queue unblock: clear, then wake.
LiftCooldowns(P) ==
  /\ operator.pc = "idle" /\ operator.left > 0 /\ P # {}
  /\ Lifted(P)
  /\ operator' = [pc |-> "wake", beyond |-> 0, left |-> operator.left - 1]
  /\ UNCHANGED <<time, jobs, routed>>

\* update_settings with another default provider or model: save, clear, wake.
ChangeModel(p) ==
  /\ operator.pc = "idle" /\ operator.left > 0
  /\ routed' = p
  /\ operator' = [pc |-> "clear", beyond |-> Backoff, left |-> operator.left - 1]
  /\ UNCHANGED <<time, jobs, workers, cooldown, promised>>

ClearAfterChange ==
  /\ operator.pc = "clear" /\ Lifted(Providers)
  /\ operator' = [operator EXCEPT !.pc = "wake"]
  /\ UNCHANGED <<time, jobs, routed>>

ReleaseRetries ==
  /\ operator.pc = "idle" /\ operator.left > 0
  /\ operator' = [pc |-> "wake", beyond |-> 0, left |-> operator.left - 1]
  /\ UNCHANGED <<time, jobs, workers, cooldown, promised, routed>>

\* release_scheduled_retries; after a model change only jobs parked past the
\* retry backoff, which a cooldown put there.
WakeParked ==
  /\ operator.pc = "wake"
  /\ jobs' = [j \in Jobs |->
       IF jobs[j].status = "queued" /\ jobs[j].runAfter > time + operator.beyond
       THEN [jobs[j] EXCEPT !.runAfter = time] ELSE jobs[j]]
  /\ operator' = [operator EXCEPT !.pc = "idle", !.beyond = 0]
  /\ UNCHANGED <<time, workers, cooldown, promised, routed>>

\* Bounded by a request timeout, by the keepalive, or by the margin after a claim.
Urgent(w) ==
  \/ workers[w].pc \in {"check", "setup", "calling"}
  \/ workers[w].pc = "ready" /\ workers[w].call = "classify"

Elapse ==
  /\ time < MaxElapsed /\ \A w \in Workers : Urgent(w) => time < workers[w].due
  /\ time' = time + 1
  /\ UNCHANGED <<jobs, workers, cooldown, promised, routed, operator>>

ProviderNext ==
  \/ \E w \in Workers :
       \/ \E j \in Jobs : Claim(w, j)
       \/ CheckCooldown(w) \/ Keepalive(w) \/ SetUp(w)
       \/ Send(w) \/ CachedPage(w) \/ Heartbeat(w)
       \/ \E reply \in Replies : Answer(w, reply)
       \/ Complete(w) \/ Fail(w) \/ Record(w) \/ Park(w) \/ QuotaFallsBack(w) \/ Crash(w)
  \/ \E j \in Jobs : FailExhausted(j)
  \/ \E P \in SUBSET Providers : LiftCooldowns(P)
  \/ \E p \in Providers : ChangeModel(p)
  \/ ClearAfterChange \/ ReleaseRetries \/ WakeParked \/ Elapse

ProviderSpec == ProviderInit /\ [][ProviderNext]_callVars

-----------------------------------------------------------------------------
(* No job has two provider calls in flight: the lease outlasts any call it   *)
(* covers, the schema fallback's second request included, and a worker that  *)
(* lost the job starts no further one.                                      *)
OneCallPerJob ==
  \A v, w \in Workers :
    workers[v].pc = "calling" /\ workers[w].pc = "calling" /\ workers[v].job = workers[w].job => v = w

\* The attempt runs with the provider or the model a reviewer chose.
ReviewRetry(w) == StageOf[workers[w].job] = "metadata" /\ RetryWith[workers[w].job] # None

(* An attempt of a job the settings route sends no request to a provider     *)
(* whose recorded cooldown, the longest any reply asked for, was still       *)
(* running when the attempt was let through; only an operator shortens it.  *)
CooldownRespected ==
  \A w \in Workers :
    workers[w].pc = "calling" /\ ~ReviewRetry(w) => workers[w].provider \notin workers[w].known

(* A 429 without usage-cap wording is a throttle: an attempt it ends is      *)
(* retried, as the comment on is_quota_signal and its test have it.         *)
ThrottleRetried ==
  [][\A w \in Workers :
       Answer(w, "throttle") /\ workers'[w].pc = "failing" => workers'[w].retry]_callVars
=============================================================================
