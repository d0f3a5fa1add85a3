-------------------------- MODULE WebhookDelivery --------------------------
(***************************************************************************)
(* The merchant webhook worker (internal/v4/webhooks) on the outbox rows   *)
(* the ledger commits, and the operator's webhook settings                 *)
(* (internal/v4/operator/settings.go) that reconfigure it live.            *)
(*                                                                         *)
(* A database transaction is one action.  Between two of them - claiming a *)
(* row, posting it, recording the answer; storing a setting, applying it - *)
(* anything else may happen, and so may a crash.                           *)
(*                                                                         *)
(* Time is abstracted to what next_attempt_at is compared with: it is past *)
(* (at most the time the current batch, or one starting now, was listed),  *)
(* since (later than that, but not in the future), or future.              *)
(***************************************************************************)
EXTENDS Integers, FiniteSets, SequencesExt

CONSTANTS
  Deliveries,   \* webhook_deliveries ids
  Callers,      \* concurrent settings requests of operators
  Endpoints,    \* endpoints operators type
  Off,          \* no webhook configured
  Idle,         \* no settings request in progress
  EnvEndpoint,  \* PAYGATE_V4_WEBHOOK_ENDPOINT in the environment, or Off
  MaxAttempts, BatchSize,
  MaxSecrets,   \* bound on generated secrets
  MaxCrashes,   \* bound on crashes
  MaxRetries,   \* bound on operator retries
  MaxLostWrites \* bound on answers that could not be recorded

Configs == [endpoint : Endpoints, secret : 0..MaxSecrets]

\* The environment's configuration; its secret is not one that was generated.
Env == IF EnvEndpoint = Off THEN Off ELSE [endpoint |-> EnvEndpoint, secret |-> 0]

ASSUME DeliveryAssumption ==
  /\ {MaxAttempts, BatchSize} \subseteq Nat \ {0}
  /\ {MaxSecrets, MaxCrashes, MaxRetries, MaxLostWrites} \subseteq Nat
  /\ Off \notin Configs
  /\ EnvEndpoint \in Endpoints \cup {Off}
  /\ Idle \notin [step : {"store", "apply"}, cfg : Configs \cup {Off}]

VARIABLES
  queued,     \* deliveries whose row exists
  status, attempts, next,  \* webhook_deliveries columns; next is next_attempt_at
  worker,     \* where SendPending is: idle, batch, posting, answered
  todo,       \* ids of the batch not yet looked at
  using,      \* the batch's copy of the configuration
  flight,     \* attempts of the claimed delivery, as loaded by claim
  answer,     \* the endpoint's answer to it
  saved,      \* settings: the webhook configuration
  live,       \* Service.config, the worker's
  caller,     \* settings requests between their steps
  minted,     \* secrets generated so far
  crashes, retries, lostWrites,    \* counters for the bounds
  claims, accepted, unlearned, refused, overlapped,  \* what has happened
  stale       \* posts with an outdated copy since settings were applied

row == <<queued, status, attempts, next>>
batch == <<worker, todo, using, flight, answer>>
settings == <<saved, live, caller, minted, overlapped>>
bounds == <<crashes, retries, lostWrites>>
ghosts == <<claims, accepted, unlearned, refused, stale>>
vars == <<row, batch, settings, bounds, ghosts>>

Answers == {"none", "ok", "lost", "transient", "permanent"}
Queued(d) == d \in queued

\* Claimed rows keep their status, so an interrupted delivery is due again.
Waiting == {"pending", "retry"}

Init ==
  /\ queued = {}
  /\ status = [d \in Deliveries |-> "pending"]
  /\ attempts = [d \in Deliveries |-> 0]
  /\ next = [d \in Deliveries |-> "null"]
  /\ worker = "idle" /\ todo = <<>> /\ using = Off
  /\ flight = 0 /\ answer = "none"
  /\ saved = Env /\ live = Env  \* runtime.New on a fresh database
  /\ caller = [c \in Callers |-> Idle]
  /\ minted = 0 /\ overlapped = FALSE
  /\ crashes = 0 /\ retries = 0 /\ lostWrites = 0
  /\ claims = [d \in Deliveries |-> 0]
  /\ accepted = [d \in Deliveries |-> 0]
  /\ unlearned = [d \in Deliveries |-> 0]
  /\ refused = {} /\ stale = 0

\* The ledger commits an event (PaymentLedger!Enqueue).
Enqueue(d) ==
  /\ ~Queued(d)
  /\ queued' = queued \cup {d}
  /\ UNCHANGED <<status, attempts, next, batch, settings, bounds, ghosts>>

\* Time passes: a lease or a back-off ends.
Elapse(d) ==
  /\ next[d] = "future"
  /\ next' = [next EXCEPT ![d] = "since"]
  /\ UNCHANGED <<queued, status, attempts, batch, settings, bounds, ghosts>>

---------------------------------------------------------------------------
(* SendPending.                                                            *)

\* Mutant: rows whose delivery has already failed are never listed.
DuePending ==
  {d \in queued : status[d] = "pending" /\ next[d] # "future"}

Due == {d \in queued : status[d] \in Waiting /\ next[d] # "future"}

\* Mutant: without the LIMIT.
ListedAll(s) ==
  /\ IsInjective(s)
  /\ Len(s) = Cardinality(Due)

\* ORDER BY COALESCE(next_attempt_at,0), created_at, rowid LIMIT BatchSize:
\* rows never scheduled come first.  created_at is the clock of the handler that
\* committed the row, so it orders them in no particular way.
Listed(s) ==
  LET new == {d \in Due : next[d] = "null"}
      least(m, n) == IF m < n THEN m ELSE n
  IN /\ IsInjective(s)
     /\ Len(s) = least(Cardinality(Due), BatchSize)
     /\ \A i \in 1..Len(s) : i <= Cardinality(new) <=> s[i] \in new

\* The configuration is copied and the batch's `now' is taken: whatever is due
\* is past from here on.
Start ==
  /\ worker = "idle"
  /\ live # Off
  /\ Due # {}
  /\ \E n \in 1..Cardinality(Due) : \E s \in [1..n -> Due] : Listed(s) /\ todo' = s
  /\ next' = [d \in Deliveries |-> IF next[d] = "since" THEN "past" ELSE next[d]]
  /\ using' = live
  /\ worker' = "batch"
  /\ UNCHANGED <<queued, status, attempts, flight, answer, settings, bounds, ghosts>>

Claimable(d) == status[d] \in Waiting /\ next[d] \in {"null", "past"}

\* claim: the lease runs from the batch's `now'.
Claim ==
  /\ worker = "batch" /\ todo # <<>>
  /\ LET d == Head(todo) IN
       /\ Claimable(d)
       /\ attempts' = [attempts EXCEPT ![d] = @ + 1]
       /\ flight' = attempts[d] + 1
       /\ next' = [next EXCEPT ![d] = "future"]
       /\ claims' = [claims EXCEPT ![d] = @ + 1]
  /\ worker' = "posting"
  /\ UNCHANGED <<queued, status, todo, using, answer, settings, bounds,
                 accepted, unlearned, refused, stale>>

\* A row that was rescheduled since the batch was listed is left alone.
Skip ==
  /\ worker = "batch" /\ todo # <<>>
  /\ ~Claimable(Head(todo))
  /\ todo' = Tail(todo)
  /\ UNCHANGED <<row, worker, using, flight, answer, settings, bounds, ghosts>>

EndBatch ==
  /\ worker = "batch" /\ todo = <<>>
  /\ worker' = "idle" /\ using' = Off
  /\ UNCHANGED <<row, todo, flight, answer, settings, bounds, ghosts>>

\* deliver up to the response: accepted, accepted but the response is lost or
\* too late, a retryable failure, or a permanent refusal.
Post(a) ==
  /\ worker = "posting"
  /\ worker' = "answered"
  /\ answer' = a
  /\ LET d == Head(todo) IN
       /\ accepted' = [accepted EXCEPT ![d] = IF a \in {"ok", "lost"} THEN @ + 1 ELSE @]
       /\ unlearned' = [unlearned EXCEPT ![d] = IF a = "lost" THEN @ + 1 ELSE @]
       /\ refused' = IF a = "permanent" THEN refused \cup {d} ELSE refused
  /\ stale' = IF using # live THEN stale + 1 ELSE stale
  /\ UNCHANGED <<row, todo, using, flight, settings, bounds, claims>>

\* Mutant: one attempt too many.
GivesUpLate == answer = "permanent" \/ flight > MaxAttempts

GivesUp == answer = "permanent" \/ flight >= MaxAttempts

\* Mutant: only a transport error counts as a failure.
FinishedOnAnyResponse ==
  IF answer # "lost" THEN "delivered" ELSE IF GivesUp THEN "exhausted" ELSE "retry"

Finished ==
  IF answer = "ok" THEN "delivered" ELSE IF GivesUp THEN "exhausted" ELSE "retry"

\* finish, whatever has become of the row since it was claimed.
Finish ==
  /\ worker = "answered"
  /\ LET d == Head(todo) IN
       /\ status' = [status EXCEPT ![d] = Finished]
       /\ next' = [next EXCEPT ![d] = IF Finished = "retry" THEN "future" ELSE "null"]
  /\ worker' = "batch" /\ todo' = Tail(todo)
  /\ flight' = 0 /\ answer' = "none"
  /\ UNCHANGED <<queued, attempts, using, settings, bounds, ghosts>>

\* finish fails and its error is dropped.
FinishLost ==
  /\ worker = "answered"
  /\ lostWrites < MaxLostWrites
  /\ lostWrites' = lostWrites + 1
  /\ unlearned' = [unlearned EXCEPT ![Head(todo)] = IF answer = "ok" THEN @ + 1 ELSE @]
  /\ worker' = "batch" /\ todo' = Tail(todo)
  /\ flight' = 0 /\ answer' = "none"
  /\ UNCHANGED <<row, using, settings, crashes, retries, claims, accepted, refused,
                 stale>>

\* Mutant: an operator may retry any delivery.
RetryableAny(d) == TRUE

Retryable(d) == status[d] \in {"retry", "exhausted"}

\* RetryOne; its `now' may fall into the millisecond of the batch's.
RetryOne(d) ==
  /\ Queued(d)
  /\ Retryable(d)
  /\ retries < MaxRetries
  /\ retries' = retries + 1
  /\ status' = [status EXCEPT ![d] = "pending"]
  /\ attempts' = [attempts EXCEPT ![d] = 0]
  /\ \E t \in {"past", "since"} : next' = [next EXCEPT ![d] = t]
  /\ UNCHANGED <<queued, batch, settings, crashes, lostWrites, ghosts>>

---------------------------------------------------------------------------
(* ConfigureWebhook and the restart.                                       *)

Active(c) == caller[c] # Idle

\* The stored secret is read outside the transaction that writes it back.
Load(c, endpoint, rotate) ==
  /\ ~Active(c)
  /\ LET fresh == saved = Off \/ rotate IN
       /\ fresh => minted < MaxSecrets
       /\ minted' = IF fresh THEN minted + 1 ELSE minted
       /\ caller' = [caller EXCEPT ![c] =
            [step |-> "store",
             cfg |-> [endpoint |-> endpoint,
                      secret |-> IF fresh THEN minted + 1 ELSE saved.secret]]]
  /\ overlapped' = (overlapped \/ \E o \in Callers : Active(o))
  /\ UNCHANGED <<row, batch, saved, live, bounds, ghosts>>

\* The operator disables the webhook: an empty endpoint, nothing to load.
Disable(c) ==
  /\ ~Active(c)
  /\ caller' = [caller EXCEPT ![c] = [step |-> "store", cfg |-> Off]]
  /\ overlapped' = (overlapped \/ \E o \in Callers : Active(o))
  /\ UNCHANGED <<row, batch, saved, live, minted, bounds, ghosts>>

\* storeWebhookConfig commits.
Store(c) ==
  /\ Active(c) /\ caller[c].step = "store"
  /\ saved' = caller[c].cfg
  /\ caller' = [caller EXCEPT ![c].step = "apply"]
  /\ UNCHANGED <<row, batch, live, minted, overlapped, bounds, ghosts>>

\* Worker.UpdateConfig
Apply(c) ==
  /\ Active(c) /\ caller[c].step = "apply"
  /\ live' = caller[c].cfg
  /\ caller' = [caller EXCEPT ![c] = Idle]
  /\ stale' = IF live' # live THEN 0 ELSE stale
  /\ UNCHANGED <<row, batch, saved, minted, overlapped, bounds,
                 claims, accepted, unlearned, refused>>

\* Mutant: the secret is left out.
BootedWithoutSecret == IF saved = Off THEN EnvEndpoint ELSE saved

\* BootstrapWebhook: the environment's configuration if none is stored.
Booted == IF saved = Off THEN Env ELSE saved

\* Mutant: the environment overrides what operators stored.
AppliedFromEnv(stored) == IF Env # Off THEN Env ELSE stored

\* ApplyPersistedWebhook
Applied(stored) == stored

\* The process dies and is started again: memory is lost, rows are not.
Restart ==
  /\ crashes < MaxCrashes
  /\ crashes' = crashes + 1
  /\ worker' = "idle" /\ todo' = <<>> /\ using' = Off
  /\ flight' = 0 /\ answer' = "none" /\ stale' = 0
  /\ unlearned' = IF worker = "answered" /\ answer = "ok"
                  THEN [unlearned EXCEPT ![Head(todo)] = @ + 1] ELSE unlearned
  /\ caller' = [c \in Callers |-> Idle]
  /\ saved' = Booted
  /\ live' = Applied(Booted)
  /\ UNCHANGED <<row, minted, overlapped, retries, lostWrites, claims, accepted,
                 refused>>

---------------------------------------------------------------------------
Work == Start \/ Claim \/ Skip \/ EndBatch \/ (\E a \in Answers \ {"none"} : Post(a))
          \/ Finish

SettingsStep(c) ==
  \/ \E e \in Endpoints, r \in BOOLEAN : Load(c, e, r)
  \/ Disable(c) \/ Store(c) \/ Apply(c)

Next ==
  \/ \E d \in Deliveries : Enqueue(d) \/ Elapse(d) \/ RetryOne(d)
  \/ Work
  \/ FinishLost
  \/ \E c \in Callers : SettingsStep(c)
  \/ Restart

Spec == Init /\ [][Next]_vars

\* The worker loops for as long as the process is up, and leases and back-offs
\* end.  Nobody is obliged to enqueue, to retry or to configure.
FairSpec == Spec /\ WF_vars(Work) /\ \A d \in Deliveries : WF_vars(Elapse(d))

---------------------------------------------------------------------------
(* Properties.                                                             *)

\* Every variable has its type.
TypeOK ==
  /\ queued \subseteq Deliveries
  /\ status \in [Deliveries -> Waiting \cup {"delivered", "exhausted"}]
  /\ attempts \in [Deliveries -> Nat]
  /\ next \in [Deliveries -> {"null", "past", "since", "future"}]
  /\ worker \in {"idle", "batch", "posting", "answered"}
  /\ todo \in Seq(Deliveries)
  /\ using \in Configs \cup {Off}
  /\ flight \in Nat
  /\ answer \in Answers
  /\ saved \in Configs \cup {Off}
  /\ live \in Configs \cup {Off}
  /\ caller \in [Callers -> [step : {"store", "apply"}, cfg : Configs \cup {Off}]
                              \cup {Idle}]
  /\ minted \in 0..MaxSecrets
  /\ overlapped \in BOOLEAN
  /\ crashes \in Nat /\ retries \in Nat /\ lostWrites \in Nat
  /\ claims \in [Deliveries -> Nat]
  /\ accepted \in [Deliveries -> Nat]
  /\ unlearned \in [Deliveries -> Nat]
  /\ refused \subseteq Deliveries
  /\ stale \in Nat

\* A delivery is reported delivered only if the endpoint took it, and given up
\* only after a permanent refusal or MaxAttempts claims.
SettledHonestly ==
  \A d \in Deliveries :
    /\ status[d] = "delivered" => accepted[d] > 0
    /\ status[d] = "exhausted" => d \in refused \/ claims[d] >= MaxAttempts

\* The endpoint takes an event a second time only if the worker never recorded
\* an earlier acceptance: a lost response, a crash or a failed write.
DuplicatesExplained ==
  \A d \in Deliveries : accepted[d] <= 1 + unlearned[d]

\* The worker implements the queue a merchant may rely on: whatever is lost,
\* crashes or is retried by an operator in mid-flight, an event is posted only
\* while it waits, delivered is final and means that the endpoint took it, and
\* the endpoint takes it again only after an acceptance that went unrecorded.
Taken(d) == worker = "answered" /\ answer = "ok" /\ Head(todo) = d
Phase == [d \in Deliveries |->
            IF ~Queued(d) THEN "none"
            ELSE IF Taken(d) THEN "taken"
            ELSE IF status[d] \in Waiting THEN "waiting" ELSE status[d]]
Queue == INSTANCE DeliveryQueue
  WITH phase <- Phase, takes <- accepted, forgotten <- unlearned
ImplementsQueue == Queue!Spec

\* "bounded exponential backoff": every round of automatic attempts is bounded,
\* but for the attempts whose outcome a crash or a failed write swallowed.
AttemptsBounded ==
  \A d \in Deliveries :
    claims[d] <= MaxAttempts * (1 + retries) + crashes + lostWrites

\* While no settings requests have overlapped, the worker runs on the stored
\* configuration whenever none is in progress, after any restart too.
SequentialSettingsLive ==
  ~overlapped /\ (\A c \in Callers : ~Active(c)) => live = saved

\* Settings reach a worker that is busy: once a rotation, a new endpoint or a
\* disable has been applied, no more than the rest of the batch under way is
\* posted with the configuration it replaced.
StalePostsBounded == stale <= BatchSize

\* An event committed to the outbox is delivered or given up, whatever crashes,
\* if webhooks are configured for good at some time.
EventsSettle ==
  <>[](live # Off) =>
    \A d \in Deliveries : Queued(d) ~> status[d] \in {"delivered", "exhausted"}

\* Disabling lasts: once no webhook is stored or live, only an operator's
\* settings request makes the worker post again.
DisabledStaysDisabled ==
  [][saved = Off /\ live = Off /\ live' # Off =>
       \E c \in Callers : Active(c) /\ caller[c].step = "apply"]_vars
=============================================================================
