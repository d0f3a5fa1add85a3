# PayGate v4 in TLA+

PayGate v4 is a small payment gateway for UPI transfers. A merchant creates a
payment over whole rupees; the gateway gives it a unique *payable amount* (the
requested amount plus 1 to 99 paise, or the same in one of the next five
rupees), a phone relays the bank's or Paytm's notification of an incoming credit,
and the amount alone identifies the payment that was made. Everything a merchant
is told goes through webhooks. This directory holds the TLA+ modules for the
parts where that can go wrong, the TLC configurations that check them on small
instances, and proofs, checked by TLAPS, that every safety property of those runs holds for
every instance.

## The system

One Go process over one SQLite database. Every write is a `BEGIN IMMEDIATE`
transaction (`internal/v4/storage/db.go`): writers are serial, and a crash loses at
most transactions that have not committed. What is hard is what happens *between*
transactions and *with the clock*: each handler reads the wall clock before it waits
for the write lock, so transactions commit with timestamps that are a little old
and not in the order of those timestamps.

| Component (under `internal/v4/`) | State | Operations | Hard parts | What makes it correct |
|---|---|---|---|---|
| `payments` ledger | `payments`, `amount_reservations`, `payment_history`, outbox rows of `webhook_deliveries`, `idempotency_keys`, `payment_observations` | Create, Cancel, ExpireDue, ApplyObservation | stale clocks, amount reuse, late evidence, races between handlers | one owner per amount; money is never credited to another payment; one payment per key; outbox tells the status |
| `adminpayments` | the same tables | Edit (any status change, reopening) | reopening races the release of the amount; history read back by timestamp | a reopened payment owns its amount; evidence rules follow what operators did |
| `webhooks` | `webhook_deliveries` rows, the live configuration | SendPending (claim, post, finish), RetryOne, UpdateConfig | crash between post and record, lost responses, dropped errors, retry of a row in flight | at least once, bounded, every event settles |
| `operator` settings | `settings` | ConfigureWebhook, BootstrapWebhook, ApplyPersistedWebhook | stored and live configuration change in two steps; restart | the worker runs on what is stored |
| `relay` ingestion | `relay_events` | IngestSigned, IngestBatchSigned, RedactRawEvents | duplicated and overlapping requests, half-done batches, crash after accept, retention worker | decided once, never lost, answers are outcomes |
| `relay` pairing | `relay_devices`, `pairing_sessions` | CreatePairing, PairDevice, RevokeDevice | device checked outside the transaction, clocks out of order | revocation and re-pairing win over requests in flight |
| `observations` | none | Parse | text | a wrong parse is no credit |
| `profiles` | `collection_profiles` | Upsert, UpdateDestination, Activate | a phone authenticated outside the transaction; activation against saving and disabling | one active, enabled profile; a phone's change needs its enrolment; payments keep their snapshot |
| `auth` | `admin_credentials`, `admin_sessions`, `api_keys` | CreateAdminSession, ChangePassword, RevokeAdminSession, CreateAPIKey, RevokeAPIKey, bootstrap at start | verification takes long and happens outside the transaction; restarts | no session outlives its password, no change is lost, a revoked key stays revoked |
| `httpapi` login throttle | `loginFailures`, the slots, in memory | login | overlapping logins, failures recorded out of order, pruning, eviction | guesses are bounded, slots come back |
| `storage` schema | the SQLite file | Open and its migrations | stopped between transactions; files of every earlier build | a process serves its own schema; no new shared amounts |
| `storage` backup and drill, `runtime` backup worker | the backup directory | BackupTo, pruneBackups, RestoreDrill | crash, error or loss of power between two file operations | a published backup is whole and restorable; pruning keeps what cannot be lost |
| `processlock` | the lock file | Acquire, Release | starting while another stops or is killed | one process at a time opens and serves the file |
| `runtime`, `cmd/paygate-v4` | the connections that are out | start-up, expiry, webhook, retention and backup workers, shutdown | crash at any step; a shutdown that waits neither for workers nor, past 15 s, for handlers | what outlives the lock does no harm; fairness of the others rests on it |
| `operator` queries, `money`, `migratev3`, `web-v4`, the rest of `httpapi` | - | reads, formatting, one-off conversion, UI, decoding | - | not modelled |

How they interact: `httpapi` calls `payments`, `adminpayments` and `operator`;
a phone's request goes through `relay`, which decides an event by calling
`payments.ApplyObservationForRelay`; every ledger transaction writes its
events into the outbox; `webhooks` delivers them on a timer and when woken;
`runtime` takes the process lock, opens (and upgrades) the file and starts the
workers. A phone's enrolment, kept by `relay`, also authenticates its change of the
active profile's destination, and `payments.Create` copies the active profile.

## The modules

### `PaymentLedger`

The ledger, the operator's edits, and profile activation. An action is one
committed transaction and commits with a timestamp `now \in Recent`, at most `MaxLag`
behind the clock: this is the only thing a handler keeps from before the lock.
A rejected request rolls back (its purge of old keys and its releases too) and is
no step.

| Code | Module |
|---|---|
| `payments`, `amount_reservations` (one row a payment, so indexed by it) | `status`, `requested`, `payable`, `profile`, `createdAt`, `paidAt`, `releasedAt`; the windows are functions of `createdAt` (`GraceUntil`, `ReuseAfter`) |
| `idempotency_keys` | `idem`, and `keyOf` for what a payment was created under |
| `payment_history` read `ORDER BY created_at,id` | `history`, where a new row is filed anywhere among those of its timestamp (`Filings`: ids are random) |
| `webhook_deliveries` as an outbox | `outbox`, in commit order |
| `relay_events`, `payment_observations` | `evStatus`, `evidence`, `matched`, `result`; `authorised` for the device row `applyObservation` reads again |
| `Allocator.Select` | `DueReservations`, `Released`, `Free`, `BucketCandidates`, `Select` |
| `Service.Create`, and its replay | `Create`, `Replay` |
| `Service.Cancel`, `Service.ExpireDue` | `Cancel`, `ExpireDue` (any batch the query may return) |
| `Service.applyObservation` | `ApplyObservation` over `MatchingCandidates`, `OccurredDuringCancellation` |
| `adminpayments.Service.Edit` | `Edit` |
| `profiles.Service.Activate` | `Activate` |

`evidence[e].intended` is the payment the customer was looking at when paying; the
code cannot see it, and the attribution properties are about it. `Receive` puts
the credit at any time since that payment was created. Abstracted: names, notes,
payer details and metadata (a key's request is its amount), the id texts, the
expiry of the QR code (which changes no state). Rupees have `Unit` = 2 paise
on small instances (one usable amount a rupee instead of 99).

### `AmountRegister`

What the ledger promises about amounts, without its clocks: an amount has at most
one owner, it changes hands only when a payment is created - which may free any
other amounts - and a payment that becomes pending again still owns its amount.
`PaymentLedger!Register` is the refinement mapping: the owner of an amount is the
payment with the unreleased reservation, the phase its status.

### `EventRegister`

What becomes of a relayed notification, as phone, relay and ledger rely on it: it is received
once and settled once, with at most one match result; it is matched only while its phone is entitled
to report it; and a phone is told the settled outcome or "ignored". Both sides implement it.
`RelayIngest!Register` maps the standing to the row, what was told to the answers, and takes for
entitled the events of phones enrolled since before they occurred; `PaymentLedger!RelayRegister` maps it to
`evStatus`, `result` and `authorised`, and tells nobody. This is how the two modules fit
together: `RelayIngest!Observe` leaves the match result open and `PaymentLedger` leaves open who
sends events and when, but both mean the same by an event, its settlement and the right to it.

### `WebhookDelivery`

The worker on the outbox rows, and the webhook settings. `SendPending` is
`Start` (list), then for each id `Claim` or `Skip`, `Post`, `Finish` or `FinishLost`.
Time is what `next_attempt_at` is compared with: `past` (due for the current batch),
`since` (due, but later than the batch's `now`), `future`. `Post` answers `ok`,
`lost` (accepted, but no response), `transient` or `permanent`. `ConfigureWebhook` is
`Load`, `Store`, `Apply`, by several operators at a time; `Restart` is a crash and
`runtime.New`. Ghosts (`claims`, `accepted`, `unlearned`, `refused`) record what
has happened; `stale` counts posts made with a configuration that has been replaced.
It composes with the ledger through `Enqueue`, which may add a row at any time.

### `DeliveryQueue`

What a merchant may rely on of the webhooks, without batches, attempts, settings and crashes: an
event is offered until it is delivered or given up, is delivered only after it has been taken, which is final,
and is taken again only after a taking that nobody heard of or that was forgotten. `WebhookDelivery!Queue` is
the mapping: a row that waits is *taken* between the answer and its record, and the ghosts
`accepted` and `unlearned` count takings.

### `RelayIngest`

Phones, pairing, and requests of one or more events. A request is verified outside
any transaction (`Verify`), and for each event accepted in one (`AcceptNew`,
`AcceptKnown`, `Reject`) and decided in another (`Observe`, `Refuse` then `IgnoreEvent`,
`MarkAmbiguous`, `IgnoreEvent`); `Respond` is its 200. `Fail` aborts the rest of
a request or loses its answer, `Crash` aborts all. `Redact` is the retention worker.
The match result is any, because `PaymentLedger` says which. Phones keep an event until
they have an answer and send it again, even while a request is in progress; this
side is not in the repository and is modelled from what the handlers and the
documents expect of it (marked external in the map, as are the wall clock and crashes).
Every phone has just been paired at the start: an enrolment from nothing is a
pairing of a known device. Not modelled: signatures and the tolerance of their
timestamp, devices without an epoch header, payload hashes (an id conflict is a `Fail`),
heartbeats (they write columns nothing else reads), phone clocks that are behind.

### `AdminAccess`, `CollectionProfiles` and `AdminConsole`

`AdminAccess` is `auth.Service` and the login throttle. A login is `Arrive` (pruning and
`loginAttemptAllowed`; the time taken here is used to the end), `ReadHash` (a slot and the
hash), `OpenSession` or `RefuseLogin` (the transaction reads the hash again), then
`AnswerLogin` or `RecordFailure`; `LoginBusy` and `TurnAway` are the early returns. A
password change is `AskChange`, `VerifyChange`, `CommitChange` or `FailChange`. A hash is its
salt and its password; `under` in a session row is a ghost, the salt it was opened under.
`guesses` is a ghost, too: of each remote, every failure counted since the last success, eviction or
restart, known by the run of failures it belongs to, its number in that run and the time its
login arrived. `Start` is the bootstrap of password and merchant key. What is
assumed: a verification and its transaction end within `MaxLogin` (a second of hashing and
the busy timeout), twice of which fit in a block, and a block and three of them in a window
(`ThrottleAssumption`; the code has a minute and fifteen). Not modelled: last-used columns, the text of tokens, the strength of
hashes.

`CollectionProfiles` is `profiles.Service` and the requests that reach it. A phone's request
is `Authenticate`, then `UpdateForRelay` or `RefuseRelay`; a service call is one transaction, and
`Constraints` are the table's check and unique index. Pairing is `Enrol`, as
`RelayIngest!EpochsGrow` allows it. `SwitchesToAnother` is what `PaymentLedger!Activate` takes for
granted. `ProfilesAssumption` excludes a profile with the id
"active": `Upsert` accepts it, but updates take the word for the active profile.

`AdminConsole` is both together for TLC; they share no state.

### `SchemaUpgrade` and `DataDirectory`

`SchemaUpgrade` is the file: the version, the constraint objects and columns in which builds
differ, and the reservations of one payable amount, since the constraints compare only
reservations of equal amount. It defines what each transaction of `Open` makes of a file
(`Applied`), what inserts its constraints admit (`InsertAllowed`), what the restore
drill demands (`RestoreAccepts`, one operator per kind of object), and the files this build
may find (`EarlierDatabases`: those of each build the tests and the SQL know, and its own).

`DataDirectory` has the processes around it: `Acquire`, `ReadVersions`, `Upgrade` (one per
transaction of `Open`), serving, and the shutdown: `CloseDatabase`, `ReleaseLock`, `Exit`. A
transaction of a handler or worker is `Connect`, which takes a connection of the pool, then `Reserve`, `ReleaseDue`
or `Rollback`, which return it. Closing the pool ends idle connections only, and nobody waits for the
workers, so what is in flight may commit after `CloseDatabase` and after `ReleaseLock`, beside the next process;
only `Exit` (or a crash) ends it. The same goes for the backup worker, step by step (`OpenSource`, `CopyBackup`, `SyncBackup`, `ChmodBackup`, `LinkBackup`, `RemoveTemp`,
`SyncDirectory`, `PruneOldest`), errors (`FailUpgrade`, `FailBackup`), `Crash` of a
process, and `PowerLoss`, which takes from the backup directory any part of what was not
synced. This is a journaling file system: a sync of the directory makes all earlier changes of
names and modes durable, and a file's data survive if the file was synced. Two things are taken
for granted: backups are a day apart (`nextDailyBackup`), and a process that has released the lock, which
has nothing left to do but return from `main`, is gone by then, so that there is one attempt at a time; and
every process is of this build, for what an older build's transactions would do to the file is not in
this repository. Not modelled: the temporary name (random, never read again; one that a crash leaves is never removed), pragmas,
the rows a table's rebuild copies, and a clock that steps back - names of backups
grow with it, and if it did step back pruning would take the newest for the oldest.

### The others

`MCPaymentLedger` adds the symmetry sets, and two statements of the documents and the
tests that the code does not meet. `MCLedgerAmounts`, `MCWebhookDelivery`, `MCDataDirectory` and
`AdminConsole` have a variable `focus`, chosen initially and constant: it says which
actors move, so that one run asks its questions of several small instances. Any
behaviour with a given focus is one of the specification (with stuttering), and every action moves
in some run. `...Proofs` and `PaymentLedgerRefinement` hold the theorems. Operators preceded by
"Mutant:" are plausible bugs, one for each property: put in place of the definition
that follows them, they make TLC find the property violated, so that a property
that holds is known to hold because of the code.

## The runs

Passing runs:

| Run | Instance | What it shows |
|---|---|---|
| `LedgerAmounts` | focus *amounts*: 3 payments, 2 keys, requests of adjacent rupees that share an overflow bucket, lag 1, clock to 5; *evidence*: 2 payments on one amount, 2 profiles, 1 notification, Paytm's or generic, lag 1, clock to 4 | `AmountsExclusive`, `HeldUntilReuse`; `ReuseSeparated` and `KeyReuseSeparated`, both exact up to `MaxLag`: the windows of payments with one amount, and the creations under one key, are apart but for the staleness of a clock; `LowestFreeBucket`: the soft horizon never pushes a customer to the next rupee; `NoMisattribution`: money sent in the window of its payment goes there or nowhere, and `EvidenceFindsItsPayment`: Paytm's notification of it goes there; the exceptions in the formulas (a cancelled payment and a stale clock; another payment whose window contains the time) are reached |
| `LedgerEditing` | 1 payment, 2 of Paytm's notifications, every edit, history to 3 | `TypeOK`, `OutboxTellsStatus` |
| `LedgerLiveness` | 2 payments on one amount, reopening, one expiry a batch, clock to 4 | `ImplementsRegister`, `PendingSettles` |
| `WebhookDelivery` | batch of 1, 2 attempts; focus *worker*: 2 events, 1 crash or lost write, 1 operator retry; *settings*: 1 event, 2 operators, 1 generated secret besides the environment's, 1 crash; *rotation*: 2 events, 1 operator | `TypeOK`, `SettledHonestly`, `AttemptsBounded`, `StalePostsBounded`, `SequentialSettingsLive`, `EventsSettle`, `ImplementsQueue` |
| `RelayOverlap` | 1 phone, 1 event of any kind, 2 requests, pairing, revocation, retention, 1 fault, skew and lag 1, clock to 3 | `TypeOK`, `ImplementsEvents`, `VerdictsFinal`, `EnrolmentWins`, `EpochsGrow` |
| `RelayBatch` | 1 phone, 2 credits, 1 request of at most 2, 1 fault, clock to 2 | `AnsweredIsDecided`, `EventsAnswered` |
| `AdminConsole` | 2 requests, 2 passwords, 2 sessions, limit 2 failures, throttle of 2 entries, 2 remotes, window 5, block 2, clock to 6, 1 restart; 2 profiles, 1 phone, 2 of its requests; focus *passwords*, *throttle*, *crowd*, *keys* or *profiles* | `SessionsUnderCurrent`, `NoLostChange`: a login or change verified against a password that is replaced meanwhile is refused; `RevokedStaysRevoked`; `GuessesBounded`: guesses started within a block's length are at most those below the limit of two runs, and from the limit on each request in flight twice; `OneProfileServes`, `RePairingInvalidates`; `TypeOK` also counts the slots |
| `DataDirectory` | 2 processes with 2 connections each, 3 reservations of one amount, files of every earlier build; 3 backups with 2 kept, 1 crash or loss of power, 1 failure; focus *upgrade* or *backups* | `OneOperates`: who still has the file open beside a process that opens or serves it has released the lock; `ServesCurrentSchema`, `NoNewOverlap`: its late transactions meet this build's constraints; `AcceptedMeansRestorable`, `PublishedPassDrill`, `RetainedSurvive`, `StartsUp`; `DirectoryTypeOK` also bounds the connections by the pool |

Runs that TLC refutes, each a statement of the repository the code does not keep:

- `LedgerReopenedEvidence` (`PendingTakesEvidence`). An operator edits a cancelled
  payment to expired or paid and then to pending. `occurredDuringCancellation` ends a
  cancellation only at a direct cancelled-to-pending row, so the evidence of the
  pending payment is unmatched.
- `LedgerLateMoney` (`CancelledRejectsLateMoney`). History is read by the clock
  of the handlers, not by commit order. A cancellation that commits after a reopening but
  read its clock before (or in the same millisecond, with a smaller random id) is
  read as undone, and the cancelled payment takes money sent after it.
- `WebhookDisabled` (`DisabledStaysDisabled`). With the webhook still in the
  environment, a disable in Settings lasts until the next start.
- `RelayReplay` (`AnswersAgree`). A repetition that overlaps its first request is answered
  `ignored` although the event was matched. What is stored is right
  (`VerdictsFinal`), and a later repetition returns it; a phone shows the
  wrong word.

Four further disagreements have no run of their own. Two of them change what the system does, and the models
follow the code:

- *Generic evidence.* `sourceCanAutoConfirm` (`matching.go:233-236`) admits the generic source, so a
  notification of no bound app marks a payment paid (`CanAutoConfirm`). Documents 03 (225-228), 10 (542-543) and the
  main README (57, 154) say that such evidence is kept as ambiguous and changes no payment. The passing runs do
  not settle this in favour of the code: `EvidenceFindsItsPayment` asks nothing of generic evidence, and
  `NoMisattribution` only says where money does not go, whatever evidence confirms it.
- *One process owns the file* (document 10, 539). A process that stops releases the lock while a
  transaction or the backup may still have a connection (`app.go:182-188`), and the next one opens the file. `OneOperates`
  states what is left of the promise, and the other properties of the directory that this overlap is harmless: the earlier
  process takes nothing new, and its late transactions and backup break no property of the file.

In the other two no behaviour is at stake or the documents do not promise one: overlapping settings requests
can leave the live configuration different from the stored one until the next request or start
(`settings.go:75-87`, which is why `SequentialSettingsLive` says "while none have
overlapped"); document 03 speaks of two buckets where the
allocator has six (`allocator.go:31`).

Three things the models show that are no disagreement with a document. The drill refuses
backups of versions 1 to 3 and of the first version 4, which this build's `Open` would
upgrade: they carry the index that allowed one relay (`RelaysAccepted`). The throttle
forgets a blocked address when it has to make room, so `GuessesBounded` counts from the last
eviction. A failure is recorded as of its login's arrival, so one recorded late moves the end of a
block back (`admin.go:303-320`), and the requests in flight may guess once more when the block ends:
this is why the bound counts each of them twice.

### Bounds

Deadlock is checked for the directory only: elsewhere clocks, retries and faults are bounded, so a behaviour may
run out of steps. Every bound is a constant of the module.

- *Ledger*: two payments on one amount is the smallest case of reuse, three with
  two adjacent requests the smallest with an overflow and a third party. Windows are one tick
  each; what matters is the order of a time and a window's ends, and every such
  order within `MaxClock` occurs. `MaxLag` = 1 lets any two transactions commit in the
  opposite order of their clocks. `MaxHistory` bounds operator edits only.
- *Webhooks*: with batches of one and two events a retry waits behind fresh rows;
  two attempts give one retry and one exhaustion; one crash hits every step. A settings
  request against a batch needs an event under way and one waiting (*rotation*), two requests that
  overlap need two operators (*settings*).
- *Relay*: two requests are enough for the races, as a handler keeps only the
  device's epoch and its clock; one event for what concerns one decision, two for
  a batch that is half done.
- *Console*: two requests and two tokens are enough for a login or change against
  another; a limit of two failures is the smallest that can be exceeded by an overlap, and six ticks hold a
  window, a block and the ticks around them. Two addresses fill a throttle of two entries,
  and a third does not add a case: an eviction takes whichever is oldest.
- *Directory*: three reservations of one amount and two profiles give every pair a build may
  have left and a new one beside it; three backups with two kept make pruning remove one; a crash or loss of power
  and a failure hit every step of a start, a shutdown or a backup, one after the other if need be. Two connections are one for a
  backup or transaction that ends late and one beside it. Two processes are the one that stops and the one that takes
  over, in both focuses. The amount's reservations and the
  backups meet only in the file that is copied, so each focus moves one of them.

The proofs below remove the bounds for every safety property of a passing run.

### Fairness

- `PaymentLedger!FairSpec`: the clock ticks and the expiry worker, a ticker
  loop of `runtime/workers.go` that survives errors, runs. Nothing is asked of merchants,
  operators or phones.
- `WebhookDelivery!FairSpec`: the worker's loop runs (ticker and wake-ups, one mutex), leases and
  back-offs end. It is weak fairness of the loop as a whole; answers are the
  endpoint's choice. `EventsSettle` holds for webhooks that are live for good from some time on.
- `RelayIngest!FairSpec`: a handler that has started runs on (weak), and a phone sends
  again what has no answer. The latter is strong fairness: the number of requests
  in progress at a time is the model's bound, not the server's, and a
  slot that frees again and again must be available to it. `EventsAnswered` assumes that the
  phone is enrolled and knows its epoch for good from some time on.
- `DataDirectory!DirectorySpec`: a supervisor starts the server (a process that is down tries
  again), a start goes on until it serves or fails, and a shutdown that has closed the pool releases the
  lock and returns. No transaction or backup is required to end.
  `StartsUp` needs nothing of the backups or of operators; failures and crashes are bounded, as a
  disk that is always full starts nothing.
- `AdminAccess` and `CollectionProfiles` state no fairness: nothing in them has to happen without
  an operator.

## The proofs

A theorem holds for any sets of payments, keys, amounts, profiles, events, deliveries, devices,
requests, processes and reservations, any lengths of windows, batches and lags and any number
of crashes. The assumptions are the named ones of the modules (`ConstantAssumption`,
`DeliveryAssumption`, `RelayAssumption`, `SentinelAssumption`, `AccessAssumption`, `ThrottleAssumption`,
`ProfilesAssumption`, `ConsoleAssumption`, `DirectoryAssumption`, `ProfilesFinite`), which the code's constants satisfy and TLC evaluates on
each run.

| Module | Theorems | Statement |
|---|---|---|
| `PaymentLedgerProofs` | `TypeCorrect`, `AmountsNeverShared`, `AmountsHeldUntilReuse`, `WindowsSeparated`, `OnePaymentPerKey`, `OutboxFaithful`; `LowestRupeeFirst` | `Spec => []` of `TypeOK`, `AmountsExclusive`, `HeldUntilReuse`, `ReuseSeparated`, `KeyReuseSeparated`, `OutboxTellsStatus`; `Spec => LowestFreeBucket` |
| `LedgerMatchingProofs` | `MoneyIsNotMisattributed`, `LateEvidenceIsFound` | `Spec => []` of `NoMisattribution`, `EvidenceFindsItsPayment` |
| `PaymentLedgerRefinement` | `LedgerImplementsRegister`, `LedgerImplementsEvents` | `Spec =>` `ImplementsRegister`, `ImplementsEvents` |
| `WebhookDeliveryProofs` | `DeliveryTypeCorrect`, `OutcomesHonest`, `DuplicatesHaveACause`, `RoundsAreBounded`, `StalePostsEnd`, `SettingsGoLive`; `WorkerImplementsQueue` | `Spec => []` of `TypeOK`, `SettledHonestly`, `DuplicatesExplained`, `AttemptsBounded`, `StalePostsBounded`, `SequentialSettingsLive`; `Spec => ImplementsQueue` |
| `RelayIngestProofs` | `RelayTypeCorrect`, `NothingForgottenUndecided`, `AnswersAreStored`; `RelayImplementsEvents`, `DecisionsAreFinal`, `EnrolmentDecides`, `EpochsAlwaysGrow` | `Spec => []` of `TypeOK`, `AnsweredIsDecided`, `AnswersAreOutcomes`; `Spec =>` `ImplementsEvents`, `VerdictsFinal`, `EnrolmentWins`, `EpochsGrow` |
| `AdminAccessProofs` | `AccessTypes`, `SessionsFollowPassword`, `RevocationIsFinal`, `GuessesStayBounded`; `ChangesAreSeen` | `AccessSpec => []` of `AccessTypeOK`, `SessionsUnderCurrent`, `RevokedStaysRevoked`, `GuessesBounded`; `AccessSpec => NoLostChange` |
| `AdminConsoleProofs` | `ProfilesTypes`, `ServesOneProfile`; `PairingInvalidates`, `ActivationSwitches`; `ConsoleImplements`, `ConsoleTypes` | `ProfilesSpec => []` of `ProfilesTypeOK`, `OneProfileServes`; `ProfilesSpec =>` `RePairingInvalidates`, `SwitchesToAnother`; `Spec => AccessSpec /\ ProfilesSpec`, `Spec => []TypeOK` |
| `DataDirectoryProofs` | `DirectoryTypes`, `OneProcessOperates`, `ServesUpToDate`, `AcceptedFilesOpen`, `PublishedBackupsAreWhole`, `BackupsAreRetained`; `OverlapsOnlyEnd` | `DirectorySpec => []` of `DirectoryTypeOK`, `OneOperates`, `ServesCurrentSchema`, `AcceptedMeansRestorable`, `PublishedPassDrill`, `RetainedSurvive`; `DirectorySpec => NoNewOverlap` |

The arguments:

1. *Ledger, types.* `Typed` is `TypeOK` and "an event that exists has its evidence": without the
   latter, matching would read fields of `Null`. The lemmas on `Filings` say that
   inserting a row keeps a history a sequence of rows.
2. *Ledger, reservations.* `AmountsExclusive` and `HeldUntilReuse` need only the types; `ReuseSeparated`
   rests on `HeldUntilReuse`, and `KeyReuseSeparated` on `KeysRemembered`: a payment is
   still the one its key maps to, or was created at least a TTL before the clock.
   `ReservationInv` is their conjunction. `Create` is the only action that matters: `Select`
   returns an amount that no holder owns (`SelectFree`); an amount that is not held was
   released after its `ReuseAfter` and before the clock, and the new
   payment's clock is at most `MaxLag` behind that (`AmountFreeWhenTaken`).
   All other actions leave these variables alone. `LowestFreeBucket` needs no invariant: only `Create` adds a payment
   (`OnlyCreateAdds`), and a bucket that `Select` passes over has no candidate, preferred or not, so each
   of its amounts has a holder, who keeps it through the release in the same step (`PassedOverIsHeld`).
3. *Ledger, outbox.* `StoriesTold` reads the sequence pairwise (each event legal after the
   one before, the last carrying the stored status), which one appended row preserves.
4. *Ledger, refinement.* The mapped owner is a `CHOOSE`; `OwnersUnique` (from
   `AmountsExclusive`) makes it the owner. `MappedInv` adds to the reservations that
   payable amounts are in the register. Each action is then a `Create` or a `Move` of the register, or
   a stutter; reopening needs the check of `released_at`, the clock alone would not do
   (mutant `ReopenableByClock`). No code path sets `released_at` back to null, so the reservation is
   held throughout.
5. *Ledger, matching.* `MatchingInv` adds to `ReservationInv` what an event is about (`Meant`), that it
   is judged once (`Unjudged`), that who is credited shows the amount in a window containing the
   time (`Attributed`), that only a cancellation diverts money (`DivertedByCancellation`), and, of
   either source, that evidence sent in a window is found (`EvidenceFound`, of which `EvidenceFindsItsPayment`
   is the part the documents promise). Rows are frozen and histories only grow (`Lasting`), so a
   judgement stays right; at the judgement, `WindowsSeparated` leaves one
   candidate unless a clock was stale, and only a cancellation rules out the right one.
6. *Webhooks.* Each property has its own strengthening over `Typed`: `Settled` (what the worker holds in
   flight is what the endpoint has seen), `Explained` (a row that still waits has been accepted
   no oftener than the worker failed to learn of it), `Rounds` (claims are paid for by
   `Budget`, and a row whose attempts are used up was paid for in advance), `Draining` (stale posts
   plus the rest of the batch fit in a batch), `Sequential` (the one request in progress
   explains any difference of stored and live). The refinement of `DeliveryQueue` rests on `Explained` and
   `Lined` (a batch lists rows that exist): what is in flight waits, so an answer is a taking of a waiting event,
   `Finish` settles it, and `Restart` or `FinishLost` at that point forgets it. `DuplicatesExplained` is what the merchant
   can count on in numbers; no run checks it beside `ImplementsQueue`.
7. *Relay.* `Inv` says of each request that the answers it has collected belong to the first of its items
   and are decided outcomes, and that what it is deciding has its row (`Handled`), and of a verdict that it belongs
   to a decided credit (`Observed`). `Monotone`, what no step takes back, carries `Handled` of all
   the requests that do not move over every step, and is `VerdictsFinal`. The refinement of `EventRegister`
   rests on the same invariant: what a request holds of its phone makes `Observe` a judgement of an entitled
   event, and `AnswersAreOutcomes` after `Respond` makes it a telling. On the ledger's side types are enough.
8. *Access.* `SessionsUnderCurrent` is inductive by itself, because of the second reading of the hash
   and the deletion in one transaction. `RevokedInv` keeps a revoked key's row, so that the table is
   never empty for the bootstrap key. The types include two counts: pruning leaves room for the entry
   that is added, and `loginSlots` is the number of requests that hold one.
9. *Guesses.* `ThrottleInv` says what the times of a login and of an entry have to do with each other. Two runs of
   one remote are apart by a window less twice `MaxLogin`, so at most two touch a stretch as long
   as a block (`RunInv`); the entry of the latest run numbers its guesses without gaps, and
   what is counted from the limit on blocks (`EntryInv`). For any stretch, `PhaseInv` weighs the guesses from the limit on that
   fall in it against the logins still waiting, in five phases: there is no such guess; the remote is blocked until the
   stretch is over; an earlier login's failure has moved the end of the block into its last `MaxLogin`; the clock
   is there; it is over. One lemma per kind of step (`PhasePasses`, `PhaseAside`, `PhaseRecords`) keeps it. In each
   phase there are at most 2n - 1 such guesses of n requests; below the limit the guesses
   are counted by their numbers in two runs, of which the earlier has begun before the stretch (`BelowLimit`).
10. *Profiles.* `ProfilesInv` is the types and the property; the saved table meets the constraints, and
   `SavedServes` leaves only that an active profile remains. Only `Switched` changes who is active.
11. *Console.* Every step of the run's specification, whatever its focus, is a step of one half and
   leaves the other (`ConsoleSteps`): `Spec` implements both, and their theorems hold of it.
12. *Directory.* `DirectoryInv`: only the owner of the lock opens, serves or closes; the file is `Sane` (its version vouches
   for its columns and no profile holds the amount twice), and is as far as each process says (`Ready`, one
   conjunct per transaction of `Open`, and this build's schema for a process that has served, released the lock or
   not); and only a process that has served has a connection or a backup out. Two lemmas make this inductive although
   processes overlap: on a file of this build's schema every transaction of `Open` keeps that schema (`CurrentStays`), so that the next process
   takes nothing from the one before it, and a late transaction keeps what any step of `Open` expects
   (`TransactionKeepsReady`). `OneOperates` follows, since who opens or serves owns the lock. `BackupInv`: a file is whole once it is synced, and only synced files
   have had a name, so whatever part of the names a loss of power leaves is of whole files.
13. *Retention.* The names that survive a loss of power are those whose directory entry has been
   synced. A backup is reported after that sync, and pruning starts after it and takes the
   oldest name while more than `Keep` are left, so it never takes one of the newest `Keep`, and the newest of
   all is the one just reported.

Out of the prover's reach and left to TLC: liveness (`PendingSettles`, `EventsSettle`,
`EventsAnswered`, `StartsUp`), and `ENABLED`. `LedgerImplementsEvents` and `ActivationSwitches` have no run
of their own: the first says of the ledger what `RelayOverlap` checks of the relay, the second follows the
property `OneProfileServes` of `AdminConsole`.

## Plan

Done: ledger, registers of amounts and of events, the queue of deliveries, webhooks with settings, relay, console access, profiles,
schema upgrade, process lock and backups, and a theorem for each of their safety properties.
What is left: the outcome rules of the parser as pure operators over abstract notifications.

## Not modelled

HTTP decoding, routing and the limits on request sizes; reads for the console and the
health check; text of notifications and its patterns; cryptography (signatures, hashes and tokens are
taken to work); money formatting; the web console; the configuration of the server
command. The migration from version 3 is a sequential conversion of a stopped database, written directly into a new
file: what it can get wrong is its arithmetic on data, for which
its tests are the better means.

## Running

    tlc -workers 2 -config LedgerAmounts.cfg MCLedgerAmounts.tla
    tlc -workers 2 -config LedgerEditing.cfg MCPaymentLedger.tla
    tlc -workers 2 -config WebhookDelivery.cfg MCWebhookDelivery.tla
    tlc -workers 2 -config RelayOverlap.cfg RelayIngest.tla
    tlc -workers 2 -config AdminConsole.cfg AdminConsole.tla
    tlc -workers 2 -config DataDirectory.cfg MCDataDirectory.tla
    tlapm PaymentLedgerProofs.tla

The other configurations that start with `Ledger` belong to `MCPaymentLedger`, `WebhookDisabled` to
`WebhookDelivery` and `RelayBatch` and `RelayReplay` to `RelayIngest`. `tlapm` takes each module whose name
ends in `Proofs` or `Refinement` in the same way.
No configuration needs more than about two minutes.
