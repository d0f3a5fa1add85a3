--------------------------- MODULE PaymentLedger ---------------------------
(***************************************************************************)
(* The payment-critical tables of PayGate v4 and every handler that writes *)
(* them: payments, amount_reservations, payment_history, the webhook       *)
(* outbox rows, idempotency_keys and payment_observations                  *)
(* (internal/v4/payments, internal/v4/adminpayments).                      *)
(*                                                                         *)
(* Every write is one BEGIN IMMEDIATE transaction (storage/db.go), so an   *)
(* action is one committed transaction.  A handler reads the wall clock    *)
(* BEFORE it waits for the write lock and keeps nothing else from before   *)
(* it; a transaction therefore commits with a timestamp `now' that may be  *)
(* up to MaxLag behind the clock, and transactions need not commit in the  *)
(* order of their timestamps.  A rejected request rolls back and is no     *)
(* step.  A crash can only lose a transaction that has not committed.      *)
(***************************************************************************)
EXTENDS Integers, FiniteSets, SequencesExt

CONSTANTS
  Payments,        \* payment ids (random, so interchangeable)
  Keys,            \* (idempotency scope, key) pairs
  Amounts,         \* requested amounts, whole units
  Profiles, Paytm, \* enabled collection profiles; the one named "paytm"
  Events,          \* relay_events ids
  Null,            \* SQL NULL
  Unit,            \* 100 paise
  Buckets,         \* NewAllocator().Buckets
  ActiveFor, GraceFor, Quarantine, SoftHorizon, IdempotencyTTL,
  ExpireLimit,     \* payments one ExpireDue call may expire
  MaxLag,          \* bound on the age of a handler's `now' when it commits
  MaxClock,        \* bound on the clock
  MaxHistory,      \* bound on history rows before an operator edit
  PaidAtInputs,    \* paid_at values an operator types
  EditTargets,     \* statuses an operator sets
  OtherEdits,      \* what else an operator's edit changes
  EvidenceSources  \* sources the relayed notifications come from

ASSUME ConstantAssumption ==
  /\ Null \notin Nat \cup Payments \cup Profiles
  /\ Paytm \in Profiles
  /\ Unit \in Nat /\ Unit > 1
  /\ Amounts \subseteq Nat
  /\ \A a \in Amounts : a > 0 /\ a % Unit = 0
  /\ Buckets \in Nat \ {0}
  /\ {ActiveFor, GraceFor, Quarantine, SoftHorizon} \subseteq Nat \ {0}
  /\ IdempotencyTTL \in Nat \ {0}
  /\ ExpireLimit \in Nat \ {0}
  /\ {MaxLag, MaxClock, MaxHistory} \subseteq Nat
  /\ PaidAtInputs \subseteq Nat
  /\ EditTargets \subseteq {"pending", "paid", "expired", "cancelled"}
  /\ OtherEdits \subseteq {"nothing", "note", "context"}
  /\ EvidenceSources \subseteq {"paytm_notification", "android_notification"}

VARIABLES
  clock,          \* the server's wall clock
  activeProfile,  \* collection_profiles WHERE active=1, or Null
  status, requested, payable, profile, createdAt, paidAt,  \* payments
  keyOf,          \* the idempotency key the payment was created under
  releasedAt,     \* amount_reservations.released_at (one row per payment)
  idem,           \* idempotency_keys: key -> payment
  history,        \* payment_history in the order it is read: created_at, id
  outbox,         \* webhook_deliveries of a payment, in commit order
  evStatus,       \* relay_events.status ("none" before the event exists)
  evidence,       \* the observation parsed from the event
  authorised,     \* events whose device is enabled at the epoch it sent them
  matched,        \* payment_observations.matched_payment_id
  result          \* payment_observations.match_result

paymentRow == <<status, requested, payable, profile, createdAt, paidAt, keyOf>>
trail == <<history, outbox>>
observationRow == <<evStatus, evidence, authorised, matched, result>>
vars == <<clock, activeProfile, paymentRow, releasedAt, idem, trail,
          observationRow>>

Statuses == {"pending", "paid", "expired", "cancelled"}
EventTypes == {"payment.created", "payment.paid", "payment.expired",
               "payment.cancelled", "payment.updated"}
Sources == {"paytm_notification", "android_notification"}
MatchResults == {"matched", "corroborated", "unmatched", "ambiguous"}
RelayStatuses == {"none", "received", "matched", "unmatched", "ambiguous",
                  "ignored"}

\* A history row; from/to are "none" when changes_json has no status change.
HistoryRow == [type : EventTypes, from : Statuses \cup {"none"},
               to : Statuses \cup {"none"}, at : Nat]
\* An outbox row; status is the one in the event's payload.
OutboxRow == [type : EventTypes, status : Statuses]
\* intended is the payment whose displayed amount the customer paid; the code
\* cannot see it.
Observation == [source : Sources, amount : Nat, occurred : Nat,
                intended : Payments]

---------------------------------------------------------------------------
(* Time and the windows of a payment.                                      *)

Exists(p) == status[p] # "none"
Recent == {t \in 0..clock : clock - t <= MaxLag}   \* possible handler `now's
GraceUntil(p) == createdAt[p] + ActiveFor + GraceFor
ReuseAfter(p) == GraceUntil(p) + Quarantine        \* = reserved_until

---------------------------------------------------------------------------
(* Allocator.Select.                                                       *)

\* Mutant: cancelling a payment frees its amount at once.
DueOrCancelled(now) ==
  {p \in Payments : /\ Exists(p) /\ releasedAt[p] = Null
                    /\ status[p] = "cancelled" \/ ReuseAfter(p) <= now}

\* Mutant: the quarantine is skipped.
DueAfterGrace(now) ==
  {p \in Payments : Exists(p) /\ releasedAt[p] = Null /\ GraceUntil(p) <= now}

DueReservations(now) ==
  {p \in Payments : Exists(p) /\ releasedAt[p] = Null /\ ReuseAfter(p) <= now}

Released(now) ==
  [p \in Payments |-> IF p \in DueReservations(now) THEN now ELSE releasedAt[p]]

\* Payments that own their amount once the due reservations are released.
Holders(now) ==
  {p \in Payments : Exists(p) /\ releasedAt[p] = Null} \ DueReservations(now)

Bucket(a, b) == (a + Unit * b + 1) .. (a + Unit * b + Unit - 1)

\* Mutant: only pending payments own their amounts.
FreeOfPending(a, b, now) ==
  {x \in Bucket(a, b) :
     \A p \in Holders(now) : status[p] = "pending" => payable[p] # x}

Free(a, b, now) == {x \in Bucket(a, b) : \A p \in Holders(now) : payable[p] # x}

UsedSince(x, cutoff) ==
  \E p \in Payments : Exists(p) /\ payable[p] = x /\ createdAt[p] >= cutoff

\* Mutant: recently used amounts are not candidates at all.
UnusedCandidates(a, b, now) ==
  {x \in Free(a, b, now) : ~UsedSince(x, now - SoftHorizon)}

\* loadBucketCandidates: amounts outside the soft horizon if there are any.
BucketCandidates(a, b, now) ==
  LET preferred == {x \in Free(a, b, now) : ~UsedSince(x, now - SoftHorizon)}
  IN  IF preferred # {} THEN preferred ELSE Free(a, b, now)

Select(a, now) ==
  UNION {BucketCandidates(a, b, now) :
           b \in {c \in 0..(Buckets - 1) :
                    \A d \in 0..(c - 1) : BucketCandidates(a, d, now) = {}}}

---------------------------------------------------------------------------
(* The audit trail.  Rows are read ORDER BY created_at,id with random ids:  *)
(* a new row may be read anywhere among those with its own timestamp.       *)

Filings(rows, row) ==
  {InsertAt(rows, i, row) :
     i \in {j \in 1..(Len(rows) + 1) :
              /\ \A k \in 1..(j - 1) : rows[k].at <= row.at
              /\ \A k \in j..Len(rows) : rows[k].at >= row.at}}

Enqueue(p, type, st) ==
  outbox' = [outbox EXCEPT ![p] = Append(@, [type |-> type, status |-> st])]

Transition(type, from, to, now) ==
  [type |-> type, from |-> from, to |-> to, at |-> now]

\* appendTransition: a history row and an outbox row in the same transaction.
AppendTransition(p, type, to, now) ==
  /\ \E rows \in Filings(history[p], Transition(type, status[p], to, now)) :
       history' = [history EXCEPT ![p] = rows]
  /\ Enqueue(p, type, to)

---------------------------------------------------------------------------
(* Matching.                                                               *)

\* occurredDuringCancellation, over the history rows in the order read.
OccurredDuringCancellation(p, occurred) ==
  LET h == history[p]
      Cancels(i) == h[i].to = "cancelled"
      Reopens(i) == h[i].from = "cancelled" /\ h[i].to = "pending"
      \* row i set cancelledAt and no row before row j changed it
      Open(i, j) == /\ Cancels(i)
                    /\ \A k \in (i + 1)..(j - 1) : ~Cancels(k) /\ ~Reopens(k)
  IN \E i \in 1..Len(h) :
       /\ occurred > h[i].at
       /\ \/ Open(i, Len(h) + 1)
          \/ \E j \in (i + 1)..Len(h) :
               /\ Open(i, j)
               /\ h[j].to \notin {"none", "cancelled"}
               /\ occurred < h[j].at

\* Mutant: evidence is matched on the active profile, not on the reservation's.
CandidatesOnActiveProfile(o) ==
  {p \in Payments :
     /\ Exists(p)
     /\ payable[p] = o.amount
     /\ createdAt[p] <= o.occurred
     /\ ReuseAfter(p) >= o.occurred
     /\ releasedAt[p] = Null \/ releasedAt[p] >= o.occurred
     /\ profile[p] = activeProfile
     /\ ~OccurredDuringCancellation(p, o.occurred)}

MatchingCandidates(o) ==
  {p \in Payments :
     /\ Exists(p)
     /\ payable[p] = o.amount
     /\ createdAt[p] <= o.occurred
     /\ ReuseAfter(p) >= o.occurred
     /\ releasedAt[p] = Null \/ releasedAt[p] >= o.occurred
     /\ o.source = "paytm_notification" => profile[p] = Paytm
     /\ ~OccurredDuringCancellation(p, o.occurred)}

\* sourceCanAutoConfirm
CanAutoConfirm(source) == source \in Sources

HasConfirmedObservation(p) == \E e \in Events : matched[e] = p

---------------------------------------------------------------------------
Init ==
  /\ clock = 0
  /\ activeProfile = Null
  /\ status = [p \in Payments |-> "none"]
  /\ requested = [p \in Payments |-> 0]
  /\ payable = [p \in Payments |-> 0]
  /\ profile = [p \in Payments |-> Null]
  /\ createdAt = [p \in Payments |-> 0]
  /\ paidAt = [p \in Payments |-> Null]
  /\ keyOf = [p \in Payments |-> Null]
  /\ releasedAt = [p \in Payments |-> Null]
  /\ idem = [k \in Keys |-> Null]
  /\ history = [p \in Payments |-> <<>>]
  /\ outbox = [p \in Payments |-> <<>>]
  /\ evStatus = [e \in Events |-> "none"]
  /\ evidence = [e \in Events |-> Null]
  /\ authorised = {}
  /\ matched = [e \in Events |-> Null]
  /\ result = [e \in Events |-> Null]

Tick ==
  /\ clock < MaxClock
  /\ clock' = clock + 1
  /\ UNCHANGED <<activeProfile, paymentRow, releasedAt, idem, trail,
                 observationRow>>

\* profiles.Activate
Activate(f) ==
  /\ activeProfile # f
  /\ activeProfile' = f
  /\ UNCHANGED <<clock, paymentRow, releasedAt, idem, trail, observationRow>>

---------------------------------------------------------------------------
(* Service.Create.                                                         *)

\* Mutant: a key is forgotten once its payment has settled.
PurgedOnceSettled(now) ==
  [k \in Keys |-> IF idem[k] # Null /\ status[idem[k]] # "pending"
                  THEN Null ELSE idem[k]]

\* DELETE FROM idempotency_keys WHERE expires_at <= now
Purged(now) ==
  [k \in Keys |-> IF idem[k] # Null /\ createdAt[idem[k]] + IdempotencyTTL <= now
                  THEN Null ELSE idem[k]]

Create(p, k, a, now) ==
  /\ ~Exists(p)
  /\ Purged(now)[k] = Null
  /\ activeProfile # Null
  /\ \E x \in Select(a, now) : payable' = [payable EXCEPT ![p] = x]
  /\ releasedAt' = Released(now)
  /\ status' = [status EXCEPT ![p] = "pending"]
  /\ requested' = [requested EXCEPT ![p] = a]
  /\ profile' = [profile EXCEPT ![p] = activeProfile]
  /\ createdAt' = [createdAt EXCEPT ![p] = now]
  /\ keyOf' = [keyOf EXCEPT ![p] = k]
  /\ idem' = [Purged(now) EXCEPT ![k] = p]
  /\ history' = [history EXCEPT ![p] =
                   <<Transition("payment.created", "none", "none", now)>>]
  /\ Enqueue(p, "payment.created", "pending")
  /\ UNCHANGED <<clock, activeProfile, paidAt, observationRow>>

\* The key is known and the request is the same: only the purge is committed.
Replay(k, a, now) ==
  /\ Purged(now)[k] # Null
  /\ requested[idem[k]] = a
  /\ idem' = Purged(now)
  /\ UNCHANGED <<clock, activeProfile, paymentRow, releasedAt, trail,
                 observationRow>>

---------------------------------------------------------------------------
(* Service.Cancel and Service.ExpireDue.                                   *)

Cancel(p, now) ==
  /\ status[p] = "pending"
  /\ status' = [status EXCEPT ![p] = "cancelled"]
  /\ AppendTransition(p, "payment.cancelled", "cancelled", now)
  /\ UNCHANGED <<clock, activeProfile, requested, payable, profile, createdAt,
                 paidAt, keyOf, releasedAt, idem, observationRow>>

\* Mutant: the worker joins on the unreleased reservation.
DueHoldingAmount(now) ==
  {p \in Payments : /\ status[p] = "pending" /\ GraceUntil(p) <= now
                    /\ releasedAt[p] = Null}

DuePayments(now) ==
  {p \in Payments : status[p] = "pending" /\ GraceUntil(p) <= now}

\* The rows SELECT ... ORDER BY grace_until,id LIMIT ExpireLimit may return.
ExpiryBatches(now) ==
  {S \in SUBSET DuePayments(now) :
     /\ S # {}
     /\ \/ Cardinality(S) = ExpireLimit
        \/ S = DuePayments(now) /\ Cardinality(S) < ExpireLimit
     /\ \A p \in S, q \in DuePayments(now) \ S : GraceUntil(p) <= GraceUntil(q)}

ExpireDue(now) ==
  /\ \E S \in ExpiryBatches(now) :
       LET Row == Transition("payment.expired", "pending", "expired", now)
       IN /\ status' = [p \in Payments |->
                          IF p \in S THEN "expired" ELSE status[p]]
          /\ \E filed \in [S -> UNION {Filings(history[p], Row) : p \in S}] :
               /\ \A p \in S : filed[p] \in Filings(history[p], Row)
               /\ history' = [p \in Payments |->
                                IF p \in S THEN filed[p] ELSE history[p]]
          /\ outbox' = [p \in Payments |->
                          IF p \in S
                          THEN Append(outbox[p], [type |-> "payment.expired",
                                                  status |-> "expired"])
                          ELSE outbox[p]]
  /\ UNCHANGED <<clock, activeProfile, requested, payable, profile, createdAt,
                 paidAt, keyOf, releasedAt, idem, observationRow>>

---------------------------------------------------------------------------
(* Relay events, as far as the ledger sees them.                           *)

\* A device relays the notification of a credit the customer of p made.
Receive(e, p, source, occurred) ==
  /\ evStatus[e] = "none"
  /\ Exists(p)
  /\ createdAt[p] <= occurred
  /\ source = "paytm_notification" => profile[p] = Paytm
  /\ evStatus' = [evStatus EXCEPT ![e] = "received"]
  /\ evidence' = [evidence EXCEPT ![e] =
                    [source |-> source, amount |-> payable[p],
                     occurred |-> occurred, intended |-> p]]
  /\ authorised' = authorised \cup {e}
  /\ UNCHANGED <<clock, activeProfile, paymentRow, releasedAt, idem, trail,
                 matched, result>>

\* RevokeDevice, or a new enrolment of it: the undecided events of one device.
Revoke(S) ==
  /\ S # {}
  /\ authorised' = authorised \ S
  /\ UNCHANGED <<clock, activeProfile, paymentRow, releasedAt, idem, trail,
                 evStatus, evidence, matched, result>>

\* finishIgnored and the raw-event retention worker.
Ignore(e) ==
  /\ evStatus[e] = "received"
  /\ evStatus' = [evStatus EXCEPT ![e] = "ignored"]
  /\ UNCHANGED <<clock, activeProfile, paymentRow, releasedAt, idem, trail,
                 evidence, authorised, matched, result>>

---------------------------------------------------------------------------
(* Service.applyObservation.                                               *)

\* Mutant: the match result is written to relay_events.status as it is.
ConcludeVerbatim(e, res, p) ==
  /\ evStatus' = [evStatus EXCEPT ![e] = res]
  /\ matched' = [matched EXCEPT ![e] = p]
  /\ result' = [result EXCEPT ![e] = res]
  /\ UNCHANGED <<evidence, authorised>>

Conclude(e, res, p) ==
  /\ evStatus' = [evStatus EXCEPT ![e] =
                    IF res = "corroborated" THEN "matched" ELSE res]
  /\ matched' = [matched EXCEPT ![e] = p]
  /\ result' = [result EXCEPT ![e] = res]
  /\ UNCHANGED <<evidence, authorised>>

\* Evidence for no payment or for several: stored, nothing else changes.  It
\* must be attributed to a profile: Paytm's own, else the active one.
RecordUndecided(e, res) ==
  /\ evidence[e].source = "paytm_notification" \/ activeProfile # Null
  /\ Conclude(e, res, Null)
  /\ UNCHANGED <<paymentRow, trail>>

\* Mutant: every matched observation is a transition to paid.
MarkPaidAgain(e, p, now) ==
  /\ status' = [status EXCEPT ![p] = "paid"]
  /\ paidAt' = [paidAt EXCEPT ![p] = evidence[e].occurred]
  /\ AppendTransition(p, "payment.paid", "paid", now)
  /\ Conclude(e, "matched", p)
  /\ UNCHANGED <<requested, payable, profile, createdAt, keyOf>>

\* applyMatchedPayment on a payment that is not paid, whatever its status is.
MarkPaid(e, p, now) ==
  /\ status[p] # "paid"
  /\ status' = [status EXCEPT ![p] = "paid"]
  /\ paidAt' = [paidAt EXCEPT ![p] = evidence[e].occurred]
  /\ AppendTransition(p, "payment.paid", "paid", now)
  /\ Conclude(e, "matched", p)
  /\ UNCHANGED <<requested, payable, profile, createdAt, keyOf>>

\* applyMatchedPayment on a paid payment: at most payer details, not modelled.
Corroborate(e, p) ==
  /\ status[p] = "paid"
  /\ Conclude(e, IF HasConfirmedObservation(p) THEN "corroborated" ELSE "matched", p)
  /\ UNCHANGED <<paymentRow, trail>>

ApplyObservation(e, now) ==
  /\ evStatus[e] = "received"
  /\ e \in authorised
  /\ LET o == evidence[e]
         C == MatchingCandidates(o)
     IN \/ C = {} /\ RecordUndecided(e, "unmatched")
        \/ (\E p, q \in C : p # q) /\ RecordUndecided(e, "ambiguous")
        \/ \E p \in C :
             /\ C = {p}
             /\ \/ CanAutoConfirm(o.source) /\ MarkPaid(e, p, now)
                \/ CanAutoConfirm(o.source) /\ Corroborate(e, p)
  /\ UNCHANGED <<clock, activeProfile, releasedAt, idem>>

---------------------------------------------------------------------------
(* adminpayments.Service.Edit.                                             *)

\* operatorHistoryType and operatorWebhookType
OperatorEventType(from, to) ==
  CASE from # to /\ to = "paid" -> "payment.paid"
    [] from = "pending" /\ to = "cancelled" -> "payment.cancelled"
    [] from = "pending" /\ to = "expired" -> "payment.expired"
    [] OTHER -> "payment.updated"

\* applyEdit's paid_at rule; at is the operator's paid_at input or Null.
EditedPaidAt(p, to, at, now) ==
  IF to # "paid" THEN Null
  ELSE IF at # Null THEN at
  ELSE IF paidAt[p] = Null THEN now ELSE paidAt[p]

\* Mutant: reopening trusts the clock and does not look at released_at.
ReopenableByClock(p, now) == now < ReuseAfter(p)

\* ensureReservationReopenable
Reopenable(p, now) == now < ReuseAfter(p) /\ releasedAt[p] = Null

\* to is the status after the edit; other says which further fields change:
\* "note" only the internal note, "context" something the merchant sees.
Edit(p, to, at, other, now) ==
  LET moved == to # status[p]
      newPaidAt == EditedPaidAt(p, to, at, now)
      visible == moved \/ newPaidAt # paidAt[p] \/ other = "context"
      type == OperatorEventType(status[p], to)
  IN
  /\ Exists(p)
  /\ to # "paid" => at = Null
  /\ visible \/ other = "note"
  /\ moved /\ to = "pending" => Reopenable(p, now)
  /\ status' = [status EXCEPT ![p] = to]
  /\ paidAt' = [paidAt EXCEPT ![p] = newPaidAt]
  /\ \E rows \in Filings(history[p],
                         Transition(type, IF moved THEN status[p] ELSE "none",
                                    IF moved THEN to ELSE "none", now)) :
       history' = [history EXCEPT ![p] = rows]
  /\ \/ visible /\ Enqueue(p, type, to)
     \/ ~visible /\ UNCHANGED outbox
  /\ UNCHANGED <<clock, activeProfile, requested, payable, profile, createdAt,
                 keyOf, releasedAt, idem, observationRow>>

---------------------------------------------------------------------------
Next ==
  \/ Tick
  \/ \E f \in Profiles : Activate(f)
  \/ \E p \in Payments, k \in Keys, a \in Amounts, now \in Recent :
       Create(p, k, a, now)
  \/ \E k \in Keys, a \in Amounts, now \in Recent : Replay(k, a, now)
  \/ \E p \in Payments, now \in Recent : Cancel(p, now)
  \/ \E now \in Recent : ExpireDue(now)
  \/ \E e \in Events, p \in Payments, s \in EvidenceSources, occ \in 0..clock :
       Receive(e, p, s, occ)
  \/ \E S \in SUBSET {e \in authorised : evStatus[e] = "received"} : Revoke(S)
  \/ \E e \in Events : Ignore(e)
  \/ \E e \in Events, now \in Recent : ApplyObservation(e, now)
  \/ \E p \in Payments, to \in EditTargets, at \in PaidAtInputs \cup {Null},
        other \in OtherEdits, now \in Recent :
       /\ Len(history[p]) < MaxHistory
       /\ Edit(p, to, at, other, now)

Spec == Init /\ [][Next]_vars

\* The expiry worker runs every 30 s for as long as the process is up, and
\* the clock advances.  Nobody else is obliged to act.
FairSpec == Spec /\ WF_vars(Tick) /\ WF_vars(\E now \in Recent : ExpireDue(now))

---------------------------------------------------------------------------
(* Properties.                                                             *)

\* Every variable holds a value of its column; ids not in use hold defaults.
TypeOK ==
  /\ clock \in Nat
  /\ activeProfile \in Profiles \cup {Null}
  /\ status \in [Payments -> Statuses \cup {"none"}]
  /\ requested \in [Payments -> Nat]
  /\ payable \in [Payments -> Nat]
  /\ profile \in [Payments -> Profiles \cup {Null}]
  /\ createdAt \in [Payments -> Nat]
  /\ paidAt \in [Payments -> Nat \cup {Null}]
  /\ keyOf \in [Payments -> Keys \cup {Null}]
  /\ releasedAt \in [Payments -> Nat \cup {Null}]
  /\ idem \in [Keys -> Payments \cup {Null}]
  /\ history \in [Payments -> Seq(HistoryRow)]
  /\ outbox \in [Payments -> Seq(OutboxRow)]
  /\ evStatus \in [Events -> RelayStatuses]
  /\ evidence \in [Events -> Observation \cup {Null}]
  /\ authorised \subseteq Events
  /\ matched \in [Events -> Payments \cup {Null}]
  /\ result \in [Events -> MatchResults \cup {Null}]

\* No two unreleased reservations hold the same payable amount, on any profile
\* (Allocator.Select inside the transaction that inserts the reservation).
AmountsExclusive ==
  \A p, q \in Payments :
    /\ p # q /\ Exists(p) /\ Exists(q)
    /\ releasedAt[p] = Null /\ releasedAt[q] = Null
    => payable[p] # payable[q]

\* Whatever happens to a payment - paid, cancelled, expired, edited - its
\* amount is not released before reuse_after, and never in the future.
HeldUntilReuse ==
  \A p \in Payments : releasedAt[p] # Null =>
    /\ Exists(p)
    /\ ReuseAfter(p) <= releasedAt[p]
    /\ releasedAt[p] <= clock

\* Two payments with one payable amount have windows [created_at, reuse_after]
\* that overlap by no more than the staleness of a transaction's clock.
ReuseSeparated ==
  \A p, q \in Payments :
    p # q /\ Exists(p) /\ Exists(q) /\ payable[p] = payable[q] =>
      \/ createdAt[q] + MaxLag >= ReuseAfter(p)
      \/ createdAt[p] + MaxLag >= ReuseAfter(q)

\* A key creates a second payment only after its TTL, again up to the clock's
\* staleness: one merchant retry never becomes two payments.
KeyReuseSeparated ==
  \A p, q \in Payments :
    p # q /\ Exists(p) /\ Exists(q) /\ keyOf[p] = keyOf[q] =>
      \/ createdAt[q] + MaxLag >= createdAt[p] + IdempotencyTTL
      \/ createdAt[p] + MaxLag >= createdAt[q] + IdempotencyTTL

WasCancelled(p) == \E i \in 1..Len(history[p]) : history[p][i].to = "cancelled"

PaidInWindow(e) == evidence[e].occurred <= ReuseAfter(evidence[e].intended)

\* Money a customer sent within the window of the payment it was meant for is
\* never credited to another payment, unless its own payment has been
\* cancelled and the two windows overlap through a stale clock.
NoMisattribution ==
  \A e \in Events : matched[e] # Null /\ PaidInWindow(e) =>
    LET p == evidence[e].intended
        q == matched[e]
        occurred == evidence[e].occurred
    IN q # p => /\ WasCancelled(p)
                /\ \/ occurred <= createdAt[p] + MaxLag
                   \/ occurred <= createdAt[q] + MaxLag

InWindow(q, occurred) == createdAt[q] <= occurred /\ occurred <= ReuseAfter(q)

\* Evidence of the bound source (Paytm Business) that is decided - however late,
\* after expiry, after the profile was switched or the amount was reused - finds
\* the payment the money was sent for, unless that payment was cancelled or
\* another payment's window for the amount contains the time.
EvidenceFindsItsPayment ==
  \A e \in Events :
    /\ result[e] # Null /\ PaidInWindow(e)
    /\ evidence[e].source = "paytm_notification"
    =>
    LET p == evidence[e].intended IN
      \/ matched[e] = p
      \/ WasCancelled(p)
      \/ \E q \in Payments : /\ q # p /\ Exists(q) /\ payable[q] = payable[p]
                             /\ InWindow(q, evidence[e].occurred)

\* The events enqueued for a payment tell its merchant a legal story that ends
\* in the stored status: payment.paid only on entering paid, expired and
\* cancelled only from pending, and no status change without an event.
OutboxTellsStatus ==
  \A p \in Payments : Exists(p) =>
    LET n == Len(outbox[p])
        before(i) == outbox[p][i - 1].status
    IN /\ n > 0
       /\ outbox[p][1] = [type |-> "payment.created", status |-> "pending"]
       /\ outbox[p][n].status = status[p]
       /\ \A i \in 2..n :
            CASE outbox[p][i].type = "payment.paid" ->
                   before(i) # "paid" /\ outbox[p][i].status = "paid"
              [] outbox[p][i].type = "payment.expired" ->
                   before(i) = "pending" /\ outbox[p][i].status = "expired"
              [] outbox[p][i].type = "payment.cancelled" ->
                   before(i) = "pending" /\ outbox[p][i].status = "cancelled"
              [] outbox[p][i].type = "payment.updated" ->
                   outbox[p][i].status = "paid" => before(i) = "paid"
              [] OTHER -> FALSE

\* A new payment takes an amount of a later rupee only while every amount of
\* the earlier ones is held: recent use never forces an overflow.
LowestFreeBucket ==
  [][\A p \in Payments : ~Exists(p) /\ Exists(p)' =>
       \E b \in 0..(Buckets - 1) :
         /\ payable'[p] \in Bucket(requested'[p], b)
         /\ \A c \in 0..(b - 1) : \A x \in Bucket(requested'[p], c) :
              \E q \in Payments \ {p} : payable[q] = x /\ releasedAt'[q] = Null
                                        /\ Exists(q)]_vars

\* Under a running expiry worker no payment whose grace ends within the modelled
\* time stays pending, however often operators reopen it or others are due first.
PendingSettles ==
  \A p \in Payments :
    status[p] = "pending" /\ GraceUntil(p) <= MaxClock ~> status[p] # "pending"

---------------------------------------------------------------------------
(* The ledger implements the register of amounts.                          *)

Payables == UNION {Bucket(a, b) : a \in Amounts, b \in 0..(Buckets - 1)}

Owners(x) == {p \in Payments : Exists(p) /\ releasedAt[p] = Null /\ payable[p] = x}

OwnerOf == [x \in Payables |->
              IF Owners(x) = {} THEN Null ELSE CHOOSE p \in Owners(x) : TRUE]

Register == INSTANCE AmountRegister
              WITH Amounts <- Payables, owner <- OwnerOf, phase <- status

\* Every handler is a step of the register: amounts change hands only on
\* creation and a reopened payment still owns its amount.
ImplementsRegister == Register!Spec

\* The ledger's half of the register of events that RelayIngest implements: it
\* settles a received event once, matches it only while its phone is enrolled,
\* and stores the standing that goes with the match result.
RelayRegister == INSTANCE EventRegister
  WITH standing <- evStatus, verdict <- result, entitled <- authorised,
       told <- [e \in Events |-> {}]
ImplementsEvents == RelayRegister!Spec
=============================================================================
