----------------------- MODULE PaymentLedgerProofs -----------------------
(***************************************************************************)
(* What holds of the payment ledger for every number of payments, keys,    *)
(* events and amounts, every window and every bound on clock staleness.    *)
(***************************************************************************)
EXTENDS PaymentLedger, SequenceTheorems, TLAPS

---------------------------------------------------------------------------
(* Lemmas about the operators the handlers are built from.                 *)

\* A transaction's timestamp is a time that has been, at most MaxLag ago.
LEMMA RecentTimes ==
  ASSUME clock \in Nat, NEW now \in Recent
  PROVE  now \in Nat /\ now <= clock /\ clock <= now + MaxLag
BY ConstantAssumption DEF Recent, ConstantAssumption

\* Filing a row keeps a history a sequence of rows, one row longer.
LEMMA FilingsType ==
  ASSUME NEW rows \in Seq(HistoryRow), NEW row \in HistoryRow,
         NEW filed \in Filings(rows, row)
  PROVE  filed \in Seq(HistoryRow) /\ Len(filed) = Len(rows) + 1
<1>1. PICK i \in 1..(Len(rows) + 1) : filed = InsertAt(rows, i, row)
  BY DEF Filings
<1>2. rows = [k \in 1..Len(rows) |-> rows[k]] /\ Len(rows) \in Nat
  OBVIOUS
<1>3. SubSeq(rows, 1, i - 1) \in Seq(HistoryRow) /\ Len(SubSeq(rows, 1, i - 1)) = i - 1
  <2>1. \A j \in 1..(i - 1) : rows[j] \in HistoryRow
    BY <1>2
  <2>2. QED
    BY <2>1, <1>2, SubSeqProperties
<1>4. /\ SubSeq(rows, i, Len(rows)) \in Seq(HistoryRow)
      /\ Len(SubSeq(rows, i, Len(rows))) = Len(rows) - i + 1
  <2>1. \A j \in i..Len(rows) : rows[j] \in HistoryRow
    BY <1>2
  <2>2. QED
    BY <2>1, <1>2, SubSeqProperties
<1>5. <<row>> \in Seq(HistoryRow) /\ Len(<<row>>) = 1
  OBVIOUS
<1>6. /\ SubSeq(rows, 1, i - 1) \o <<row>> \in Seq(HistoryRow)
      /\ Len(SubSeq(rows, 1, i - 1) \o <<row>>) = i
  BY <1>3, <1>5, ConcatProperties, <1>2
<1>7. QED
  BY <1>1, <1>2, <1>4, <1>6, ConcatProperties DEF InsertAt

\* Select returns amounts that no unreleased, undue reservation holds.
LEMMA SelectFree ==
  ASSUME NEW a \in Amounts, NEW now \in Nat, NEW x \in Select(a, now)
  PROVE  x \in Nat /\ \A p \in Holders(now) : payable[p] # x
<1>1. PICK b \in 0..(Buckets - 1) : x \in BucketCandidates(a, b, now)
  BY DEF Select
<1>2. x \in Free(a, b, now)
  BY <1>1 DEF BucketCandidates
<1>3. a \in Nat /\ b \in Nat /\ Unit \in Nat
  BY ConstantAssumption DEF ConstantAssumption
<1>4. Unit * b \in Nat
  BY <1>3
<1>5. QED
  BY <1>2, <1>3, <1>4 DEF Free, Bucket

---------------------------------------------------------------------------
(* Type correctness.  An event that exists carries its evidence, or        *)
(* paid_at could not be copied from it.                                    *)

EvidencePresent == \A e \in Events : evStatus[e] # "none" => evidence[e] \in Observation

Typed == TypeOK /\ EvidencePresent

\* The fresh database is well typed.
LEMMA InitTyped == Init => Typed
BY DEF Init, Typed, TypeOK, EvidencePresent, Statuses, RelayStatuses

\* appendTransition adds one well-formed row to the history and to the outbox.
LEMMA AppendTransitionTyped ==
  ASSUME Typed, NEW p \in Payments, status[p] # "none",
         NEW type \in EventTypes, NEW to \in Statuses, NEW now \in Nat,
         AppendTransition(p, type, to, now)
  PROVE  /\ history' \in [Payments -> Seq(HistoryRow)]
         /\ outbox' \in [Payments -> Seq(OutboxRow)]
<1>1. Transition(type, status[p], to, now) \in HistoryRow
  BY DEF Typed, TypeOK, Transition, HistoryRow
<1>2. history[p] \in Seq(HistoryRow) /\ outbox[p] \in Seq(OutboxRow)
  BY DEF Typed, TypeOK
<1>3. history' \in [Payments -> Seq(HistoryRow)]
  BY <1>1, <1>2, FilingsType DEF AppendTransition, Typed, TypeOK
<1>4. [type |-> type, status |-> to] \in OutboxRow
  BY DEF OutboxRow
<1>5. Append(outbox[p], [type |-> type, status |-> to]) \in Seq(OutboxRow)
  BY <1>2, <1>4
<1>6. QED
  BY <1>3, <1>5 DEF AppendTransition, Enqueue, Typed, TypeOK

\* Service.Create writes well-typed rows.
LEMMA CreateTyped ==
  ASSUME Typed, NEW p \in Payments, NEW k \in Keys, NEW a \in Amounts,
         NEW now \in Recent, Create(p, k, a, now)
  PROVE  Typed'
<1>1. now \in Nat
  BY RecentTimes DEF Typed, TypeOK
<1>2. a \in Nat
  BY ConstantAssumption DEF ConstantAssumption
<1>3. payable' \in [Payments -> Nat]
  BY <1>1, SelectFree DEF Create, Typed, TypeOK
<1>4. releasedAt' \in [Payments -> Nat \cup {Null}]
  BY <1>1 DEF Create, Released, Typed, TypeOK
<1>5. idem' \in [Keys -> Payments \cup {Null}]
  BY DEF Create, Purged, Typed, TypeOK
<1>6. Transition("payment.created", "none", "none", now) \in HistoryRow
  BY <1>1 DEF Transition, HistoryRow, EventTypes
<1>7. history' \in [Payments -> Seq(HistoryRow)]
  BY <1>6 DEF Create, Typed, TypeOK
<1>8. [type |-> "payment.created", status |-> "pending"] \in OutboxRow
  BY DEF OutboxRow, EventTypes, Statuses
<1>9. outbox' \in [Payments -> Seq(OutboxRow)]
  BY <1>8 DEF Create, Enqueue, Typed, TypeOK
<1>10. status' \in [Payments -> Statuses \cup {"none"}]
  BY DEF Create, Typed, TypeOK, Statuses
<1>11. QED
  BY <1>1, <1>2, <1>3, <1>4, <1>5, <1>7, <1>9, <1>10
  DEF Create, Typed, TypeOK, EvidencePresent, observationRow

\* Service.Cancel writes well-typed rows.
LEMMA CancelTyped ==
  ASSUME Typed, NEW p \in Payments, NEW now \in Recent, Cancel(p, now)
  PROVE  Typed'
<1>1. now \in Nat
  BY RecentTimes DEF Typed, TypeOK
<1>2. /\ history' \in [Payments -> Seq(HistoryRow)]
      /\ outbox' \in [Payments -> Seq(OutboxRow)]
  BY <1>1, AppendTransitionTyped DEF Cancel, EventTypes, Statuses
<1>3. QED
  BY <1>2 DEF Cancel, Typed, TypeOK, EvidencePresent, Statuses, observationRow

\* Service.ExpireDue writes well-typed rows, for every batch it may select.
LEMMA ExpireDueTyped ==
  ASSUME Typed, NEW now \in Recent, ExpireDue(now)
  PROVE  Typed'
<1>1. now \in Nat
  BY RecentTimes DEF Typed, TypeOK
<1> DEFINE Row == Transition("payment.expired", "pending", "expired", now)
<1>2. Row \in HistoryRow
  BY <1>1 DEF Transition, HistoryRow, EventTypes, Statuses
<1>3. PICK S \in ExpiryBatches(now) :
        /\ status' = [p \in Payments |-> IF p \in S THEN "expired" ELSE status[p]]
        /\ \E filed \in [S -> UNION {Filings(history[p], Row) : p \in S}] :
             /\ \A p \in S : filed[p] \in Filings(history[p], Row)
             /\ history' = [p \in Payments |->
                              IF p \in S THEN filed[p] ELSE history[p]]
        /\ outbox' = [p \in Payments |->
                        IF p \in S
                        THEN Append(outbox[p], [type |-> "payment.expired",
                                                status |-> "expired"])
                        ELSE outbox[p]]
  BY DEF ExpireDue
<1>4. PICK filed :
        /\ \A p \in S : filed[p] \in Filings(history[p], Row)
        /\ history' = [p \in Payments |-> IF p \in S THEN filed[p] ELSE history[p]]
  BY <1>3
<1>5. \A p \in Payments : history[p] \in Seq(HistoryRow)
  BY DEF Typed, TypeOK
<1>6. \A p \in Payments : p \in S => filed[p] \in Seq(HistoryRow)
  BY <1>2, <1>4, <1>5, FilingsType
<1>7. history' \in [Payments -> Seq(HistoryRow)]
  BY <1>4, <1>5, <1>6
<1>8. [type |-> "payment.expired", status |-> "expired"] \in OutboxRow
  BY DEF OutboxRow, EventTypes, Statuses
<1>9. outbox' \in [Payments -> Seq(OutboxRow)]
  BY <1>3, <1>8 DEF Typed, TypeOK
<1>10. status' \in [Payments -> Statuses \cup {"none"}]
  BY <1>3 DEF Typed, TypeOK, Statuses
<1>11. QED
  BY <1>7, <1>9, <1>10
  DEF ExpireDue, Typed, TypeOK, EvidencePresent, observationRow

\* Service.applyObservation writes well-typed rows on each of its outcomes.
LEMMA ApplyObservationTyped ==
  ASSUME Typed, NEW e \in Events, NEW now \in Recent, ApplyObservation(e, now)
  PROVE  Typed'
<1>1. now \in Nat
  BY RecentTimes DEF Typed, TypeOK
<1>2. evidence[e] \in Observation
  BY DEF ApplyObservation, Typed, EvidencePresent
<1>3. ASSUME NEW res \in MatchResults, NEW q \in Payments \cup {Null},
             Conclude(e, res, q)
      PROVE  /\ evStatus' \in [Events -> RelayStatuses]
             /\ matched' \in [Events -> Payments \cup {Null}]
             /\ result' \in [Events -> MatchResults \cup {Null}]
             /\ UNCHANGED <<evidence, authorised>>
             /\ EvidencePresent'
  <2>1. (IF res = "corroborated" THEN "matched" ELSE res) \in RelayStatuses
    BY DEF MatchResults, RelayStatuses
  <2>2. \A f \in Events \ {e} : evStatus'[f] = evStatus[f]
    BY <1>3 DEF Conclude, Typed, TypeOK
  <2>3. EvidencePresent'
    BY <1>2, <1>3, <2>2 DEF Conclude, EvidencePresent, Typed
  <2>4. QED
    BY <1>3, <2>1, <2>3 DEF Conclude, Typed, TypeOK
<1>4. ASSUME NEW res \in {"unmatched", "ambiguous"}, RecordUndecided(e, res)
      PROVE  Typed'
  <2>1. Conclude(e, res, Null) /\ res \in MatchResults
    BY <1>4 DEF RecordUndecided, MatchResults
  <2>2. QED
    BY <1>3, <1>4, <2>1
    DEF ApplyObservation, RecordUndecided, paymentRow, trail, Typed, TypeOK
<1>5. ASSUME NEW p \in Payments, Exists(p), MarkPaid(e, p, now)
      PROVE  Typed'
  <2>1. Conclude(e, "matched", p) /\ "matched" \in MatchResults
    BY <1>5 DEF MarkPaid, MatchResults
  <2>2. /\ history' \in [Payments -> Seq(HistoryRow)]
        /\ outbox' \in [Payments -> Seq(OutboxRow)]
    BY <1>1, <1>5, AppendTransitionTyped DEF MarkPaid, EventTypes, Statuses, Exists
  <2>3. paidAt' \in [Payments -> Nat \cup {Null}]
    BY <1>2, <1>5 DEF MarkPaid, Observation, Typed, TypeOK
  <2>4. status' \in [Payments -> Statuses \cup {"none"}]
    BY <1>5 DEF MarkPaid, Statuses, Typed, TypeOK
  <2>5. QED
    BY <1>3, <1>5, <2>1, <2>2, <2>3, <2>4
    DEF ApplyObservation, MarkPaid, Typed, TypeOK
<1>6. ASSUME NEW p \in Payments, Corroborate(e, p)
      PROVE  Typed'
  <2>1. PICK res \in MatchResults : Conclude(e, res, p)
    BY <1>6 DEF Corroborate, MatchResults
  <2>2. QED
    BY <1>3, <1>6, <2>1
    DEF ApplyObservation, Corroborate, paymentRow, trail, Typed, TypeOK
<1>7. \A p \in MatchingCandidates(evidence[e]) : p \in Payments /\ Exists(p)
  BY DEF MatchingCandidates
<1>8. QED
  BY <1>4, <1>5, <1>6, <1>7 DEF ApplyObservation

\* adminpayments.Edit writes well-typed rows, whatever the operator sets.
LEMMA EditTyped ==
  ASSUME Typed, NEW p \in Payments, NEW to \in EditTargets,
         NEW at \in PaidAtInputs \cup {Null}, NEW other \in OtherEdits,
         NEW now \in Recent, Edit(p, to, at, other, now)
  PROVE  Typed'
<1>1. now \in Nat
  BY RecentTimes DEF Typed, TypeOK
<1>2. to \in Statuses /\ at \in Nat \cup {Null}
  BY ConstantAssumption DEF ConstantAssumption, Statuses
<1> DEFINE type == OperatorEventType(status[p], to)
           moved == to # status[p]
           row == Transition(type, IF moved THEN status[p] ELSE "none",
                             IF moved THEN to ELSE "none", now)
<1>3. type \in EventTypes
  BY DEF OperatorEventType, EventTypes
<1>4. row \in HistoryRow
  BY <1>1, <1>2, <1>3 DEF Transition, HistoryRow, Typed, TypeOK
<1>5. history' \in [Payments -> Seq(HistoryRow)]
  <2>1. PICK rows \in Filings(history[p], row) :
          history' = [history EXCEPT ![p] = rows]
    BY DEF Edit
  <2>2. QED
    BY <1>4, <2>1, FilingsType DEF Typed, TypeOK
<1>6. outbox' \in [Payments -> Seq(OutboxRow)]
  <2>1. [type |-> type, status |-> to] \in OutboxRow
    BY <1>2, <1>3 DEF OutboxRow
  <2>2. Enqueue(p, type, to) \/ outbox' = outbox
    BY DEF Edit
  <2>3. CASE Enqueue(p, type, to)
    <3>1. Append(outbox[p], [type |-> type, status |-> to]) \in Seq(OutboxRow)
      BY <2>1 DEF Typed, TypeOK
    <3>2. QED
      BY <2>3, <3>1 DEF Enqueue, Typed, TypeOK
  <2>4. CASE outbox' = outbox
    BY <2>4 DEF Typed, TypeOK
  <2>5. QED
    BY <2>2, <2>3, <2>4
<1>7. paidAt' \in [Payments -> Nat \cup {Null}]
  <2>1. EditedPaidAt(p, to, at, now) \in Nat \cup {Null}
    BY <1>1, <1>2 DEF EditedPaidAt, Typed, TypeOK
  <2>2. QED
    BY <2>1 DEF Edit, Typed, TypeOK
<1>8. status' \in [Payments -> Statuses \cup {"none"}]
  BY <1>2 DEF Edit, Typed, TypeOK
<1>9. QED
  BY <1>5, <1>6, <1>7, <1>8
  DEF Edit, Typed, TypeOK, EvidencePresent, observationRow

\* An event enters with its observation: EvidencePresent is kept.
LEMMA ReceiveTyped ==
  ASSUME Typed, NEW e \in Events, NEW p \in Payments,
         NEW s \in EvidenceSources, NEW occ \in 0..clock, Receive(e, p, s, occ)
  PROVE  Typed'
<1>1. s \in Sources /\ occ \in Nat
  BY ConstantAssumption DEF ConstantAssumption, Sources, Typed, TypeOK
<1> DEFINE o == [source |-> s, amount |-> payable[p], occurred |-> occ,
                 intended |-> p]
<1>2. o \in Observation
  BY <1>1 DEF Observation, Typed, TypeOK
<1>3. evStatus' \in [Events -> RelayStatuses]
  BY DEF Receive, RelayStatuses, Typed, TypeOK
<1>4. evidence' \in [Events -> Observation \cup {Null}]
  BY <1>2 DEF Receive, Typed, TypeOK
<1>5. EvidencePresent'
  BY <1>2 DEF Receive, EvidencePresent, Typed, TypeOK
<1>6. QED
  BY <1>3, <1>4, <1>5 DEF Receive, paymentRow, trail, Typed, TypeOK

\* Every handler keeps the rows well typed.
LEMMA NextTyped == Typed /\ [Next]_vars => Typed'
<1> SUFFICES ASSUME Typed, [Next]_vars
             PROVE  Typed'
  OBVIOUS
<1>1. CASE Tick
  BY <1>1 DEF Tick, paymentRow, trail, observationRow, Typed, TypeOK, EvidencePresent
<1>2. ASSUME NEW f \in Profiles, Activate(f)
      PROVE  Typed'
  BY <1>2 DEF Activate, paymentRow, trail, observationRow, Typed, TypeOK,
              EvidencePresent
<1>3. ASSUME NEW p \in Payments, NEW k \in Keys, NEW a \in Amounts,
             NEW now \in Recent, Create(p, k, a, now)
      PROVE  Typed'
  BY <1>3, CreateTyped
<1>4. ASSUME NEW k \in Keys, NEW a \in Amounts, NEW now \in Recent,
             Replay(k, a, now)
      PROVE  Typed'
  BY <1>4 DEF Replay, Purged, paymentRow, trail, observationRow, Typed, TypeOK,
              EvidencePresent
<1>5. ASSUME NEW p \in Payments, NEW now \in Recent, Cancel(p, now)
      PROVE  Typed'
  BY <1>5, CancelTyped
<1>6. ASSUME NEW now \in Recent, ExpireDue(now)
      PROVE  Typed'
  BY <1>6, ExpireDueTyped
<1>7. ASSUME NEW e \in Events, NEW p \in Payments, NEW s \in EvidenceSources,
             NEW occ \in 0..clock, Receive(e, p, s, occ)
      PROVE  Typed'
  BY <1>7, ReceiveTyped
<1>8. ASSUME NEW S \in SUBSET {e \in authorised : evStatus[e] = "received"},
             Revoke(S)
      PROVE  Typed'
  BY <1>8 DEF Revoke, paymentRow, trail, Typed, TypeOK, EvidencePresent
<1>9. ASSUME NEW e \in Events, Ignore(e)
      PROVE  Typed'
  BY <1>9 DEF Ignore, paymentRow, trail, Typed, TypeOK, EvidencePresent,
              RelayStatuses
<1>10. ASSUME NEW e \in Events, NEW now \in Recent, ApplyObservation(e, now)
       PROVE  Typed'
  BY <1>10, ApplyObservationTyped
<1>11. ASSUME NEW p \in Payments, NEW to \in EditTargets,
              NEW at \in PaidAtInputs \cup {Null}, NEW other \in OtherEdits,
              NEW now \in Recent, Edit(p, to, at, other, now)
       PROVE  Typed'
  BY <1>11, EditTyped
<1>12. CASE UNCHANGED vars
  BY <1>12 DEF vars, paymentRow, trail, observationRow, Typed, TypeOK,
               EvidencePresent
<1>13. QED
  BY <1>1, <1>2, <1>3, <1>4, <1>5, <1>6, <1>7, <1>8, <1>9, <1>10, <1>11, <1>12
  DEF Next

\* No handler ever stores a value outside its column's domain.
THEOREM TypeCorrect == Spec => []TypeOK
<1>1. Typed => TypeOK
  BY DEF Typed
<1>2. QED
  BY <1>1, InitTyped, NextTyped, PTL DEF Spec

---------------------------------------------------------------------------
(* Reservations and idempotency keys.  What an amount's last release says   *)
(* separates its payments' windows; for the keys one more fact is needed:   *)
(* a payment's key is remembered until its TTL is over.                    *)

KeysRemembered ==
  /\ \A k \in Keys : idem[k] # Null => Exists(idem[k])
  /\ \A p \in Payments : Exists(p) =>
       /\ keyOf[p] \in Keys
       /\ idem[keyOf[p]] = p \/ createdAt[p] + IdempotencyTTL <= clock

ReservationInv ==
  /\ Typed
  /\ KeysRemembered
  /\ AmountsExclusive
  /\ HeldUntilReuse
  /\ ReuseSeparated
  /\ KeyReuseSeparated

\* The windows computed from well-typed rows are times.
LEMMA WindowsAreNaturals ==
  ASSUME Typed
  PROVE  /\ clock \in Nat
         /\ \A p \in Payments : /\ createdAt[p] \in Nat
                              /\ GraceUntil(p) \in Nat /\ ReuseAfter(p) \in Nat
                              /\ createdAt[p] + IdempotencyTTL \in Nat
         /\ MaxLag \in Nat /\ IdempotencyTTL \in Nat
         /\ Null \notin Nat /\ Null \notin Payments
<1>1. /\ ActiveFor \in Nat /\ GraceFor \in Nat /\ Quarantine \in Nat
      /\ MaxLag \in Nat /\ IdempotencyTTL \in Nat
      /\ Null \notin Nat /\ Null \notin Payments
  BY ConstantAssumption DEF ConstantAssumption
<1>2. clock \in Nat /\ \A p \in Payments : createdAt[p] \in Nat
  BY DEF Typed, TypeOK
<1>3. QED
  BY <1>1, <1>2 DEF GraceUntil, ReuseAfter

\* The fresh database satisfies the reservation invariant.
LEMMA InitReservations == Init => ReservationInv
<1> SUFFICES ASSUME Init
             PROVE  ReservationInv
  OBVIOUS
<1>1. Typed
  BY InitTyped
<1>2. \A p \in Payments : ~Exists(p) /\ releasedAt[p] = Null
  BY DEF Init, Exists
<1>3. \A k \in Keys : idem[k] = Null
  BY DEF Init
<1>4. QED
  BY <1>1, <1>2, <1>3
  DEF ReservationInv, KeysRemembered, AmountsExclusive, HeldUntilReuse,
      ReuseSeparated, KeyReuseSeparated

\* What no handler but Create and Replay touches keeps the invariant.
LEMMA ReservationsUntouched ==
  ASSUME ReservationInv, Typed', clock' \in Nat, clock <= clock',
         UNCHANGED <<payable, createdAt, releasedAt, keyOf, idem>>,
         \A p \in Payments : Exists(p)' = Exists(p)
  PROVE  ReservationInv'
<1>1. clock \in Nat /\ createdAt \in [Payments -> Nat]
  BY DEF ReservationInv, Typed, TypeOK
<1>2. \A p \in Payments : GraceUntil(p)' = GraceUntil(p) /\ ReuseAfter(p)' = ReuseAfter(p)
  BY DEF GraceUntil, ReuseAfter
<1>3. KeysRemembered'
  <2>1. \A k \in Keys : idem[k] # Null => idem[k] \in Payments
    BY DEF ReservationInv, Typed, TypeOK
  <2>2. \A p \in Payments : createdAt[p] + IdempotencyTTL <= clock =>
                              createdAt[p] + IdempotencyTTL <= clock'
    BY <1>1, WindowsAreNaturals DEF ReservationInv
  <2>3. QED
    BY <2>1, <2>2 DEF ReservationInv, KeysRemembered
<1>4. AmountsExclusive'
  BY DEF ReservationInv, AmountsExclusive
<1>5. HeldUntilReuse'
  <2> SUFFICES ASSUME NEW p \in Payments, releasedAt[p] # Null
               PROVE  Exists(p)' /\ ReuseAfter(p)' <= releasedAt[p] /\ releasedAt[p] <= clock'
    BY DEF HeldUntilReuse
  <2>1. releasedAt[p] \in Nat
    BY DEF ReservationInv, Typed, TypeOK
  <2>2. QED
    BY <1>1, <1>2, <2>1 DEF ReservationInv, HeldUntilReuse
<1>6. ReuseSeparated'
  BY <1>2 DEF ReservationInv, ReuseSeparated
<1>7. KeyReuseSeparated'
  BY DEF ReservationInv, KeyReuseSeparated
<1>8. QED
  BY <1>3, <1>4, <1>5, <1>6, <1>7 DEF ReservationInv

\* A key survives the purge for as long as its TTL runs.
LEMMA PurgeKeepsFreshKeys ==
  ASSUME ReservationInv, NEW now \in Recent, NEW q \in Payments, Exists(q),
         clock < createdAt[q] + IdempotencyTTL
  PROVE  Purged(now)[keyOf[q]] = q
<1>1. keyOf[q] \in Keys /\ idem[keyOf[q]] = q
  <2>1. ~(createdAt[q] + IdempotencyTTL <= clock)
    BY WindowsAreNaturals DEF ReservationInv
  <2>2. QED
    BY <2>1 DEF ReservationInv, KeysRemembered
<1>2. now \in Nat /\ now <= clock
  BY RecentTimes DEF ReservationInv, Typed, TypeOK
<1>3. ~(createdAt[q] + IdempotencyTTL <= now)
  BY <1>2, WindowsAreNaturals DEF ReservationInv, Typed, TypeOK
<1>4. QED
  BY <1>1, <1>3 DEF Purged

\* An idempotent replay commits only the purge: keys it forgets have outlived
\* their TTL by the transaction's clock, hence up to MaxLag by the server's.
LEMMA ReplayKeepsReservations ==
  ASSUME ReservationInv, Typed', NEW k \in Keys, NEW a \in Amounts,
         NEW now \in Recent, Replay(k, a, now)
  PROVE  ReservationInv'
<1>1. UNCHANGED <<clock, status, payable, createdAt, releasedAt, keyOf>>
  BY DEF Replay, paymentRow
<1>2. \A p \in Payments : Exists(p)' = Exists(p) /\ ReuseAfter(p)' = ReuseAfter(p)
  BY <1>1 DEF Exists, ReuseAfter, GraceUntil
<1>3. KeysRemembered'
  <2>1. ASSUME NEW l \in Keys, idem'[l] # Null
        PROVE  Exists(idem[l])'
    <3>1. idem'[l] = idem[l] /\ idem[l] \in Payments
      BY <2>1 DEF Replay, Purged, ReservationInv, Typed, TypeOK
    <3>2. QED
      BY <1>2, <2>1, <3>1 DEF ReservationInv, KeysRemembered
  <2>2. ASSUME NEW p \in Payments, Exists(p)
        PROVE  /\ keyOf[p] \in Keys
               /\ idem'[keyOf[p]] = p \/ createdAt[p] + IdempotencyTTL <= clock
    <3>1. keyOf[p] \in Keys
      BY <2>2 DEF ReservationInv, KeysRemembered
    <3>2. clock < createdAt[p] + IdempotencyTTL
            \/ createdAt[p] + IdempotencyTTL <= clock
      BY WindowsAreNaturals DEF ReservationInv
    <3>3. QED
      BY <2>2, <3>1, <3>2, PurgeKeepsFreshKeys DEF Replay
  <2>3. QED
    BY <1>1, <1>2, <2>1, <2>2 DEF KeysRemembered
<1>4. AmountsExclusive' /\ KeyReuseSeparated'
  BY <1>1, <1>2 DEF ReservationInv, AmountsExclusive, KeyReuseSeparated
<1>5. HeldUntilReuse' /\ ReuseSeparated'
  BY <1>1, <1>2 DEF ReservationInv, HeldUntilReuse, ReuseSeparated
<1>6. QED
  BY <1>3, <1>4, <1>5 DEF ReservationInv

\* The amount a new payment takes was last held by payments whose reuse time
\* has come, by the transaction's clock or by the server's.
LEMMA AmountFreeWhenTaken ==
  ASSUME ReservationInv, NEW now \in Recent, NEW q \in Payments, Exists(q),
         q \notin Holders(now)
  PROVE  ReuseAfter(q) <= now + MaxLag /\ Released(now)[q] # Null
<1>1. now \in Nat /\ clock <= now + MaxLag /\ clock \in Nat
  BY RecentTimes, WindowsAreNaturals DEF ReservationInv
<1>2. ReuseAfter(q) \in Nat /\ MaxLag \in Nat /\ Null \notin Nat
  BY WindowsAreNaturals DEF ReservationInv
<1>3. CASE releasedAt[q] # Null
  <2>1. releasedAt[q] \in Nat
    BY <1>3 DEF ReservationInv, Typed, TypeOK
  <2>2. ReuseAfter(q) <= releasedAt[q] /\ releasedAt[q] <= clock
    BY <1>3 DEF ReservationInv, HeldUntilReuse
  <2>3. Released(now)[q] # Null
    BY <1>1, <1>2, <1>3 DEF Released
  <2>4. QED
    BY <1>1, <1>2, <2>1, <2>2, <2>3
<1>4. CASE q \in DueReservations(now)
  <2>1. ReuseAfter(q) <= now
    BY <1>4 DEF DueReservations
  <2>2. Released(now)[q] = now
    BY <1>4 DEF Released
  <2>3. QED
    BY <1>1, <1>2, <2>1, <2>2
<1>5. QED
  BY <1>3, <1>4 DEF Holders

\* Service.Create: the new payment's amount is free, its key is not remembered,
\* and the reservations it releases are due.
LEMMA CreateKeepsReservations ==
  ASSUME ReservationInv, Typed', NEW p \in Payments, NEW k \in Keys,
         NEW a \in Amounts, NEW now \in Recent, Create(p, k, a, now)
  PROVE  ReservationInv'
<1>1. now \in Nat /\ now <= clock /\ clock <= now + MaxLag /\ clock \in Nat
  BY RecentTimes, WindowsAreNaturals DEF ReservationInv
<1>2. /\ MaxLag \in Nat /\ IdempotencyTTL \in Nat
      /\ Null \notin Nat /\ Null \notin Payments
  BY WindowsAreNaturals DEF ReservationInv
<1>3. /\ ~Exists(p) /\ releasedAt[p] = Null /\ p \notin DueReservations(now)
      /\ releasedAt'[p] = Null
  BY DEF Create, ReservationInv, HeldUntilReuse, DueReservations, Released
<1>4. PICK x \in Select(a, now) : payable' = [payable EXCEPT ![p] = x]
  BY DEF Create
<1>5. /\ clock' = clock /\ payable'[p] = x /\ createdAt'[p] = now
      /\ keyOf'[p] = k /\ idem'[k] = p /\ Exists(p)'
  BY <1>4 DEF Create, Exists, ReservationInv, Typed, TypeOK, Purged
<1>6. \A q \in Payments \ {p} :
        /\ Exists(q)' = Exists(q) /\ payable'[q] = payable[q]
        /\ createdAt'[q] = createdAt[q] /\ keyOf'[q] = keyOf[q]
        /\ ReuseAfter(q)' = ReuseAfter(q) /\ releasedAt'[q] = Released(now)[q]
  BY <1>4 DEF Create, Exists, ReuseAfter, GraceUntil, ReservationInv, Typed, TypeOK
<1>7. \A q \in Payments \ {p} : Exists(q) /\ payable[q] = x =>
        ReuseAfter(q) <= now + MaxLag /\ releasedAt'[q] # Null
  <2>1. \A q \in Payments : payable[q] = x => q \notin Holders(now)
    BY <1>1, <1>4, SelectFree
  <2>2. QED
    BY <1>6, <2>1, AmountFreeWhenTaken
<1>8. \A q \in Payments \ {p} : Exists(q) /\ keyOf[q] = k =>
        createdAt[q] + IdempotencyTTL <= now + MaxLag
  <2> SUFFICES ASSUME NEW q \in Payments \ {p}, Exists(q), keyOf[q] = k,
                      ~(createdAt[q] + IdempotencyTTL <= now + MaxLag)
               PROVE  FALSE
    OBVIOUS
  <2>1. createdAt[q] + IdempotencyTTL \in Nat
    BY WindowsAreNaturals DEF ReservationInv
  <2>2. clock < createdAt[q] + IdempotencyTTL
    BY <1>1, <1>2, <2>1
  <2>3. Purged(now)[k] = q
    BY <2>2, PurgeKeepsFreshKeys
  <2>4. QED
    BY <1>2, <2>3 DEF Create
<1>9. KeysRemembered'
  <2>1. ASSUME NEW l \in Keys, idem'[l] # Null
        PROVE  Exists(idem[l])'
    <3>1. CASE l = k
      BY <1>5, <3>1 DEF Exists
    <3>2. CASE l # k
      <4>1. idem'[l] = idem[l] /\ idem[l] \in Payments
        BY <2>1, <3>2 DEF Create, Purged, ReservationInv, Typed, TypeOK
      <4>2. Exists(idem[l])
        BY <2>1, <4>1 DEF ReservationInv, KeysRemembered
      <4>3. QED
        BY <1>3, <1>6, <4>1, <4>2 DEF Exists
    <3>3. QED
      BY <3>1, <3>2
  <2>2. ASSUME NEW q \in Payments, Exists(q)'
        PROVE  /\ keyOf'[q] \in Keys
               /\ \/ idem'[keyOf'[q]] = q
                  \/ createdAt'[q] + IdempotencyTTL <= clock
    <3>1. CASE q = p
      BY <1>5, <3>1
    <3>2. CASE q # p
      <4>1. Exists(q) /\ keyOf'[q] = keyOf[q] /\ createdAt'[q] = createdAt[q]
        BY <1>6, <2>2, <3>2
      <4>2. keyOf[q] \in Keys
        BY <4>1 DEF ReservationInv, KeysRemembered
      <4>3. CASE createdAt[q] + IdempotencyTTL <= clock
        BY <4>1, <4>2, <4>3
      <4>4. CASE ~(createdAt[q] + IdempotencyTTL <= clock)
        <5>1. Purged(now)[keyOf[q]] = q
          BY <1>1, <4>1, <4>4, PurgeKeepsFreshKeys, WindowsAreNaturals DEF ReservationInv
        <5>2. keyOf[q] # k
          BY <1>2, <5>1 DEF Create
        <5>3. idem'[keyOf[q]] = q
          BY <4>2, <5>1, <5>2 DEF Create, Purged
        <5>4. QED
          BY <4>1, <4>2, <5>3
      <4>5. QED
        BY <4>3, <4>4
    <3>3. QED
      BY <3>1, <3>2
  <2>3. QED
    BY <1>5, <2>1, <2>2 DEF KeysRemembered
<1>10. AmountsExclusive'
  <2>1. \A q \in Payments \ {p} : releasedAt'[q] = Null => releasedAt[q] = Null
    BY <1>1, <1>2, <1>6 DEF Released
  <2>2. \A q, r \in Payments \ {p} :
          q # r /\ Exists(q) /\ Exists(r) /\ releasedAt[q] = Null
            /\ releasedAt[r] = Null => payable[q] # payable[r]
    BY DEF ReservationInv, AmountsExclusive
  <2>3. ASSUME NEW q \in Payments, NEW r \in Payments, q # r, Exists(q)', Exists(r)',
               releasedAt'[q] = Null, releasedAt'[r] = Null
        PROVE  payable'[q] # payable'[r]
    <3>1. CASE q # p /\ r # p
      BY <1>6, <2>1, <2>2, <2>3, <3>1
    <3>2. CASE q = p
      BY <1>5, <1>6, <1>7, <2>3, <3>2
    <3>3. CASE r = p
      BY <1>5, <1>6, <1>7, <2>3, <3>3
    <3>4. QED
      BY <3>1, <3>2, <3>3
  <2>4. QED
    BY <2>3 DEF AmountsExclusive
<1>11. HeldUntilReuse'
  <2> SUFFICES ASSUME NEW q \in Payments, releasedAt'[q] # Null
               PROVE  /\ Exists(q)'
                      /\ ReuseAfter(q)' <= releasedAt'[q]
                      /\ releasedAt'[q] <= clock'
    BY DEF HeldUntilReuse
  <2>1. q # p
    BY <1>3
  <2>2. CASE q \in DueReservations(now)
    <3>1. Released(now)[q] = now /\ Exists(q) /\ ReuseAfter(q) <= now
      BY <2>2 DEF Released, DueReservations
    <3>2. QED
      BY <1>1, <1>5, <1>6, <2>1, <3>1
  <2>3. CASE q \notin DueReservations(now)
    <3>1. Released(now)[q] = releasedAt[q]
      BY <2>3 DEF Released
    <3>2. QED
      BY <1>5, <1>6, <2>1, <3>1 DEF ReservationInv, HeldUntilReuse
  <2>4. QED
    BY <2>2, <2>3
<1>12. ReuseSeparated'
  <2> SUFFICES ASSUME NEW q \in Payments, NEW r \in Payments, q # r, Exists(q)',
                      Exists(r)', payable'[q] = payable'[r]
               PROVE  \/ createdAt'[r] + MaxLag >= ReuseAfter(q)'
                      \/ createdAt'[q] + MaxLag >= ReuseAfter(r)'
    BY DEF ReuseSeparated
  <2>1. \A s \in Payments : ReuseAfter(s) \in Nat
    BY WindowsAreNaturals DEF ReservationInv
  <2>2. CASE q # p /\ r # p
    BY <1>6, <2>2 DEF ReservationInv, ReuseSeparated
  <2>3. CASE q = p
    <3>1. ReuseAfter(r) <= now + MaxLag
      BY <1>5, <1>6, <1>7, <2>3
    <3>2. QED
      BY <1>1, <1>2, <1>5, <1>6, <2>1, <2>3, <3>1
  <2>4. CASE r = p
    <3>1. ReuseAfter(q) <= now + MaxLag
      BY <1>5, <1>6, <1>7, <2>4
    <3>2. QED
      BY <1>1, <1>2, <1>5, <1>6, <2>1, <2>4, <3>1
  <2>5. QED
    BY <2>2, <2>3, <2>4
<1>13. KeyReuseSeparated'
  <2> SUFFICES ASSUME NEW q \in Payments, NEW r \in Payments, q # r, Exists(q)',
                      Exists(r)', keyOf'[q] = keyOf'[r]
               PROVE  \/ createdAt'[r] + MaxLag >= createdAt'[q] + IdempotencyTTL
                      \/ createdAt'[q] + MaxLag >= createdAt'[r] + IdempotencyTTL
    BY DEF KeyReuseSeparated
  <2>1. \A s \in Payments : createdAt[s] \in Nat
    BY WindowsAreNaturals DEF ReservationInv
  <2>2. CASE q # p /\ r # p
    BY <1>6, <2>2 DEF ReservationInv, KeyReuseSeparated
  <2>3. CASE q = p
    <3>1. createdAt[r] + IdempotencyTTL <= now + MaxLag
      BY <1>5, <1>6, <1>8, <2>3
    <3>2. QED
      BY <1>1, <1>2, <1>5, <1>6, <2>1, <2>3, <3>1
  <2>4. CASE r = p
    <3>1. createdAt[q] + IdempotencyTTL <= now + MaxLag
      BY <1>5, <1>6, <1>8, <2>4
    <3>2. QED
      BY <1>1, <1>2, <1>5, <1>6, <2>1, <2>4, <3>1
  <2>5. QED
    BY <2>2, <2>3, <2>4
<1>14. QED
  BY <1>9, <1>10, <1>11, <1>12, <1>13 DEF ReservationInv

\* Every handler keeps the reservation invariant.
LEMMA NextReservations == ReservationInv /\ [Next]_vars => ReservationInv'
<1> SUFFICES ASSUME ReservationInv, [Next]_vars
             PROVE  ReservationInv'
  OBVIOUS
<1>0. Typed' /\ clock \in Nat
  BY NextTyped DEF ReservationInv, Typed, TypeOK
\* A status moves only between the statuses of a payment that exists.
<1> DEFINE Settles == /\ UNCHANGED <<clock, payable, createdAt, releasedAt, keyOf, idem>>
                      /\ \A p \in Payments : Exists(p)' = Exists(p)
<1>1. CASE Settles
  BY <1>0, <1>1, ReservationsUntouched
<1>2. CASE Tick
  <2>1. clock' = clock + 1
    BY <1>2 DEF Tick
  <2>2. clock' \in Nat /\ clock <= clock'
    BY <1>0, <2>1
  <2>3. UNCHANGED <<payable, createdAt, releasedAt, keyOf, idem, status>>
    BY <1>2 DEF Tick, paymentRow
  <2>4. \A p \in Payments : Exists(p)' = Exists(p)
    BY <2>3 DEF Exists
  <2>5. QED
    BY <1>0, <2>2, <2>3, <2>4, ReservationsUntouched
<1>3. ASSUME NEW f \in Profiles, Activate(f)
      PROVE  Settles
  BY <1>3 DEF Activate, paymentRow, Exists
<1>4. ASSUME NEW p \in Payments, NEW k \in Keys, NEW a \in Amounts,
             NEW now \in Recent, Create(p, k, a, now)
      PROVE  ReservationInv'
  BY <1>0, <1>4, CreateKeepsReservations
<1>5. ASSUME NEW k \in Keys, NEW a \in Amounts, NEW now \in Recent,
             Replay(k, a, now)
      PROVE  ReservationInv'
  BY <1>0, <1>5, ReplayKeepsReservations
<1>6. ASSUME NEW p \in Payments, NEW now \in Recent, Cancel(p, now)
      PROVE  Settles
  BY <1>6 DEF Cancel, Exists, ReservationInv, Typed, TypeOK
<1>7. ASSUME NEW now \in Recent, ExpireDue(now)
      PROVE  Settles
  BY <1>7 DEF ExpireDue, ExpiryBatches, DuePayments, Exists
<1>8. ASSUME NEW e \in Events, NEW p \in Payments, NEW s \in EvidenceSources,
             NEW occ \in 0..clock, Receive(e, p, s, occ)
      PROVE  Settles
  BY <1>8 DEF Receive, paymentRow, Exists
<1>9. ASSUME NEW S \in SUBSET {e \in authorised : evStatus[e] = "received"},
             Revoke(S)
      PROVE  Settles
  BY <1>9 DEF Revoke, paymentRow, Exists
<1>10. ASSUME NEW e \in Events, Ignore(e)
       PROVE  Settles
  BY <1>10 DEF Ignore, paymentRow, Exists
<1>11. ASSUME NEW e \in Events, NEW now \in Recent, ApplyObservation(e, now)
       PROVE  Settles
  <2>1. clock' = clock /\ releasedAt' = releasedAt /\ idem' = idem
    BY <1>11 DEF ApplyObservation
  <2>2. CASE UNCHANGED paymentRow
    BY <2>1, <2>2 DEF paymentRow, Exists
  <2>3. ASSUME NEW p \in MatchingCandidates(evidence[e]), MarkPaid(e, p, now)
        PROVE  Settles
    BY <2>1, <2>3
    DEF MarkPaid, MatchingCandidates, Exists, ReservationInv, Typed, TypeOK
  <2>4. QED
    BY <1>11, <2>2, <2>3 DEF ApplyObservation, RecordUndecided, Corroborate
<1>12. ASSUME NEW p \in Payments, NEW to \in EditTargets,
              NEW at \in PaidAtInputs \cup {Null}, NEW other \in OtherEdits,
              NEW now \in Recent, Edit(p, to, at, other, now)
       PROVE  Settles
  <2>1. to # "none"
    BY ConstantAssumption DEF ConstantAssumption
  <2>2. QED
    BY <1>12, <2>1 DEF Edit, Exists, ReservationInv, Typed, TypeOK
<1>13. CASE UNCHANGED vars
  BY <1>1, <1>13 DEF vars, paymentRow, Exists
<1>14. QED
  BY <1>1, <1>2, <1>3, <1>4, <1>5, <1>6, <1>7, <1>8, <1>9, <1>10, <1>11, <1>12,
     <1>13
  DEF Next

\* The reservation invariant holds of every reachable database.
LEMMA ReservationsHold == Spec => []ReservationInv
BY InitReservations, NextReservations, PTL DEF Spec

\* No two unreleased reservations ever share a payable amount.
THEOREM AmountsNeverShared == Spec => []AmountsExclusive
<1>1. ReservationInv => AmountsExclusive
  BY DEF ReservationInv
<1>2. QED
  BY <1>1, ReservationsHold, PTL

\* No handler gives an amount back before its payment's reuse_after.
THEOREM AmountsHeldUntilReuse == Spec => []HeldUntilReuse
<1>1. ReservationInv => HeldUntilReuse
  BY DEF ReservationInv
<1>2. QED
  BY <1>1, ReservationsHold, PTL

\* The windows of two payments on one amount overlap by at most MaxLag; with
\* exact transaction clocks (MaxLag = 0) they are disjoint.
THEOREM WindowsSeparated == Spec => []ReuseSeparated
<1>1. ReservationInv => ReuseSeparated
  BY DEF ReservationInv
<1>2. QED
  BY <1>1, ReservationsHold, PTL

\* A merchant's retry within the key's TTL never creates a second payment, up
\* to the same staleness.
THEOREM OnePaymentPerKey == Spec => []KeyReuseSeparated
<1>1. ReservationInv => KeyReuseSeparated
  BY DEF ReservationInv
<1>2. QED
  BY <1>1, ReservationsHold, PTL

\* Only Service.Create brings a payment into being: every other handler looks up
\* the payments it writes.
LEMMA OnlyCreateAdds ==
  ASSUME Typed, [Next]_vars, NEW p \in Payments, ~Exists(p), Exists(p)'
  PROVE  \E k \in Keys, a \in Amounts, now \in Recent : Create(p, k, a, now)
<1>1. CASE UNCHANGED status
  BY <1>1 DEF Exists
<1>2. ASSUME NEW q \in Payments, NEW st, status' = [status EXCEPT ![q] = st], Exists(q)
      PROVE  FALSE
  BY <1>2 DEF Exists, Typed, TypeOK
<1>3. ASSUME NEW q \in Payments, NEW k \in Keys, NEW a \in Amounts, NEW now \in Recent,
             Create(q, k, a, now)
      PROVE  q = p
  <2>1. status' = [status EXCEPT ![q] = "pending"]
    BY <1>3 DEF Create
  <2>2. QED
    BY <2>1 DEF Exists, Typed, TypeOK
<1>4. ASSUME NEW q \in Payments, NEW now \in Recent, Cancel(q, now)
      PROVE  FALSE
  BY <1>2, <1>4 DEF Cancel, Exists
<1>5. ASSUME NEW now \in Recent, ExpireDue(now)
      PROVE  FALSE
  BY <1>5 DEF ExpireDue, ExpiryBatches, DuePayments, Exists
<1>6. ASSUME NEW e \in Events, NEW now \in Recent, ApplyObservation(e, now)
      PROVE  FALSE
  <2>1. CASE UNCHANGED paymentRow
    BY <1>1, <2>1 DEF paymentRow, Exists
  <2>2. ASSUME NEW q \in MatchingCandidates(evidence[e]), MarkPaid(e, q, now)
        PROVE  FALSE
    BY <1>2, <2>2 DEF MarkPaid, MatchingCandidates
  <2>3. QED
    BY <1>6, <2>1, <2>2 DEF ApplyObservation, RecordUndecided, Corroborate
<1>7. ASSUME NEW q \in Payments, NEW to \in EditTargets,
             NEW at \in PaidAtInputs \cup {Null}, NEW other \in OtherEdits,
             NEW now \in Recent, Edit(q, to, at, other, now)
      PROVE  FALSE
  BY <1>2, <1>7 DEF Edit
<1>8. CASE \/ Tick \/ \E f \in Profiles : Activate(f)
           \/ \E k \in Keys, a \in Amounts, now \in Recent : Replay(k, a, now)
           \/ \E e \in Events, q \in Payments, s \in EvidenceSources, occ \in 0..clock :
                Receive(e, q, s, occ)
           \/ \E S \in SUBSET {e \in authorised : evStatus[e] = "received"} : Revoke(S)
           \/ \E e \in Events : Ignore(e)
           \/ UNCHANGED vars
  BY <1>1, <1>8 DEF Tick, Activate, Replay, Receive, Revoke, Ignore, paymentRow, vars
<1>9. QED
  BY <1>3, <1>4, <1>5, <1>6, <1>7, <1>8 DEF Next

\* What Select passes over is held, and stays held as the due amounts are released.
LEMMA PassedOverIsHeld ==
  ASSUME NEW a \in Amounts, NEW now \in Recent, NEW c \in 0..(Buckets - 1),
         BucketCandidates(a, c, now) = {}, NEW x \in Bucket(a, c)
  PROVE  \E q \in Payments : /\ Exists(q) /\ payable[q] = x
                            /\ releasedAt[q] = Null /\ Released(now)[q] = Null
<1>1. Free(a, c, now) = {}
  BY DEF BucketCandidates
<1>2. PICK q \in Holders(now) : payable[q] = x
  BY <1>1 DEF Free
<1>3. QED
  BY <1>2 DEF Holders, Released

\* A new payment takes the amount of a later rupee only while every amount of the
\* earlier ones is held by another payment, whatever has been used recently.
THEOREM LowestRupeeFirst == Spec => LowestFreeBucket
<1> DEFINE Lowest(p) ==
      \E b \in 0..(Buckets - 1) :
        /\ payable'[p] \in Bucket(requested'[p], b)
        /\ \A c \in 0..(b - 1) : \A x \in Bucket(requested'[p], c) :
             \E q \in Payments \ {p} : payable[q] = x /\ releasedAt'[q] = Null
                                       /\ Exists(q)
           LowestStep == \A p \in Payments : ~Exists(p) /\ Exists(p)' => Lowest(p)
<1>1. ASSUME Typed, [Next]_vars, NEW p \in Payments, ~Exists(p), Exists(p)'
      PROVE  Lowest(p)
  <2>1. PICK k \in Keys, a \in Amounts, now \in Recent : Create(p, k, a, now)
    BY <1>1, OnlyCreateAdds
  <2>2. PICK x \in Select(a, now) : payable' = [payable EXCEPT ![p] = x]
    BY <2>1 DEF Create
  <2>3. /\ requested'[p] = a /\ releasedAt' = Released(now)
        /\ payable'[p] = x
    BY <1>1, <2>1, <2>2 DEF Create, Typed, TypeOK
  <2>4. PICK b \in 0..(Buckets - 1) :
          /\ x \in BucketCandidates(a, b, now)
          /\ \A c \in 0..(b - 1) : BucketCandidates(a, c, now) = {}
    BY DEF Select
  <2>5. x \in Bucket(a, b)
    BY <2>4 DEF BucketCandidates, Free
  <2>6. ASSUME NEW c \in 0..(b - 1), NEW y \in Bucket(a, c)
        PROVE  \E q \in Payments \ {p} : payable[q] = y /\ releasedAt'[q] = Null /\ Exists(q)
    <3>1. c \in 0..(Buckets - 1)
      BY ConstantAssumption DEF ConstantAssumption
    <3>2. QED
      BY <1>1, <2>3, <2>4, <2>6, <3>1, PassedOverIsHeld
  <2>7. QED
    BY <2>3, <2>5, <2>6
<1>2. Typed /\ [Next]_vars => [LowestStep]_vars
  BY <1>1
<1>3. Spec => []Typed
  BY InitTyped, NextTyped, PTL DEF Spec
<1>4. Spec => [][LowestStep]_vars
  BY <1>2, <1>3, PTL DEF Spec
<1>5. QED
  BY <1>4 DEF LowestFreeBucket

---------------------------------------------------------------------------
(* The webhook events tell the payment's story.  Every append to an outbox  *)
(* is judged against the status the payment had when it was made.          *)

\* An event of this type may be enqueued when a payment goes from -> to.
LegalEvent(type, from, to) ==
  CASE type = "payment.paid" -> from # "paid" /\ to = "paid"
    [] type = "payment.expired" -> from = "pending" /\ to = "expired"
    [] type = "payment.cancelled" -> from = "pending" /\ to = "cancelled"
    [] type = "payment.updated" -> to = "paid" => from = "paid"
    [] OTHER -> FALSE

\* OutboxTellsStatus for one payment, for a given outbox and status.
Story(events, st) ==
  /\ Len(events) > 0
  /\ events[1] = [type |-> "payment.created", status |-> "pending"]
  /\ events[Len(events)].status = st
  /\ \A i \in 2..Len(events) :
       LegalEvent(events[i].type, events[i - 1].status, events[i].status)

StoriesTold ==
  \A p \in Payments : /\ Exists(p) => Story(outbox[p], status[p])
                      /\ ~Exists(p) => outbox[p] = << >>

\* OutboxTellsStatus is that every payment's outbox is such a story.
LEMMA StoriesAreTheProperty == StoriesTold => OutboxTellsStatus
BY DEF StoriesTold, Story, LegalEvent, OutboxTellsStatus

\* A legal event at the end of a story is a story of the new status.
LEMMA StoryGrows ==
  ASSUME NEW events \in Seq(OutboxRow), NEW st \in Statuses, Story(events, st),
         NEW type \in EventTypes, NEW to \in Statuses, LegalEvent(type, st, to)
  PROVE  Story(Append(events, [type |-> type, status |-> to]), to)
<1> DEFINE row == [type |-> type, status |-> to]
           longer == Append(events, row)
<1>1. row \in OutboxRow
  BY DEF OutboxRow
<1>2. /\ Len(events) \in Nat /\ Len(events) > 0
      /\ Len(longer) = Len(events) + 1
      /\ longer[Len(events) + 1] = row
      /\ \A i \in 1..Len(events) : longer[i] = events[i]
  BY <1>1, AppendProperties DEF Story
<1>3. longer[1] = [type |-> "payment.created", status |-> "pending"]
  BY <1>2 DEF Story
<1>4. ASSUME NEW i \in 2..Len(longer)
      PROVE  LegalEvent(longer[i].type, longer[i - 1].status, longer[i].status)
  <2>1. CASE i \in 2..Len(events)
    <3>1. longer[i] = events[i] /\ longer[i - 1] = events[i - 1]
      BY <1>2, <2>1
    <3>2. QED
      BY <2>1, <3>1 DEF Story
  <2>2. CASE i = Len(events) + 1
    <3>1. longer[i] = row /\ longer[i - 1] = events[Len(events)]
      BY <1>2, <2>2
    <3>2. longer[i - 1].status = st /\ longer[i].type = type /\ longer[i].status = to
      BY <3>1 DEF Story
    <3>3. QED
      BY <3>2
  <2>3. QED
    BY <1>2, <1>4, <2>1, <2>2
<1>5. longer[Len(longer)].status = to
  BY <1>2
<1> HIDE DEF longer
<1>6. Story(longer, to)
  BY <1>2, <1>3, <1>4, <1>5 DEF Story
<1>7. QED
  BY <1>6 DEF longer

\* A transaction that tells p's story one event further and leaves the other
\* payments alone keeps all stories.
LEMMA StepTells ==
  ASSUME Typed, Typed', StoriesTold, NEW p \in Payments, Exists(p),
         NEW type \in EventTypes, NEW to \in Statuses,
         LegalEvent(type, status[p], to), Enqueue(p, type, to),
         status' = [status EXCEPT ![p] = to]
  PROVE  StoriesTold'
<1>1. outbox'[p] = Append(outbox[p], [type |-> type, status |-> to])
      /\ status'[p] = to
  BY DEF Enqueue, Typed, TypeOK
<1>2. \A q \in Payments \ {p} : outbox'[q] = outbox[q] /\ status'[q] = status[q]
  BY DEF Enqueue, Typed, TypeOK
<1>3. outbox[p] \in Seq(OutboxRow) /\ status[p] \in Statuses
  BY DEF Exists, Typed, TypeOK
<1>4. Story(outbox'[p], status'[p])
  BY <1>1, <1>3, StoryGrows DEF StoriesTold
<1>5. Exists(p)'
  BY <1>1 DEF Exists, Statuses
<1>6. QED
  BY <1>2, <1>4, <1>5 DEF StoriesTold, Exists

\* Every handler tells the merchant each status change, and only legal ones.
LEMMA NextTells == Typed /\ Typed' /\ StoriesTold /\ [Next]_vars => StoriesTold'
<1> SUFFICES ASSUME Typed, Typed', StoriesTold, [Next]_vars
             PROVE  StoriesTold'
  OBVIOUS
<1>1. CASE UNCHANGED <<status, outbox>>
  BY <1>1 DEF StoriesTold, Exists
<1>2. ASSUME NEW p \in Payments, NEW k \in Keys, NEW a \in Amounts,
             NEW now \in Recent, Create(p, k, a, now)
      PROVE  StoriesTold'
  <2> DEFINE row == [type |-> "payment.created", status |-> "pending"]
  <2>1. row \in OutboxRow
    BY DEF OutboxRow, EventTypes, Statuses
  <2>2. \A q \in Payments \ {p} : outbox'[q] = outbox[q] /\ status'[q] = status[q]
    BY <1>2 DEF Create, Enqueue, Typed, TypeOK
  <2>3. status'[p] = "pending" /\ outbox'[p] = Append(outbox[p], row)
    BY <1>2 DEF Create, Enqueue, Typed, TypeOK
  <2>4. outbox[p] = << >>
    BY <1>2 DEF Create, StoriesTold
  <2>5. Story(outbox'[p], "pending")
    BY <2>1, <2>3, <2>4 DEF Story
  <2>6. QED
    BY <2>2, <2>3, <2>5 DEF StoriesTold, Exists
<1>3. ASSUME NEW p \in Payments, NEW now \in Recent, Cancel(p, now)
      PROVE  StoriesTold'
  <2>1. /\ Exists(p) /\ status[p] = "pending"
        /\ status' = [status EXCEPT ![p] = "cancelled"]
        /\ Enqueue(p, "payment.cancelled", "cancelled")
    BY <1>3 DEF Cancel, AppendTransition, Exists
  <2>2. LegalEvent("payment.cancelled", status[p], "cancelled")
    BY <2>1 DEF LegalEvent
  <2>3. QED
    BY <2>1, <2>2, StepTells DEF EventTypes, Statuses
<1>4. ASSUME NEW now \in Recent, ExpireDue(now)
      PROVE  StoriesTold'
  <2> DEFINE row == [type |-> "payment.expired", status |-> "expired"]
  <2>1. PICK S \in SUBSET DuePayments(now) :
          /\ status' = [p \in Payments |-> IF p \in S THEN "expired" ELSE status[p]]
          /\ outbox' = [p \in Payments |->
                          IF p \in S THEN Append(outbox[p], row) ELSE outbox[p]]
    BY <1>4 DEF ExpireDue, ExpiryBatches
  <2>2. ASSUME NEW p \in S
        PROVE  p \in Payments /\ status[p] = "pending"
    BY <2>1 DEF DuePayments
  <2>3. ASSUME NEW p \in S
        PROVE  Story(outbox'[p], status'[p]) /\ Exists(p)'
    <3>1. Story(outbox[p], "pending") /\ outbox[p] \in Seq(OutboxRow)
      BY <2>2 DEF StoriesTold, Exists, Typed, TypeOK
    <3>2. LegalEvent("payment.expired", "pending", "expired")
      BY DEF LegalEvent
    <3>3. Story(Append(outbox[p], row), "expired")
      BY <3>1, <3>2, StoryGrows DEF EventTypes, Statuses
    <3>4. QED
      BY <2>1, <2>2, <3>3 DEF Exists
  <2>4. ASSUME NEW p \in Payments \ S
        PROVE  outbox'[p] = outbox[p] /\ status'[p] = status[p]
    BY <2>1
  <2>5. QED
    BY <2>3, <2>4 DEF StoriesTold, Exists
<1>5. ASSUME NEW e \in Events, NEW now \in Recent, ApplyObservation(e, now)
      PROVE  StoriesTold'
  <2>1. CASE UNCHANGED <<paymentRow, trail>>
    BY <1>1, <2>1 DEF paymentRow, trail
  <2>2. ASSUME NEW p \in MatchingCandidates(evidence[e]), MarkPaid(e, p, now)
        PROVE  StoriesTold'
    <3>1. p \in Payments /\ Exists(p)
      BY DEF MatchingCandidates
    <3>2. QED
      BY <2>2, <3>1, StepTells
      DEF MarkPaid, AppendTransition, LegalEvent, EventTypes, Statuses
  <2>3. QED
    BY <1>5, <2>1, <2>2 DEF ApplyObservation, RecordUndecided, Corroborate
<1>6. ASSUME NEW p \in Payments, NEW to \in EditTargets,
             NEW at \in PaidAtInputs \cup {Null}, NEW other \in OtherEdits,
             NEW now \in Recent, Edit(p, to, at, other, now)
      PROVE  StoriesTold'
  <2> DEFINE type == OperatorEventType(status[p], to)
  <2>1. /\ Exists(p) /\ status' = [status EXCEPT ![p] = to]
        /\ Enqueue(p, type, to) \/ (to = status[p] /\ UNCHANGED outbox)
    BY <1>6 DEF Edit
  <2>2. to \in Statuses
    BY ConstantAssumption DEF ConstantAssumption, Statuses
  <2>3. CASE Enqueue(p, type, to)
    <3>1. LegalEvent(type, status[p], to) /\ type \in EventTypes
      BY DEF OperatorEventType, LegalEvent, EventTypes
    <3>2. QED
      BY <2>1, <2>2, <2>3, <3>1, StepTells
  <2>4. CASE to = status[p] /\ UNCHANGED outbox
    <3>1. status' = status
      BY <2>1, <2>4 DEF Typed, TypeOK
    <3>2. QED
      BY <1>1, <2>4, <3>1
  <2>5. QED
    BY <2>1, <2>3, <2>4
<1>7. QED
  BY <1>1, <1>2, <1>3, <1>4, <1>5, <1>6
  DEF Next, Tick, Activate, Replay, Receive, Revoke, Ignore, vars, paymentRow, trail

\* The events of a payment, in commit order, are a legal story that ends in the
\* stored status, whatever races of operator, merchant, worker and relay.
THEOREM OutboxFaithful == Spec => []OutboxTellsStatus
<1>1. Init => StoriesTold
  BY DEF Init, StoriesTold, Exists
<1>2. QED
  BY <1>1, InitTyped, NextTyped, NextTells, StoriesAreTheProperty, PTL DEF Spec
=============================================================================
