----------------------- MODULE LedgerMatchingProofs -----------------------
(***************************************************************************)
(* Where money goes, for every number of payments, notifications and       *)
(* edits.  An observation is judged once, against the candidates of that   *)
(* moment; what is proved of that moment stays true, because a payment's   *)
(* amount and window never change and a cancellation never leaves its      *)
(* history (only its place in it, and what is read of it, may change).     *)
(***************************************************************************)
EXTENDS PaymentLedgerProofs

---------------------------------------------------------------------------
(* What no transaction changes.                                            *)

\* Wherever a row is filed, the rows that were there are still read.
LEMMA FilingsKeepRows ==
  ASSUME NEW rows \in Seq(HistoryRow), NEW row \in HistoryRow,
         NEW filed \in Filings(rows, row), NEW k \in 1..Len(rows)
  PROVE  \E j \in 1..Len(filed) : filed[j] = rows[k]
<1>1. PICK i \in 1..(Len(rows) + 1) : filed = InsertAt(rows, i, row)
  BY DEF Filings
<1>2. PICK n \in Nat : n = Len(rows)
  OBVIOUS
<1>3. /\ SubSeq(rows, 1, i - 1) \in Seq(HistoryRow)
      /\ Len(SubSeq(rows, 1, i - 1)) = i - 1
      /\ \A j \in 1..(i - 1) : SubSeq(rows, 1, i - 1)[j] = rows[j]
  <2>1. \A j \in 1..(i - 1) : rows[j] \in HistoryRow
    BY <1>2
  <2>2. QED
    BY <1>2, <2>1, SubSeqProperties
<1>4. /\ SubSeq(rows, i, n) \in Seq(HistoryRow)
      /\ Len(SubSeq(rows, i, n)) = n - i + 1
      /\ \A j \in 1..(n - i + 1) : SubSeq(rows, i, n)[j] = rows[i + j - 1]
  <2>1. \A j \in i..n : rows[j] \in HistoryRow
    BY <1>2
  <2>2. QED
    BY <1>2, <2>1, SubSeqProperties
<1>5. /\ SubSeq(rows, 1, i - 1) \o <<row>> \in Seq(HistoryRow)
      /\ Len(SubSeq(rows, 1, i - 1) \o <<row>>) = i
      /\ \A j \in 1..(i - 1) : (SubSeq(rows, 1, i - 1) \o <<row>>)[j] = rows[j]
  <2>1. <<row>> \in Seq(HistoryRow) /\ Len(<<row>>) = 1
    OBVIOUS
  <2>2. QED
    BY <1>2, <1>3, <2>1, ConcatProperties
<1>6. PICK left \in Seq(HistoryRow) :
        /\ left = SubSeq(rows, 1, i - 1) \o <<row>>
        /\ Len(left) = i /\ \A j \in 1..(i - 1) : left[j] = rows[j]
  BY <1>5
<1>7. PICK right \in Seq(HistoryRow) :
        /\ right = SubSeq(rows, i, n)
        /\ Len(right) = n - i + 1
        /\ \A j \in 1..(n - i + 1) : right[j] = rows[i + j - 1]
  BY <1>4
<1>8. /\ Len(filed) = n + 1
      /\ \A j \in 1..i : filed[j] = left[j]
      /\ \A j \in (i + 1)..(n + 1) : filed[j] = right[j - i]
  <2>1. filed = left \o right
    BY <1>1, <1>2, <1>6, <1>7 DEF InsertAt
  <2>2. /\ Len(filed) = Len(left) + Len(right)
        /\ \A j \in 1..(Len(left) + Len(right)) :
             filed[j] = IF j <= Len(left) THEN left[j] ELSE right[j - Len(left)]
    BY <2>1, ConcatProperties
  <2>3. i \in Nat /\ Len(left) = i /\ Len(right) = n - i + 1
    BY <1>2, <1>6, <1>7
  <2>4. QED
    BY <1>2, <2>2, <2>3
<1>9. CASE k < i
  <2>1. k \in 1..Len(filed) /\ filed[k] = rows[k]
    BY <1>2, <1>6, <1>8, <1>9
  <2>2. QED
    BY <2>1
<1>10. CASE k >= i
  <2>1. /\ k + 1 \in 1..Len(filed)
        /\ filed[k + 1] = right[k + 1 - i]
        /\ k + 1 - i \in 1..(n - i + 1)
    BY <1>2, <1>8, <1>10
  <2>2. filed[k + 1] = rows[i + (k + 1 - i) - 1]
    BY <1>7, <2>1
  <2>3. i + (k + 1 - i) - 1 = k
    BY <1>2
  <2>4. QED
    BY <2>1, <2>2, <2>3
<1>11. QED
  BY <1>2, <1>9, <1>10

\* The rows of h are among those of longer.
Extends(h, longer) ==
  \A i \in 1..Len(h) : \E j \in 1..Len(longer) : longer[j] = h[i]

\* The rows of a payment that exists are frozen, its history only grows.
Lasting ==
  \A p \in Payments : Exists(p) =>
    /\ Exists(p)'
    /\ payable'[p] = payable[p] /\ createdAt'[p] = createdAt[p]
    /\ profile'[p] = profile[p]
    /\ Extends(history[p], history'[p])

\* A transaction that files one row for a payment keeps the rows it had.
LEMMA FilingExtends ==
  ASSUME Typed, NEW p \in Payments, NEW row \in HistoryRow,
         NEW rows \in Filings(history[p], row),
         history' = [history EXCEPT ![p] = rows]
  PROVE  \A q \in Payments : Extends(history[q], history'[q])
<1>1. history \in [Payments -> Seq(HistoryRow)]
  BY DEF Typed, TypeOK
<1>2. Extends(history[p], rows)
  BY <1>1, FilingsKeepRows DEF Extends
<1>3. \A q \in Payments : Extends(history[q], history[q])
  BY DEF Extends
<1>4. QED
  BY <1>1, <1>2, <1>3

\* No handler rewrites the amount, the window or the profile of a payment, nor
\* removes a row of its history.
LEMMA NextLasting == Typed /\ [Next]_vars => Lasting
<1> SUFFICES ASSUME Typed, [Next]_vars
             PROVE  Lasting
  OBVIOUS
<1> DEFINE Frozen == UNCHANGED <<payable, createdAt, profile>>
           Kept == \A p \in Payments : Exists(p) => Exists(p)'
           Grown == \A p \in Payments : Extends(history[p], history'[p])
<1>1. ASSUME Frozen, Kept, Grown
      PROVE  Lasting
  BY <1>1 DEF Lasting
<1>2. ASSUME UNCHANGED <<paymentRow, history>>
      PROVE  Lasting
  BY <1>2 DEF paymentRow, Lasting, Exists, Extends
<1>3. ASSUME NEW p \in Payments, NEW k \in Keys, NEW a \in Amounts,
             NEW now \in Recent, Create(p, k, a, now)
      PROVE  Lasting
  <2>1. ~Exists(p)
    BY <1>3 DEF Create
  <2>2. \A q \in Payments \ {p} :
          /\ status'[q] = status[q] /\ payable'[q] = payable[q]
          /\ createdAt'[q] = createdAt[q] /\ profile'[q] = profile[q]
          /\ history'[q] = history[q]
    BY <1>3 DEF Create, Typed, TypeOK
  <2>3. QED
    BY <2>1, <2>2 DEF Lasting, Exists, Extends
<1>4. ASSUME NEW p \in Payments, NEW now \in Nat, NEW type \in EventTypes,
             NEW to \in Statuses, Exists(p), AppendTransition(p, type, to, now)
      PROVE  Grown
  <2>1. PICK rows \in Filings(history[p], Transition(type, status[p], to, now)) :
          history' = [history EXCEPT ![p] = rows]
    BY <1>4 DEF AppendTransition
  <2>2. Transition(type, status[p], to, now) \in HistoryRow
    BY <1>4 DEF Typed, TypeOK, Transition, HistoryRow
  <2>3. QED
    BY <2>1, <2>2, FilingExtends
<1>5. ASSUME NEW p \in Payments, NEW now \in Recent, Cancel(p, now)
      PROVE  Lasting
  <2>1. now \in Nat /\ Exists(p)
    BY <1>5, RecentTimes DEF Typed, TypeOK, Cancel, Exists
  <2>2. Grown
    BY <1>4, <1>5, <2>1 DEF Cancel, EventTypes, Statuses
  <2>3. Frozen /\ Kept
    BY <1>5 DEF Cancel, Exists, Typed, TypeOK
  <2>4. QED
    BY <1>1, <2>2, <2>3
<1>6. ASSUME NEW now \in Recent, ExpireDue(now)
      PROVE  Lasting
  <2> DEFINE Row == Transition("payment.expired", "pending", "expired", now)
  <2>1. PICK S \in SUBSET Payments :
          /\ status' = [p \in Payments |-> IF p \in S THEN "expired" ELSE status[p]]
          /\ \E filed \in [S -> UNION {Filings(history[p], Row) : p \in S}] :
               /\ \A p \in S : filed[p] \in Filings(history[p], Row)
               /\ history' = [p \in Payments |->
                                IF p \in S THEN filed[p] ELSE history[p]]
    BY <1>6 DEF ExpireDue, ExpiryBatches, DuePayments
  <2>2. PICK filed :
          /\ \A p \in S : filed[p] \in Filings(history[p], Row)
          /\ history' = [p \in Payments |-> IF p \in S THEN filed[p] ELSE history[p]]
    BY <2>1
  <2>3. Row \in HistoryRow
    BY RecentTimes
    DEF Typed, TypeOK, Transition, HistoryRow, EventTypes, Statuses
  <2>4. ASSUME NEW p \in S
        PROVE  Extends(history[p], history'[p])
    <3>1. history[p] \in Seq(HistoryRow)
      BY DEF Typed, TypeOK
    <3>2. Extends(history[p], filed[p])
      BY <2>2, <2>3, <3>1, FilingsKeepRows DEF Extends
    <3>3. QED
      BY <2>2, <3>2
  <2>5. ASSUME NEW p \in Payments \ S
        PROVE  Extends(history[p], history'[p])
    BY <2>2 DEF Extends
  <2>6. Frozen /\ Kept
    BY <1>6, <2>1 DEF ExpireDue, Exists
  <2>7. QED
    BY <1>1, <2>4, <2>5, <2>6
<1>7. ASSUME NEW e \in Events, NEW now \in Recent, ApplyObservation(e, now)
      PROVE  Lasting
  <2>1. CASE UNCHANGED <<paymentRow, trail>>
    BY <1>2, <2>1 DEF trail
  <2>2. ASSUME NEW p \in MatchingCandidates(evidence[e]), MarkPaid(e, p, now)
        PROVE  Lasting
    <3>1. p \in Payments /\ Exists(p) /\ now \in Nat
      BY RecentTimes DEF MatchingCandidates, Typed, TypeOK
    <3>2. Grown
      BY <1>4, <2>2, <3>1 DEF MarkPaid, EventTypes, Statuses
    <3>3. Frozen /\ Kept
      BY <2>2 DEF MarkPaid, Exists, Typed, TypeOK
    <3>4. QED
      BY <1>1, <3>2, <3>3
  <2>3. QED
    BY <1>7, <2>1, <2>2 DEF ApplyObservation, RecordUndecided, Corroborate
<1>8. ASSUME NEW p \in Payments, NEW to \in EditTargets,
             NEW at \in PaidAtInputs \cup {Null}, NEW other \in OtherEdits,
             NEW now \in Recent, Edit(p, to, at, other, now)
      PROVE  Lasting
  <2>1. to \in Statuses /\ now \in Nat
    BY RecentTimes, ConstantAssumption
    DEF ConstantAssumption, Statuses, Typed, TypeOK
  <2> DEFINE moved == to # status[p]
             row == Transition(OperatorEventType(status[p], to),
                               IF moved THEN status[p] ELSE "none",
                               IF moved THEN to ELSE "none", now)
  <2>2. row \in HistoryRow
    BY <2>1
    DEF Transition, HistoryRow, OperatorEventType, EventTypes, Typed, TypeOK
  <2>3. PICK rows \in Filings(history[p], row) :
          history' = [history EXCEPT ![p] = rows]
    BY <1>8 DEF Edit
  <2>4. Grown
    BY <2>2, <2>3, FilingExtends
  <2>5. Frozen /\ Kept
    BY <1>8, <2>1 DEF Edit, Exists, Statuses, Typed, TypeOK
  <2>6. QED
    BY <1>1, <2>4, <2>5
<1>9. QED
  BY <1>2, <1>3, <1>5, <1>6, <1>7, <1>8
  DEF Next, Tick, Activate, Replay, Receive, Revoke, Ignore, vars, trail

---------------------------------------------------------------------------
(* What happens to one event in one step.                                  *)

Undisturbed(e) ==
  /\ evStatus'[e] = evStatus[e] /\ evidence'[e] = evidence[e]
  /\ matched'[e] = matched[e] /\ result'[e] = result[e]

Arrives(e) ==
  /\ evStatus[e] = "none" /\ evStatus'[e] = "received"
  /\ matched'[e] = matched[e] /\ result'[e] = result[e]
  /\ \E p \in Payments :
       /\ Exists(p) /\ evidence'[e].intended = p
       /\ evidence'[e].amount = payable[p]
       /\ createdAt[p] <= evidence'[e].occurred
       /\ evidence'[e].source = "paytm_notification" => profile[p] = Paytm

Dropped(e) ==
  /\ evStatus[e] = "received" /\ evStatus'[e] = "ignored"
  /\ evidence'[e] = evidence[e]
  /\ matched'[e] = matched[e] /\ result'[e] = result[e]

Judged(e) ==
  /\ evStatus[e] = "received" /\ evStatus'[e] \notin {"none", "received"}
  /\ evidence'[e] = evidence[e]
  /\ \/ /\ MatchingCandidates(evidence[e]) = {}
        /\ matched'[e] = Null
     \/ /\ \E p, q \in MatchingCandidates(evidence[e]) : p # q
        /\ matched'[e] = Null
     \/ \E p \in MatchingCandidates(evidence[e]) :
          MatchingCandidates(evidence[e]) = {p} /\ matched'[e] = p

\* Conclude decides its event and no other.
LEMMA ConcludeJudges ==
  ASSUME Typed, NEW e \in Events, evStatus[e] = "received",
         NEW res \in MatchResults, NEW p \in Payments \cup {Null},
         Conclude(e, res, p)
  PROVE  /\ evStatus'[e] \notin {"none", "received"}
         /\ evidence'[e] = evidence[e] /\ matched'[e] = p
         /\ \A f \in Events \ {e} : Undisturbed(f)
BY DEF Conclude, MatchResults, Undisturbed, Typed, TypeOK

\* An event arrives, is dropped or is judged in a step of its own, and is left
\* alone by every other.
LEMMA NextEvents ==
  Typed /\ [Next]_vars =>
    \A e \in Events : Undisturbed(e) \/ Arrives(e) \/ Dropped(e) \/ Judged(e)
<1> SUFFICES ASSUME Typed, [Next]_vars, NEW e \in Events
             PROVE  Undisturbed(e) \/ Arrives(e) \/ Dropped(e) \/ Judged(e)
  OBVIOUS
<1>1. CASE UNCHANGED <<evStatus, evidence, matched, result>>
  BY <1>1 DEF Undisturbed
<1>2. ASSUME NEW f \in Events, NEW p \in Payments, NEW s \in EvidenceSources,
             NEW occ \in 0..clock, Receive(f, p, s, occ)
      PROVE  Undisturbed(e) \/ Arrives(e)
  <2>1. CASE e = f
    <3>1. /\ evStatus[e] = "none" /\ evStatus'[e] = "received"
          /\ matched'[e] = matched[e] /\ result'[e] = result[e]
          /\ Exists(p) /\ createdAt[p] <= occ
          /\ s = "paytm_notification" => profile[p] = Paytm
      BY <1>2, <2>1 DEF Receive, Typed, TypeOK
    <3>2. evidence'[e] = [source |-> s, amount |-> payable[p], occurred |-> occ,
                          intended |-> p]
      BY <1>2, <2>1 DEF Receive, Typed, TypeOK
    <3>3. QED
      BY <3>1, <3>2 DEF Arrives
  <2>2. CASE e # f
    BY <1>2, <2>2 DEF Receive, Undisturbed, Typed, TypeOK
  <2>3. QED
    BY <2>1, <2>2
<1>3. ASSUME NEW f \in Events, Ignore(f)
      PROVE  Undisturbed(e) \/ Dropped(e)
  BY <1>3 DEF Ignore, Undisturbed, Dropped, Typed, TypeOK
<1>4. ASSUME NEW f \in Events, NEW now \in Recent, ApplyObservation(f, now)
      PROVE  Undisturbed(e) \/ Judged(e)
  <2> DEFINE C == MatchingCandidates(evidence[f])
  <2>1. evStatus[f] = "received"
    BY <1>4 DEF ApplyObservation
  <2>2. ASSUME NEW res \in MatchResults, NEW p \in Payments \cup {Null},
               Conclude(f, res, p),
               \/ C = {} /\ p = Null
               \/ (\E q, r \in C : q # r) /\ p = Null
               \/ p \in C /\ C = {p}
        PROVE  Undisturbed(e) \/ Judged(e)
    <3>1. CASE e = f
      <4>1. /\ evStatus'[e] \notin {"none", "received"}
            /\ evidence'[e] = evidence[e] /\ matched'[e] = p
        BY <2>1, <2>2, <3>1, ConcludeJudges
      <4>2. QED
        BY <2>1, <2>2, <3>1, <4>1 DEF Judged
    <3>2. CASE e # f
      BY <2>1, <2>2, <3>2, ConcludeJudges
    <3>3. QED
      BY <3>1, <3>2
  <2>3. CASE C = {} /\ RecordUndecided(f, "unmatched")
    BY <2>2, <2>3 DEF RecordUndecided, MatchResults
  <2>4. CASE (\E p, q \in C : p # q) /\ RecordUndecided(f, "ambiguous")
    BY <2>2, <2>4 DEF RecordUndecided, MatchResults
  <2>5. ASSUME NEW p \in C, C = {p}, MarkPaid(f, p, now) \/ Corroborate(f, p)
        PROVE  Undisturbed(e) \/ Judged(e)
    <3>1. p \in Payments
      BY DEF MatchingCandidates
    <3>2. PICK res \in MatchResults : Conclude(f, res, p)
      BY <2>5 DEF MarkPaid, Corroborate, MatchResults
    <3>3. QED
      BY <2>2, <2>5, <3>1, <3>2
  <2>6. QED
    BY <1>4, <2>3, <2>4, <2>5 DEF ApplyObservation
<1>5. QED
  BY <1>1, <1>2, <1>3, <1>4
  DEF Next, Tick, Activate, Create, Replay, Cancel, ExpireDue, Revoke, Edit, vars,
      observationRow

---------------------------------------------------------------------------
(* The matching invariant.                                                 *)

\* An event carries the displayed amount of a payment that existed when the
\* money was sent, and nothing is recorded of it before it is judged.
Meant ==
  \A e \in Events : evStatus[e] # "none" =>
    LET p == evidence[e].intended IN
      /\ Exists(p)
      /\ evidence[e].amount = payable[p]
      /\ createdAt[p] <= evidence[e].occurred
      /\ evidence[e].source = "paytm_notification" => profile[p] = Paytm

Unjudged ==
  \A e \in Events : evStatus[e] \in {"none", "received"} =>
    matched[e] = Null /\ result[e] = Null

\* The payment credited shows the amount and its window contains the time.
Attributed ==
  \A e \in Events : matched[e] # Null =>
    /\ Exists(matched[e])
    /\ payable[matched[e]] = evidence[e].amount
    /\ InWindow(matched[e], evidence[e].occurred)

\* Only a cancellation diverts money from its payment.
DivertedByCancellation ==
  \A e \in Events :
    matched[e] # Null /\ PaidInWindow(e) /\ matched[e] # evidence[e].intended =>
      WasCancelled(evidence[e].intended)

\* Decided evidence finds its payment: the code asks nothing more of the generic
\* source, so the invariant speaks of both.
EvidenceFound ==
  \A e \in Events : result[e] # Null /\ PaidInWindow(e) =>
    LET p == evidence[e].intended IN
      \/ matched[e] = p
      \/ WasCancelled(p)
      \/ \E q \in Payments : /\ q # p /\ Exists(q) /\ payable[q] = payable[p]
                             /\ InWindow(q, evidence[e].occurred)

MatchingInv ==
  /\ ReservationInv
  /\ Meant
  /\ Unjudged
  /\ Attributed
  /\ DivertedByCancellation
  /\ EvidenceFound

\* Money sent within the window of its payment finds it among the candidates,
\* unless the payment's history has a cancellation.
LEMMA IntendedIsCandidate ==
  ASSUME ReservationInv, Meant, NEW e \in Events, evStatus[e] = "received",
         PaidInWindow(e)
  PROVE  \/ evidence[e].intended \in MatchingCandidates(evidence[e])
         \/ WasCancelled(evidence[e].intended)
<1>1. evidence[e] \in Observation
  BY DEF ReservationInv, Typed, EvidencePresent
<1>2. PICK p \in Payments : p = evidence[e].intended
  BY <1>1 DEF Observation
<1>3. PICK occ \in Nat : occ = evidence[e].occurred
  BY <1>1 DEF Observation
<1>4. /\ Exists(p) /\ payable[p] = evidence[e].amount
      /\ createdAt[p] <= occ
      /\ evidence[e].source = "paytm_notification" => profile[p] = Paytm
  BY <1>2, <1>3 DEF Meant
<1>5. occ <= ReuseAfter(p)
  BY <1>2, <1>3 DEF PaidInWindow
<1>6. releasedAt[p] = Null \/ releasedAt[p] >= occ
  <2>1. SUFFICES ASSUME releasedAt[p] # Null
                 PROVE  releasedAt[p] >= occ
    OBVIOUS
  <2>2. releasedAt[p] \in Nat
    BY <2>1 DEF ReservationInv, Typed, TypeOK
  <2>3. ReuseAfter(p) <= releasedAt[p] /\ ReuseAfter(p) \in Nat
    BY <2>1, WindowsAreNaturals DEF ReservationInv, HeldUntilReuse
  <2>4. QED
    BY <1>5, <2>2, <2>3
<1>7. CASE OccurredDuringCancellation(p, occ)
  <2>1. WasCancelled(p)
    BY <1>7 DEF OccurredDuringCancellation, WasCancelled
  <2>2. QED
    BY <1>2, <2>1
<1>8. CASE ~OccurredDuringCancellation(p, occ)
  <2>1. ReuseAfter(p) >= occ
    BY <1>5, WindowsAreNaturals DEF ReservationInv
  <2>2. p \in MatchingCandidates(evidence[e])
    BY <1>3, <1>4, <1>6, <1>8, <2>1 DEF MatchingCandidates
  <2>3. QED
    BY <1>2, <2>2
<1>9. QED
  BY <1>7, <1>8

\* What lasts of a payment: its window and the fact that it was cancelled.
LEMMA LastingFacts ==
  ASSUME Typed, Lasting, NEW p \in Payments, Exists(p)
  PROVE  /\ Exists(p)' /\ payable'[p] = payable[p] /\ profile'[p] = profile[p]
         /\ createdAt'[p] = createdAt[p] /\ ReuseAfter(p)' = ReuseAfter(p)
         /\ WasCancelled(p) => WasCancelled(p)'
         /\ \A t : InWindow(p, t) => InWindow(p, t)'
<1>1. /\ Exists(p)' /\ payable'[p] = payable[p] /\ profile'[p] = profile[p]
      /\ createdAt'[p] = createdAt[p] /\ Extends(history[p], history'[p])
  BY DEF Lasting
<1>2. ReuseAfter(p)' = ReuseAfter(p)
  BY <1>1 DEF ReuseAfter, GraceUntil
<1>3. WasCancelled(p) => WasCancelled(p)'
  BY <1>1 DEF WasCancelled, Extends
<1>4. QED
  BY <1>1, <1>2, <1>3 DEF InWindow

\* The fresh database satisfies the matching invariant.
LEMMA InitMatching == Init => MatchingInv
BY InitReservations
DEF Init, MatchingInv, Meant, Unjudged, Attributed, DivertedByCancellation,
    EvidenceFound

\* What the invariant says of one event, so that a step is one case per event.
EventInv(e) ==
  /\ evStatus[e] # "none" =>
       LET p == evidence[e].intended IN
         /\ Exists(p) /\ evidence[e].amount = payable[p]
         /\ createdAt[p] <= evidence[e].occurred
         /\ evidence[e].source = "paytm_notification" => profile[p] = Paytm
  /\ evStatus[e] \in {"none", "received"} => matched[e] = Null /\ result[e] = Null
  /\ matched[e] # Null =>
       /\ Exists(matched[e]) /\ payable[matched[e]] = evidence[e].amount
       /\ InWindow(matched[e], evidence[e].occurred)
       /\ PaidInWindow(e) /\ matched[e] # evidence[e].intended =>
            WasCancelled(evidence[e].intended)
  /\ result[e] # Null /\ PaidInWindow(e) =>
       LET p == evidence[e].intended IN
         \/ matched[e] = p
         \/ WasCancelled(p)
         \/ \E q \in Payments : /\ q # p /\ Exists(q) /\ payable[q] = payable[p]
                                /\ InWindow(q, evidence[e].occurred)

\* The invariant, event by event.
LEMMA EventByEvent ==
  MatchingInv <=> ReservationInv /\ \A e \in Events : EventInv(e)
BY DEF MatchingInv, Meant, Unjudged, Attributed, DivertedByCancellation,
       EvidenceFound, EventInv

\* An event that was sent keeps its facts through every step that does not
\* touch it.
LEMMA UndisturbedKeeps ==
  ASSUME ReservationInv, ReservationInv', Lasting, NEW e \in Events, EventInv(e),
         Undisturbed(e)
  PROVE  EventInv(e)'
<1>1. CASE evStatus[e] = "none"
  <2>1. matched[e] = Null /\ result[e] = Null
    BY <1>1 DEF EventInv
  <2>2. QED
    BY <1>1, <2>1 DEF EventInv, Undisturbed
<1>2. CASE evStatus[e] # "none"
  <2>1. evidence[e] \in Observation
    BY <1>2 DEF ReservationInv, Typed, EvidencePresent
  <2>2. PICK p \in Payments : p = evidence[e].intended
    BY <2>1 DEF Observation
  <2>3. PICK occ \in Nat : occ = evidence[e].occurred
    BY <2>1 DEF Observation
  <2>4. Exists(p) /\ Typed
    BY <1>2, <2>2 DEF EventInv, ReservationInv
  <2>5. \A q \in Payments : Exists(q) =>
          /\ Exists(q)' /\ payable'[q] = payable[q] /\ profile'[q] = profile[q]
          /\ createdAt'[q] = createdAt[q] /\ ReuseAfter(q)' = ReuseAfter(q)
          /\ WasCancelled(q) => WasCancelled(q)'
          /\ InWindow(q, occ) => InWindow(q, occ)'
    BY <2>4, LastingFacts
  <2>6. /\ evStatus'[e] = evStatus[e] /\ evidence'[e] = evidence[e]
        /\ matched'[e] = matched[e] /\ result'[e] = result[e]
    BY DEF Undisturbed
  <2>7. PaidInWindow(e)' <=> PaidInWindow(e)
    BY <2>2, <2>4, <2>5, <2>6 DEF PaidInWindow
  <2>8. /\ Exists(p)' /\ evidence'[e].amount = payable'[p]
        /\ createdAt'[p] <= evidence'[e].occurred
        /\ evidence'[e].source = "paytm_notification" => profile'[p] = Paytm
    BY <1>2, <2>2, <2>4, <2>5, <2>6 DEF EventInv
  <2>9. evStatus'[e] \in {"none", "received"} => matched'[e] = Null /\ result'[e] = Null
    BY <2>6 DEF EventInv
  <2>10. ASSUME matched'[e] # Null
         PROVE  /\ Exists(matched[e])' /\ payable'[matched'[e]] = evidence'[e].amount
                /\ InWindow(matched[e], evidence[e].occurred)'
                /\ PaidInWindow(e)' /\ matched'[e] # p => WasCancelled(p)'
    <3>1. PICK m \in Payments : m = matched[e]
      BY <2>4, <2>6, <2>10 DEF Typed, TypeOK
    <3>2. /\ Exists(m) /\ payable[m] = evidence[e].amount
          /\ InWindow(m, occ)
          /\ PaidInWindow(e) /\ m # p => WasCancelled(p)
      BY <2>2, <2>3, <2>6, <2>10, <3>1 DEF EventInv
    <3>3. /\ Exists(m)' /\ payable'[m] = evidence[e].amount /\ InWindow(m, occ)'
          /\ PaidInWindow(e)' /\ m # p => WasCancelled(p)'
      BY <2>4, <2>5, <2>7, <3>1, <3>2
    <3>4. matched'[e] = m /\ evidence'[e].occurred = occ
      BY <2>3, <2>6, <3>1
    <3>5. QED
      BY <2>6, <3>3, <3>4 DEF Exists, InWindow, ReuseAfter, GraceUntil
  <2>11. ASSUME result'[e] # Null, PaidInWindow(e)'
         PROVE  \/ matched'[e] = p
                \/ WasCancelled(p)'
                \/ \E q \in Payments : /\ q # p /\ Exists(q)'
                                       /\ payable'[q] = payable'[p]
                                       /\ InWindow(q, occ)'
    <3>1. \/ matched[e] = p
          \/ WasCancelled(p)
          \/ \E q \in Payments : /\ q # p /\ Exists(q) /\ payable[q] = payable[p]
                                 /\ InWindow(q, occ)
      BY <2>2, <2>3, <2>6, <2>7, <2>11 DEF EventInv
    <3>2. QED
      BY <2>4, <2>5, <2>6, <3>1
  <2>12. QED
    BY <2>2, <2>3, <2>6, <2>8, <2>9, <2>10, <2>11
    DEF EventInv, InWindow, WasCancelled, Exists
<1>3. QED
  BY <1>1, <1>2

\* An event that arrives or is dropped is not credited to anyone.
LEMMA UnjudgedKeeps ==
  ASSUME Typed, Lasting, NEW e \in Events, EventInv(e), Arrives(e) \/ Dropped(e)
  PROVE  EventInv(e)'
<1>1. matched'[e] = Null /\ result'[e] = Null
  BY DEF EventInv, Arrives, Dropped
<1>2. PICK p :
        /\ p \in Payments /\ p = evidence'[e].intended /\ Exists(p)
        /\ evidence'[e].amount = payable[p]
        /\ createdAt[p] <= evidence'[e].occurred
        /\ evidence'[e].source = "paytm_notification" => profile[p] = Paytm
  <2>1. CASE Arrives(e)
    BY <2>1 DEF Arrives
  <2>2. CASE Dropped(e)
    <3>1. evStatus[e] = "received" /\ evidence'[e] = evidence[e]
      BY <2>2 DEF Dropped
    <3>2. evidence[e].intended \in Payments
      BY <3>1 DEF Typed, EvidencePresent, Observation
    <3>3. QED
      BY <3>1, <3>2 DEF EventInv
  <2>3. QED
    BY <2>1, <2>2
<1>3. /\ Exists(p)' /\ payable'[p] = payable[p] /\ createdAt'[p] = createdAt[p]
      /\ profile'[p] = profile[p]
  BY <1>2 DEF Lasting
<1>4. QED
  BY <1>1, <1>2, <1>3 DEF EventInv

\* An event that is judged goes to its payment, to nobody, or elsewhere for a
\* reason: judged against the candidates of the moment, kept by what lasts.
LEMMA JudgedKeeps ==
  ASSUME ReservationInv, Meant, Lasting, NEW e \in Events, Judged(e)
  PROVE  EventInv(e)'
<1>1. Typed /\ evidence[e] \in Observation /\ evStatus[e] = "received"
  BY DEF Judged, ReservationInv, Typed, EvidencePresent
<1>2. PICK p \in Payments : p = evidence[e].intended
  BY <1>1 DEF Observation
<1>3. PICK occ \in Nat : occ = evidence[e].occurred
  BY <1>1 DEF Observation
<1>4. /\ Exists(p) /\ evidence[e].amount = payable[p] /\ createdAt[p] <= occ
      /\ evidence[e].source = "paytm_notification" => profile[p] = Paytm
  BY <1>1, <1>2, <1>3 DEF Meant
<1>5. \A q \in Payments : Exists(q) =>
        /\ Exists(q)' /\ payable'[q] = payable[q] /\ profile'[q] = profile[q]
        /\ createdAt'[q] = createdAt[q] /\ ReuseAfter(q)' = ReuseAfter(q)
        /\ WasCancelled(q) => WasCancelled(q)'
        /\ InWindow(q, occ) => InWindow(q, occ)'
  BY <1>1, LastingFacts
<1>6. PICK C \in SUBSET Payments : C = MatchingCandidates(evidence[e])
  BY DEF MatchingCandidates
<1>7. \A q \in C : /\ q \in Payments /\ Exists(q) /\ payable[q] = evidence[e].amount
                  /\ InWindow(q, occ)
  <2>1. ASSUME NEW q \in C
        PROVE  /\ q \in Payments /\ Exists(q) /\ payable[q] = evidence[e].amount
               /\ createdAt[q] <= occ /\ ReuseAfter(q) >= occ
    BY <1>3, <1>6 DEF MatchingCandidates
  <2>2. \A q \in Payments : ReuseAfter(q) \in Nat
    BY <1>1, WindowsAreNaturals
  <2>3. QED
    BY <2>1, <2>2 DEF InWindow
<1>8. PaidInWindow(e)' => p \in C \/ WasCancelled(p)'
  <2>1. PaidInWindow(e)' => PaidInWindow(e)
    BY <1>2, <1>4, <1>5 DEF PaidInWindow, Judged
  <2>2. QED
    BY <1>1, <1>2, <1>4, <1>5, <1>6, <2>1, IntendedIsCandidate
<1>9. /\ evidence'[e] = evidence[e] /\ evStatus'[e] \notin {"none", "received"}
      /\ \/ C = {} /\ matched'[e] = Null
         \/ (\E q, r \in C : q # r) /\ matched'[e] = Null
         \/ \E q \in C : C = {q} /\ matched'[e] = q
  BY <1>6 DEF Judged
<1>10. /\ Exists(p)' /\ evidence'[e].amount = payable'[p]
       /\ createdAt'[p] <= evidence'[e].occurred
       /\ evidence'[e].source = "paytm_notification" => profile'[p] = Paytm
  BY <1>2, <1>3, <1>4, <1>5, <1>9
<1>11. ASSUME matched'[e] # Null
       PROVE  /\ Exists(matched[e])' /\ payable'[matched'[e]] = evidence'[e].amount
              /\ InWindow(matched[e], evidence[e].occurred)'
              /\ PaidInWindow(e)' /\ matched'[e] # p => WasCancelled(p)'
  <2>1. PICK m \in C : C = {m} /\ matched'[e] = m
    BY <1>9, <1>11
  <2>2. Exists(m)' /\ payable'[m] = evidence'[e].amount /\ InWindow(m, occ)'
    BY <1>5, <1>7, <1>9, <2>1
  <2>3. QED
    BY <1>3, <1>8, <1>9, <2>1, <2>2 DEF Exists, InWindow, ReuseAfter, GraceUntil
<1>12. ASSUME PaidInWindow(e)', matched'[e] # p, ~WasCancelled(p)'
       PROVE  \E q \in Payments : /\ q # p /\ Exists(q)' /\ payable'[q] = payable'[p]
                                 /\ InWindow(q, occ)'
  <2>1. p \in C
    BY <1>8, <1>12
  <2>2. PICK q \in C : q # p
    BY <1>9, <1>12, <2>1
  <2>3. QED
    BY <1>4, <1>5, <1>7, <2>2
<1>13. QED
  BY <1>2, <1>3, <1>9, <1>10, <1>11, <1>12
  DEF EventInv, InWindow, WasCancelled, Exists

\* Every handler keeps the matching invariant.
LEMMA NextMatching == MatchingInv /\ [Next]_vars => MatchingInv'
<1> SUFFICES ASSUME MatchingInv, [Next]_vars
             PROVE  MatchingInv'
  OBVIOUS
<1>1. ReservationInv /\ Typed /\ Meant /\ \A e \in Events : EventInv(e)
  BY EventByEvent DEF MatchingInv, ReservationInv
<1>2. ReservationInv' /\ Lasting
  BY <1>1, NextReservations, NextLasting
<1>3. ASSUME NEW e \in Events
      PROVE  EventInv(e)'
  <2>1. Undisturbed(e) \/ Arrives(e) \/ Dropped(e) \/ Judged(e)
    BY <1>1, NextEvents
  <2>2. QED
    BY <1>1, <1>2, <2>1, UndisturbedKeeps, UnjudgedKeeps, JudgedKeeps
<1>4. (\A e \in Events : EventInv(e))'
  BY <1>3
<1>5. QED
  BY <1>2, <1>4, EventByEvent, PTL

\* The matching invariant holds of every reachable database.
LEMMA MatchingHolds == Spec => []MatchingInv
BY InitMatching, NextMatching, PTL DEF Spec

\* With the windows of one amount apart but for the clocks' staleness, money
\* credited elsewhere was sent within that staleness of a creation.
LEMMA DivertedOnlyByStaleClocks == MatchingInv => NoMisattribution
<1> SUFFICES ASSUME MatchingInv, NEW e \in Events, matched[e] # Null, PaidInWindow(e),
                    matched[e] # evidence[e].intended
             PROVE  /\ WasCancelled(evidence[e].intended)
                    /\ \/ evidence[e].occurred
                             <= createdAt[evidence[e].intended] + MaxLag
                       \/ evidence[e].occurred <= createdAt[matched[e]] + MaxLag
  BY DEF NoMisattribution
<1>1. Typed /\ evStatus[e] # "none"
  BY DEF MatchingInv, ReservationInv, Unjudged
<1>2. evidence[e] \in Observation
  BY <1>1 DEF Typed, EvidencePresent
<1>3. PICK p \in Payments : p = evidence[e].intended
  BY <1>2 DEF Observation
<1>4. PICK occ \in Nat : occ = evidence[e].occurred
  BY <1>2 DEF Observation
<1>5. PICK q \in Payments : q = matched[e]
  BY <1>1 DEF Typed, TypeOK
<1>6. Exists(p) /\ Exists(q) /\ payable[p] = payable[q] /\ p # q
  BY <1>1, <1>3, <1>5 DEF MatchingInv, Meant, Attributed
<1>7. occ <= ReuseAfter(p) /\ occ <= ReuseAfter(q)
  BY <1>3, <1>4, <1>5 DEF PaidInWindow, MatchingInv, Attributed, InWindow
<1>8. createdAt[q] + MaxLag >= ReuseAfter(p) \/ createdAt[p] + MaxLag >= ReuseAfter(q)
  BY <1>6 DEF MatchingInv, ReservationInv, ReuseSeparated
<1>9. occ <= createdAt[p] + MaxLag \/ occ <= createdAt[q] + MaxLag
  BY <1>1, <1>7, <1>8, WindowsAreNaturals
<1>10. WasCancelled(p)
  BY <1>3 DEF MatchingInv, DivertedByCancellation
<1>11. QED
  BY <1>3, <1>4, <1>5, <1>9, <1>10

\* Money sent within the window of its payment is never credited to another,
\* but for a cancelled payment and a time within MaxLag of a creation: with
\* exact clocks only money sent at the very time of a creation is exposed.
THEOREM MoneyIsNotMisattributed == Spec => []NoMisattribution
BY MatchingHolds, DivertedOnlyByStaleClocks, PTL

\* Evidence of the bound source that is decided finds the payment it was sent
\* for, however late, unless that payment was cancelled or another's window contains the time.
THEOREM LateEvidenceIsFound == Spec => []EvidenceFindsItsPayment
<1>1. MatchingInv => EvidenceFindsItsPayment
  BY DEF MatchingInv, EvidenceFound, EvidenceFindsItsPayment
<1>2. QED
  BY <1>1, MatchingHolds, PTL
=============================================================================
