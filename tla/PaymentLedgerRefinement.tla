--------------------- MODULE PaymentLedgerRefinement ---------------------
(***************************************************************************)
(* The payment ledger implements AmountRegister, for every value of the    *)
(* constants.  owner is read off the unreleased reservations, phase is the *)
(* status; AmountsExclusive is what makes the owner of an amount unique.   *)
(* It also implements, as the relay does, EventRegister: what the two mean *)
(* by an event's standing and match result is the same.                    *)
(***************************************************************************)
EXTENDS PaymentLedgerProofs

\* Every payment's amount is one the allocator may hand out.
OnRegister == \A p \in Payments : Exists(p) => payable[p] \in Payables

MappedInv == ReservationInv /\ OnRegister

\* Selected amounts lie in a bucket of the requested amount.
LEMMA SelectOnRegister ==
  ASSUME NEW a \in Amounts, NEW now, NEW x \in Select(a, now)
  PROVE  x \in Payables
<1>1. PICK b \in 0..(Buckets - 1) : x \in BucketCandidates(a, b, now)
  BY DEF Select
<1>2. x \in Bucket(a, b)
  BY <1>1 DEF BucketCandidates, Free
<1>3. QED
  BY <1>2 DEF Payables

\* Every handler keeps the invariant the refinement mapping rests on.
LEMMA NextMapped == MappedInv /\ [Next]_vars => MappedInv'
<1> SUFFICES ASSUME MappedInv, [Next]_vars
             PROVE  MappedInv'
  OBVIOUS
<1>1. ReservationInv'
  BY NextReservations DEF MappedInv
<1> DEFINE Stays == payable' = payable /\ \A p \in Payments : Exists(p)' => Exists(p)
<1>2. CASE Stays
  BY <1>1, <1>2 DEF MappedInv, OnRegister, Payables, Bucket
<1>3. ASSUME NEW p \in Payments, NEW k \in Keys, NEW a \in Amounts,
             NEW now \in Recent, Create(p, k, a, now)
      PROVE  OnRegister'
  <2>1. PICK x \in Select(a, now) : payable' = [payable EXCEPT ![p] = x]
    BY <1>3 DEF Create
  <2>2. x \in Payables
    BY SelectOnRegister
  <2>3. \A q \in Payments \ {p} : payable'[q] = payable[q] /\ Exists(q)' = Exists(q)
    BY <1>3, <2>1 DEF Create, Exists, MappedInv, ReservationInv, Typed, TypeOK
  <2>4. payable'[p] = x
    BY <2>1 DEF MappedInv, ReservationInv, Typed, TypeOK
  <2>5. Payables' = Payables
    BY DEF Payables, Bucket
  <2>6. QED
    BY <2>2, <2>3, <2>4, <2>5 DEF MappedInv, OnRegister
<1>4. ASSUME NEW e \in Events, NEW now \in Recent, ApplyObservation(e, now)
      PROVE  Stays
  <2>1. CASE UNCHANGED paymentRow
    BY <2>1 DEF paymentRow, Exists
  <2>2. ASSUME NEW p \in MatchingCandidates(evidence[e]), MarkPaid(e, p, now)
        PROVE  Stays
    BY <2>2 DEF MarkPaid, MatchingCandidates, Exists, MappedInv, ReservationInv,
                Typed, TypeOK
  <2>3. QED
    BY <1>4, <2>1, <2>2 DEF ApplyObservation, RecordUndecided, Corroborate
<1>5. ASSUME NEW p \in Payments, NEW to \in EditTargets,
             NEW at \in PaidAtInputs \cup {Null}, NEW other \in OtherEdits,
             NEW now \in Recent, Edit(p, to, at, other, now)
      PROVE  Stays
  BY <1>5 DEF Edit, Exists, MappedInv, ReservationInv, Typed, TypeOK
<1>6. ASSUME NEW p \in Payments, NEW now \in Recent, Cancel(p, now)
      PROVE  Stays
  BY <1>6 DEF Cancel, Exists, MappedInv, ReservationInv, Typed, TypeOK
<1>7. ASSUME NEW now \in Recent, ExpireDue(now)
      PROVE  Stays
  BY <1>7 DEF ExpireDue, ExpiryBatches, DuePayments, Exists
<1>8. CASE UNCHANGED <<payable, status>>
  BY <1>2, <1>8 DEF Exists
<1>9. QED
  BY <1>1, <1>2, <1>3, <1>4, <1>5, <1>6, <1>7, <1>8
  DEF MappedInv, Next, Tick, Activate, Replay, Receive, Revoke, Ignore, vars, paymentRow

\* An amount on the register belongs to the one payment that holds it.
OwnersUnique ==
  \A x \in Payables : /\ \A p \in Payments : OwnerOf[x] = p <=> p \in Owners(x)
                      /\ OwnerOf[x] = Null <=> Owners(x) = {}

\* Exclusive amounts make OwnerOf well defined: CHOOSE has one candidate.
LEMMA Ownership == ReservationInv => OwnersUnique
<1> SUFFICES ASSUME ReservationInv, NEW x \in Payables
             PROVE  /\ \A p \in Payments : OwnerOf[x] = p <=> p \in Owners(x)
                    /\ OwnerOf[x] = Null <=> Owners(x) = {}
  BY DEF OwnersUnique
<1>1. \A p, q \in Owners(x) : p = q
  BY DEF ReservationInv, AmountsExclusive, Owners
<1>2. Owners(x) \subseteq Payments /\ Null \notin Payments
  BY WindowsAreNaturals DEF Owners, ReservationInv
<1>3. CASE Owners(x) = {}
  BY <1>2, <1>3 DEF OwnerOf
<1>4. CASE Owners(x) # {}
  <2>1. OwnerOf[x] = CHOOSE p \in Owners(x) : TRUE
    BY <1>4 DEF OwnerOf
  <2>2. OwnerOf[x] \in Owners(x)
    BY <1>4, <2>1
  <2>3. QED
    BY <1>1, <1>2, <2>2
<1>5. QED
  BY <1>3, <1>4

\* A handler that leaves the reservations alone, and makes a payment pending
\* only if it holds its amount, is a Move of the register.
LEMMA MovesRegister ==
  ASSUME MappedInv, Typed', UNCHANGED <<payable, releasedAt>>,
         \A p \in Payments : Exists(p)' = Exists(p),
         \A p \in Payments : status'[p] = "pending" /\ status[p] # "pending" =>
                               releasedAt[p] = Null
  PROVE  [Register!Next]_<<OwnerOf, status>>
<1>1. Payables' = Payables
  BY DEF Payables, Bucket
<1>2. \A x : Owners(x)' = Owners(x)
  BY DEF Owners
<1>3. OwnerOf' = OwnerOf
  <2>1. \A x \in Payables : OwnerOf'[x] = OwnerOf[x]
    <3> SUFFICES ASSUME NEW x \in Payables
                 PROVE  OwnerOf'[x] = OwnerOf[x]
      OBVIOUS
    <3>1. OwnerOf'[x] = IF Owners(x)' = {} THEN Null ELSE CHOOSE p \in Owners(x)' : TRUE
      BY <1>1 DEF OwnerOf
    <3>2. OwnerOf[x] = IF Owners(x) = {} THEN Null ELSE CHOOSE p \in Owners(x) : TRUE
      BY DEF OwnerOf
    <3>3. QED
      BY <1>2, <3>1, <3>2
  <2>2. QED
    BY <1>1, <2>1 DEF OwnerOf
<1> DEFINE S == {p \in Payments : Exists(p)}
           next == [p \in S |-> status'[p]]
<1>4. next \in [S -> Statuses]
  BY DEF Exists, Typed, TypeOK
<1>5. ASSUME NEW p \in S
      PROVE  /\ status[p] # "none"
             /\ status[p] # "pending" /\ next[p] = "pending" => Register!Owns(p)
  <2>1. status[p] # "none"
    BY DEF Exists
  <2>2. ASSUME status[p] # "pending", next[p] = "pending"
        PROVE  OwnerOf[payable[p]] = p /\ payable[p] \in Payables
    <3>1. releasedAt[p] = Null /\ payable[p] \in Payables
      BY <2>2 DEF MappedInv, OnRegister
    <3>2. p \in Owners(payable[p])
      BY <3>1 DEF Owners
    <3>3. QED
      BY <3>1, <3>2, Ownership DEF MappedInv, OwnersUnique
  <2>3. QED
    BY <2>1, <2>2 DEF Register!Owns
<1>6. status' = [p \in Payments |-> IF p \in S THEN next[p] ELSE status[p]]
  BY DEF Exists, MappedInv, ReservationInv, Typed, TypeOK
<1>7. Register!Move(S, next)
  BY <1>3, <1>5, <1>6 DEF Register!Move
<1>8. QED
  BY <1>4, <1>7 DEF Register!Next

\* Service.Create is a Create of the register that frees the due amounts.
LEMMA CreateOnRegister ==
  ASSUME MappedInv, MappedInv', NEW p \in Payments, NEW k \in Keys,
         NEW a \in Amounts, NEW now \in Recent, Create(p, k, a, now)
  PROVE  Register!Next
<1>1. PICK x \in Select(a, now) : payable' = [payable EXCEPT ![p] = x]
  BY DEF Create
<1>2. x \in Payables /\ Payables' = Payables
  BY SelectOnRegister DEF Payables, Bucket
<1>3. now \in Nat /\ Null \notin Nat /\ Null \notin Payments
  BY RecentTimes, WindowsAreNaturals DEF MappedInv, ReservationInv
<1> DEFINE freed == {y \in Payables : Owners(y) \subseteq DueReservations(now)}
<1>4. /\ payable'[p] = x /\ Exists(p)' /\ ~Exists(p)
      /\ releasedAt'[p] = Null
  BY <1>1 DEF Create, Exists, Released, DueReservations, MappedInv,
              ReservationInv, HeldUntilReuse, Typed, TypeOK
<1>5. \A q \in Payments \ {p} :
        /\ Exists(q)' = Exists(q) /\ payable'[q] = payable[q]
        /\ releasedAt'[q] = Released(now)[q]
  BY <1>1 DEF Create, Exists, MappedInv, ReservationInv, Typed, TypeOK
<1>6. \A q \in Payments : Released(now)[q] = Null <=>
                            releasedAt[q] = Null /\ q \notin DueReservations(now)
  BY <1>3 DEF Released
<1>7. \A y \in Payables \ {x} : Owners(y)' = Owners(y) \ DueReservations(now)
  BY <1>4, <1>5, <1>6 DEF Owners
<1>8. p \in Owners(x)'
  BY <1>4 DEF Owners
<1>9. x \in freed
  <2>1. \A q \in Holders(now) : payable[q] # x
    BY <1>3, SelectFree
  <2>2. QED
    BY <1>2, <2>1 DEF Owners, Holders
<1>10. \A y \in Payables : /\ \A q \in Payments : OwnerOf'[y] = q <=> q \in Owners(y)'
                           /\ OwnerOf'[y] = Null <=> Owners(y)' = {}
  <2>1. OwnersUnique'
    BY Ownership, PTL DEF MappedInv
  <2>2. QED
    BY <1>2, <2>1 DEF OwnersUnique
<1>11. OwnerOf' = [y \in Payables |-> IF y = x THEN p
                                      ELSE IF y \in freed THEN Null ELSE OwnerOf[y]]
  <2>1. OwnerOf'[x] = p
    BY <1>2, <1>8, <1>10
  <2>2. ASSUME NEW y \in Payables \ {x}, y \in freed
        PROVE  OwnerOf'[y] = Null
    BY <1>7, <1>10, <2>2
  <2>3. ASSUME NEW y \in Payables \ {x}, y \notin freed
        PROVE  OwnerOf'[y] = OwnerOf[y]
    <3>1. PICK q \in Owners(y) : q \notin DueReservations(now)
      BY <2>3
    <3>2. q \in Payments /\ q \in Owners(y)'
      BY <1>7, <3>1 DEF Owners
    <3>3. QED
      BY <1>10, <3>1, <3>2, Ownership DEF MappedInv, OwnersUnique
  <2>4. OwnerOf' = [y \in Payables |-> OwnerOf'[y]]
    BY <1>2 DEF OwnerOf
  <2>5. QED
    BY <2>1, <2>2, <2>3, <2>4
<1>12. status' = [status EXCEPT ![p] = "pending"] /\ status[p] = "none"
  BY DEF Create, Exists
<1>13. Register!Create(p, x, freed)
  BY <1>9, <1>11, <1>12 DEF Register!Create
<1>14. QED
  BY <1>2, <1>13 DEF Register!Next

\* Every handler of the ledger is a step of the register or leaves it alone.
THEOREM LedgerImplementsRegister == Spec => ImplementsRegister
<1>1. Init => Register!Init
  BY DEF Init, Register!Init, OwnerOf, Owners, Exists
<1>2. Init => MappedInv
  BY InitReservations DEF Init, MappedInv, OnRegister, Exists
<1>3. MappedInv /\ [Next]_vars => [Register!Next]_<<OwnerOf, status>>
  <2> SUFFICES ASSUME MappedInv, [Next]_vars
               PROVE  [Register!Next]_<<OwnerOf, status>>
    OBVIOUS
  <2>1. MappedInv' /\ Typed' /\ Typed
    BY NextMapped DEF MappedInv, ReservationInv
  <2> DEFINE Settles ==
        /\ UNCHANGED <<payable, releasedAt>>
        /\ \A p \in Payments : Exists(p)' = Exists(p)
        /\ \A p \in Payments : status'[p] = "pending" /\ status[p] # "pending" =>
                                 releasedAt[p] = Null
  <2>2. CASE Settles
    BY <2>1, <2>2, MovesRegister
  <2>3. ASSUME NEW p \in Payments, NEW k \in Keys, NEW a \in Amounts,
               NEW now \in Recent, Create(p, k, a, now)
        PROVE  Register!Next
    BY <2>1, <2>3, CreateOnRegister
  <2>4. ASSUME NEW p \in Payments, NEW now \in Recent, Cancel(p, now)
        PROVE  Settles
    BY <2>1, <2>4 DEF Cancel, Exists, Typed, TypeOK
  <2>5. ASSUME NEW now \in Recent, ExpireDue(now)
        PROVE  Settles
    BY <2>5 DEF ExpireDue, ExpiryBatches, DuePayments, Exists
  <2>6. ASSUME NEW e \in Events, NEW now \in Recent, ApplyObservation(e, now)
        PROVE  Settles
    <3>1. releasedAt' = releasedAt
      BY <2>6 DEF ApplyObservation
    <3>2. CASE UNCHANGED paymentRow
      BY <3>1, <3>2 DEF paymentRow, Exists
    <3>3. ASSUME NEW p \in MatchingCandidates(evidence[e]), MarkPaid(e, p, now)
          PROVE  Settles
      BY <2>1, <3>1, <3>3 DEF MarkPaid, MatchingCandidates, Exists, Typed, TypeOK
    <3>4. QED
      BY <2>6, <3>2, <3>3 DEF ApplyObservation, RecordUndecided, Corroborate
  <2>7. ASSUME NEW p \in Payments, NEW to \in EditTargets,
               NEW at \in PaidAtInputs \cup {Null}, NEW other \in OtherEdits,
               NEW now \in Recent, Edit(p, to, at, other, now)
        PROVE  Settles
    <3>1. /\ Exists(p) /\ status' = [status EXCEPT ![p] = to]
          /\ UNCHANGED <<payable, releasedAt>>
          /\ to # status[p] /\ to = "pending" => releasedAt[p] = Null
      BY <2>7 DEF Edit, Reopenable
    <3>2. to # "none"
      BY ConstantAssumption DEF ConstantAssumption
    <3>3. QED
      BY <2>1, <3>1, <3>2 DEF Exists, Typed, TypeOK
  <2>8. CASE UNCHANGED <<payable, releasedAt, status>>
    BY <2>2, <2>8 DEF Exists
  <2>9. QED
    BY <2>2, <2>3, <2>4, <2>5, <2>6, <2>7, <2>8
    DEF Next, Tick, Activate, Replay, Receive, Revoke, Ignore, vars, paymentRow
<1>4. QED
  BY <1>1, <1>2, <1>3, NextMapped, PTL DEF Spec, ImplementsRegister, Register!Spec

---------------------------------------------------------------------------
(* The ledger's half of the register of events.                            *)

\* A judgement settles a received event of an enrolled phone with the standing
\* that goes with its match result.
LEMMA ConcludeJudges ==
  ASSUME NEW e \in Events, NEW res \in MatchResults, NEW p,
         evStatus[e] = "received", e \in authorised, Conclude(e, res, p)
  PROVE  RelayRegister!Next
<1>1. RelayRegister!Judge(e, res)
  BY DEF RelayRegister!Judge, Conclude
<1>2. QED
  BY <1>1 DEF RelayRegister!Next

\* The ledger settles an event once, with one match result, and only while its
\* phone is enrolled: it implements the register of events, and tells nobody.
THEOREM LedgerImplementsEvents == Spec => ImplementsEvents
<1> DEFINE Told == [e \in Events |-> {}]
           Step == [RelayRegister!Next]_<<evStatus, result, authorised, Told>>
<1>1. Init => RelayRegister!Init
  BY DEF Init, RelayRegister!Init
<1>2. Typed /\ Typed' /\ [Next]_vars => Step
  <2> SUFFICES ASSUME Typed, Typed', [Next]_vars
               PROVE  Step
    OBVIOUS
  <2>1. ASSUME NEW e \in Events, NEW p \in Payments, NEW s \in EvidenceSources,
               NEW occ \in 0..clock, Receive(e, p, s, occ)
        PROVE  RelayRegister!Next
    <3>1. RelayRegister!Receive(e)
      BY <2>1 DEF Receive, RelayRegister!Receive
    <3>2. QED
      BY <3>1 DEF RelayRegister!Next
  <2>2. ASSUME NEW S \in SUBSET {e \in authorised : evStatus[e] = "received"}, Revoke(S)
        PROVE  RelayRegister!Next
    <3>1. authorised' \subseteq Events
      BY <2>2 DEF Revoke, Typed, TypeOK
    <3>2. RelayRegister!Entitle
      BY <2>2, <3>1 DEF Revoke, RelayRegister!Entitle
    <3>3. QED
      BY <3>2 DEF RelayRegister!Next
  <2>3. ASSUME NEW e \in Events, Ignore(e)
        PROVE  RelayRegister!Next
    <3>1. RelayRegister!Dismiss(e, "ignored")
      BY <2>3 DEF Ignore, RelayRegister!Dismiss, RelayRegister!Settled
    <3>2. QED
      BY <3>1 DEF RelayRegister!Next
  <2>4. ASSUME NEW e \in Events, NEW now \in Recent, ApplyObservation(e, now)
        PROVE  RelayRegister!Next
    <3>1. evStatus[e] = "received" /\ e \in authorised
      BY <2>4 DEF ApplyObservation
    <3>2. \E res \in MatchResults : \E p \in Payments \cup {Null} : Conclude(e, res, p)
      BY <2>4 DEF ApplyObservation, RecordUndecided, MarkPaid, Corroborate,
                  MatchingCandidates, MatchResults
    <3>3. QED
      BY <3>1, <3>2, ConcludeJudges
  <2>5. CASE UNCHANGED observationRow
    BY <2>5 DEF observationRow
  <2>6. QED
    BY <2>1, <2>2, <2>3, <2>4, <2>5
    DEF Next, vars, Tick, Activate, Create, Replay, Cancel, ExpireDue, Edit
<1>3. Spec => []Typed
  BY InitTyped, NextTyped, PTL DEF Spec
<1>4. QED
  BY <1>1, <1>2, <1>3, PTL DEF Spec, ImplementsEvents, RelayRegister!Spec
=============================================================================
