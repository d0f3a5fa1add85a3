------------------------- MODULE CollectionProfiles -------------------------
(***************************************************************************)
(* The collection profiles (internal/v4/profiles/service.go) and the       *)
(* requests that reach them (internal/v4/httpapi/admin_settings.go): the   *)
(* operator's web console, and a paired phone, which may only change the   *)
(* destination of the active profile.                                      *)
(*                                                                         *)
(* A service call is one immediate transaction.  A phone's request is      *)
(* authenticated before its transaction begins, and anything may happen    *)
(* between the two.  Labels and parsers tell no property apart; a          *)
(* destination stands for the UPI id with the payee's name.                *)
(***************************************************************************)
EXTENDS Integers

CONSTANTS
  Profiles,      \* collection_profiles ids
  Active,        \* the id "active", which stands for the active profile
  Destinations,
  Phones,        \* relay_devices ids
  Calls,         \* phone requests being handled at once
  MaxEpochs      \* bound on enrolments of one phone

ASSUME ProfilesAssumption ==
  /\ MaxEpochs \in Nat
  /\ Active \notin Profiles  \* Upsert accepts "active"; updates cannot name it

VARIABLES
  rows,      \* profile id -> enabled, active, destination
  phone,     \* phone -> enabled, enrolled_at
  call,      \* phone requests between authentication and transaction
  served     \* some profile has been active

profileVars == <<rows, phone, call, served>>

Row == [enabled : BOOLEAN, active : BOOLEAN, destination : Destinations]
NoCall == [stage |-> "none"]
Call == [stage : {"authenticated"}, id : Phones, epoch : Nat, destination : Destinations]

ActiveRows == {p \in DOMAIN rows : rows[p].active}

ProfilesInit ==
  /\ rows = <<>>
  /\ phone = [d \in Phones |-> [enabled |-> FALSE, epoch |-> 0]]
  /\ call = [c \in Calls |-> NoCall]
  /\ served = FALSE

\* The table's CHECK(active = 0 OR enabled = 1) and its unique index on
\* active = 1, which a transaction must leave true.
Constraints(r) ==
  /\ \A p \in DOMAIN r : r[p].active => r[p].enabled
  /\ \A p, q \in DOMAIN r : r[p].active /\ r[q].active => p = q

Saved(r) ==
  /\ Constraints(r)
  /\ rows' = r
  /\ served' = (served \/ \E p \in DOMAIN r : r[p].active)

\* ErrCannotDisableActiveProfile
MaySave(p, enabled) == p \in DOMAIN rows /\ rows[p].active => enabled

\* Mutant: an old row is replaced by a new one.
NeverActive(p) == FALSE

\* A new profile is not active; an old one keeps whether it is.
StaysActive(p) == p \in DOMAIN rows /\ rows[p].active

Upsert(p, enabled, d) ==
  /\ MaySave(p, enabled)
  /\ Saved([q \in DOMAIN rows \cup {p} |->
       IF q # p THEN rows[q]
       ELSE [enabled |-> enabled, destination |-> d, active |-> StaysActive(p)]])
  /\ UNCHANGED <<phone, call>>

\* Activate's two updates, the second of which meets the unique index.
Switched(p) == [q \in DOMAIN rows |-> [rows[q] EXCEPT !.active = (q = p)]]

\* Activate; on the active profile it changes nothing.
ActivateProfile(p) ==
  /\ p \in DOMAIN rows /\ rows[p].enabled /\ ~rows[p].active
  /\ Saved(Switched(p))
  /\ UNCHANGED <<phone, call>>

\* updateDestination's resolution of the id inside the transaction.
Target(id) == IF id = Active THEN ActiveRows ELSE {id} \cap DOMAIN rows

Redirected(p, d) == Saved([rows EXCEPT ![p].destination = d])

\* UpdateDestination, UpdateActiveDestination: the web console.
UpdateDestination(id, d) ==
  /\ \E p \in Target(id) : Redirected(p, d)
  /\ UNCHANGED <<phone, call>>

\* ServeHTTP authenticates the phone's request with its enrolment epoch, and
\* deviceOperationalRoute lets through the one change a phone may make.
Authenticate(c, d, dest) ==
  /\ call[c] = NoCall /\ phone[d].enabled
  /\ call' = [call EXCEPT ![c] =
       [stage |-> "authenticated", id |-> d, epoch |-> phone[d].epoch, destination |-> dest]]
  /\ UNCHANGED <<rows, phone, served>>

\* Mutant: the transaction asks only whether the phone is paired now.
EnrolledNow(c) == phone[call[c].id].enabled

\* WHERE id=? AND enabled=1 AND enrolled_at=?
StillEnrolled(c) == phone[call[c].id] = [enabled |-> TRUE, epoch |-> call[c].epoch]

\* UpdateActiveDestinationForRelay
UpdateForRelay(c) ==
  /\ call[c] # NoCall /\ StillEnrolled(c)
  /\ \E p \in Target(Active) : Redirected(p, call[c].destination)
  /\ call' = [call EXCEPT ![c] = NoCall]
  /\ UNCHANGED phone

\* No longer enrolled, no active profile, or the database is busy.
RefuseRelay(c) ==
  /\ call[c] # NoCall
  /\ call' = [call EXCEPT ![c] = NoCall]
  /\ UNCHANGED <<rows, phone, served>>

\* relay.Service.Pair: every pairing enrols at a later time (RelayIngest!EpochsGrow).
Enrol(d) ==
  /\ phone[d].epoch < MaxEpochs
  /\ phone' = [phone EXCEPT ![d] = [enabled |-> TRUE, epoch |-> @.epoch + 1]]
  /\ UNCHANGED <<rows, call, served>>

\* relay.Service.RevokeDevice
Unpair(d) ==
  /\ phone[d].enabled
  /\ phone' = [phone EXCEPT ![d].enabled = FALSE]
  /\ UNCHANGED <<rows, call, served>>

ProfilesNext ==
  \/ \E p \in Profiles, e \in BOOLEAN, d \in Destinations : Upsert(p, e, d)
  \/ \E p \in Profiles : ActivateProfile(p)
  \/ \E id \in Profiles \cup {Active}, d \in Destinations : UpdateDestination(id, d)
  \/ \E c \in Calls, d \in Phones, dest \in Destinations : Authenticate(c, d, dest)
  \/ \E c \in Calls : UpdateForRelay(c) \/ RefuseRelay(c)
  \/ \E d \in Phones : Enrol(d) \/ Unpair(d)

ProfilesSpec == ProfilesInit /\ [][ProfilesNext]_profileVars
---------------------------------------------------------------------------
(* Properties.                                                             *)

\* Every variable has its type.
ProfilesTypeOK ==
  /\ DOMAIN rows \subseteq Profiles
  /\ \A p \in DOMAIN rows : rows[p] \in Row
  /\ phone \in [Phones -> [enabled : BOOLEAN, epoch : Nat]]
  /\ call \in [Calls -> Call \cup {NoCall}]
  /\ served \in BOOLEAN

\* Once a profile has been activated a payment can always be created: exactly
\* one profile is active, and it is enabled, whatever is saved, activated,
\* disabled or redirected after it (activeProfile asks for active AND enabled).
OneProfileServes ==
  /\ \A p, q \in ActiveRows : p = q
  /\ \A p \in ActiveRows : rows[p].enabled
  /\ served => ActiveRows # {}

\* What PaymentLedger!Activate assumes of the profiles: the active one changes
\* only by a switch to another, enabled one, never to none, however saving,
\* redirecting and phones interleave with activation.
SwitchesToAnother ==
  [][ ActiveRows' # ActiveRows =>
        \E p \in Profiles \ ActiveRows : ActiveRows' = {p} /\ rows'[p].enabled ]_profileVars

\* A phone's request changes a destination only while the enrolment it was
\* authenticated under lasts: revoking or re-pairing the phone in between
\* invalidates it (relay/security.go: "Mutation handlers bind their write
\* transaction to this epoch so re-pairing invalidates" it).
RePairingInvalidates ==
  [][ \A c \in Calls :
        (call[c] # NoCall /\ call'[c] = NoCall /\ rows' # rows)
          => phone[call[c].id] = [enabled |-> TRUE, epoch |-> call[c].epoch] ]_profileVars
=============================================================================
