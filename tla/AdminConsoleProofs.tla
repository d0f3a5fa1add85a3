-------------------------- MODULE AdminConsoleProofs --------------------------
(***************************************************************************)
(* What holds of the collection profiles for every number of profiles,     *)
(* phones and concurrent requests, and of the console as a whole: its      *)
(* behaviours are behaviours of both halves, so whatever is proved of      *)
(* either (here and in AdminAccessProofs) holds of it.                     *)
(***************************************************************************)
EXTENDS AdminConsole, AdminAccessProofs

---------------------------------------------------------------------------
(* The collection profiles: what the transactions write.                   *)

\* The types, and that at most one profile, an enabled one, is active.
ProfilesInv == ProfilesTypeOK /\ OneProfileServes

\* A saved table that is well typed and has an active profile whenever the old
\* one had been used satisfies the invariant: the constraints do the rest.
LEMMA SavedServes ==
  ASSUME NEW r, ProfilesInv, Saved(r),
         DOMAIN r \subseteq Profiles, \A p \in DOMAIN r : r[p] \in Row,
         ActiveRows # {} => \E p \in DOMAIN r : r[p].active
  PROVE  /\ DOMAIN rows' \subseteq Profiles
         /\ \A p \in DOMAIN rows' : rows'[p] \in Row
         /\ served' \in BOOLEAN
         /\ OneProfileServes'
<1>1. /\ rows' = r /\ Constraints(r)
      /\ served' = (served \/ \E p \in DOMAIN r : r[p].active)
  BY DEF Saved
<1>2. served' \in BOOLEAN
  BY <1>1 DEF ProfilesInv, ProfilesTypeOK
<1>3. served' => \E p \in DOMAIN r : r[p].active
  BY <1>1 DEF ProfilesInv, OneProfileServes
<1>4. OneProfileServes'
  BY <1>1, <1>3 DEF OneProfileServes, ActiveRows, Constraints
<1>5. QED
  BY <1>1, <1>2, <1>4

\* Saving a profile keeps the active one active.
LEMMA UpsertServes ==
  ASSUME ProfilesInv, NEW p \in Profiles, NEW e \in BOOLEAN, NEW d \in Destinations,
         Upsert(p, e, d)
  PROVE  ProfilesInv'
<1> DEFINE r == [q \in DOMAIN rows \cup {p} |->
                   IF q # p THEN rows[q]
                   ELSE [enabled |-> e, destination |-> d, active |-> StaysActive(p)]]
<1>1. Saved(r) /\ UNCHANGED <<phone, call>>
  BY DEF Upsert
<1>2. DOMAIN r \subseteq Profiles
  BY DEF ProfilesInv, ProfilesTypeOK
<1>3. StaysActive(p) \in BOOLEAN
  BY DEF StaysActive
<1>4. \A q \in DOMAIN r : r[q] \in Row
  BY <1>3 DEF ProfilesInv, ProfilesTypeOK, Row
<1>5. ActiveRows # {} => \E q \in DOMAIN r : r[q].active
  BY DEF ActiveRows, StaysActive
<1> HIDE DEF r
<1>6. QED
  BY <1>1, <1>2, <1>4, <1>5, SavedServes DEF ProfilesInv, ProfilesTypeOK

\* Activation leaves the chosen profile active.
LEMMA ActivateServes ==
  ASSUME ProfilesInv, NEW p \in Profiles, ActivateProfile(p)
  PROVE  ProfilesInv'
<1>1. Saved(Switched(p)) /\ UNCHANGED <<phone, call>> /\ p \in DOMAIN rows
  BY DEF ActivateProfile
<1>2. DOMAIN Switched(p) = DOMAIN rows
  BY DEF Switched
<1>3. \A q \in DOMAIN rows : Switched(p)[q] = [rows[q] EXCEPT !.active = (q = p)]
  BY DEF Switched
<1>4. \A q \in DOMAIN rows : Switched(p)[q] \in Row
  <2>1. \A q \in DOMAIN rows : \A b \in BOOLEAN : [rows[q] EXCEPT !.active = b] \in Row
    BY DEF ProfilesInv, ProfilesTypeOK, Row
  <2>2. \A q \in DOMAIN rows : (q = p) \in BOOLEAN
    OBVIOUS
  <2>3. QED
    BY <2>1, <2>2, <1>3
<1>5. Switched(p)[p].active
  BY <1>1, <1>3 DEF ProfilesInv, ProfilesTypeOK, Row
<1>6. QED
  BY <1>1, <1>2, <1>4, <1>5, SavedServes DEF ProfilesInv, ProfilesTypeOK

\* Redirecting a profile leaves every profile as active as it was.
LEMMA RedirectServes ==
  ASSUME ProfilesInv, NEW id, NEW p \in Target(id), NEW d \in Destinations,
         Redirected(p, d), UNCHANGED phone,
         call' \in [Calls -> Call \cup {NoCall}]
  PROVE  ProfilesInv'
<1> DEFINE r == [rows EXCEPT ![p].destination = d]
<1>1. Saved(r)
  BY DEF Redirected
<1>2. p \in DOMAIN rows
  BY DEF Target, ActiveRows
<1>3. DOMAIN r = DOMAIN rows
  OBVIOUS
<1>4. \A q \in DOMAIN rows :
        r[q] \in Row /\ r[q].active = rows[q].active
  BY <1>2 DEF ProfilesInv, ProfilesTypeOK, Row
<1>5. DOMAIN r \subseteq Profiles
  BY <1>3 DEF ProfilesInv, ProfilesTypeOK
<1>6. ActiveRows # {} => \E q \in DOMAIN r : r[q].active
  BY <1>3, <1>4 DEF ActiveRows
<1> HIDE DEF r
<1>7. QED
  BY <1>1, <1>3, <1>4, <1>5, <1>6, SavedServes DEF ProfilesInv, ProfilesTypeOK

\* A request's record is well typed, and answering it leaves none.
LEMMA AuthenticateTyped ==
  ASSUME ProfilesInv, NEW c \in Calls, NEW d \in Phones, NEW dest \in Destinations,
         Authenticate(c, d, dest)
  PROVE  call' \in [Calls -> Call \cup {NoCall}]
<1>1. phone[d].epoch \in Nat
  BY DEF ProfilesInv, ProfilesTypeOK
<1>2. [stage |-> "authenticated", id |-> d, epoch |-> phone[d].epoch, destination |-> dest]
        \in Call
  BY <1>1 DEF Call
<1>3. QED
  BY <1>2 DEF Authenticate, ProfilesInv, ProfilesTypeOK

---------------------------------------------------------------------------
(* The invariant, and what it implies.                                     *)

\* The empty table serves nothing yet and is well typed.
LEMMA InitServes == ProfilesInit => ProfilesInv
<1> SUFFICES ASSUME ProfilesInit PROVE ProfilesInv
  OBVIOUS
<1>1. DOMAIN rows = {}
  BY DEF ProfilesInit
<1>2. phone \in [Phones -> [enabled : BOOLEAN, epoch : Nat]]
  BY DEF ProfilesInit
<1>3. call \in [Calls -> Call \cup {NoCall}]
  BY DEF ProfilesInit
<1>4. QED
  BY <1>1, <1>2, <1>3 DEF ProfilesInit, ProfilesInv, ProfilesTypeOK, OneProfileServes, ActiveRows

\* No transaction and no request breaks the invariant.
LEMMA StepServes == ProfilesInv /\ [ProfilesNext]_profileVars => ProfilesInv'
<1> SUFFICES ASSUME ProfilesInv, [ProfilesNext]_profileVars
             PROVE  ProfilesInv'
  OBVIOUS
<1>1. ASSUME NEW p \in Profiles, NEW e \in BOOLEAN, NEW d \in Destinations, Upsert(p, e, d)
      PROVE  ProfilesInv'
  BY <1>1, UpsertServes
<1>2. ASSUME NEW p \in Profiles, ActivateProfile(p)
      PROVE  ProfilesInv'
  BY <1>2, ActivateServes
<1>3. ASSUME NEW id \in Profiles \cup {Active}, NEW d \in Destinations,
             UpdateDestination(id, d)
      PROVE  ProfilesInv'
  BY <1>3, RedirectServes DEF UpdateDestination, ProfilesInv, ProfilesTypeOK
<1>4. ASSUME NEW c \in Calls, NEW d \in Phones, NEW dest \in Destinations,
             Authenticate(c, d, dest)
      PROVE  ProfilesInv'
  BY <1>4, AuthenticateTyped
  DEF Authenticate, ProfilesInv, ProfilesTypeOK, OneProfileServes, ActiveRows
<1>5. ASSUME NEW c \in Calls, UpdateForRelay(c)
      PROVE  ProfilesInv'
  <2>1. PICK p \in Target(Active) : Redirected(p, call[c].destination)
    BY <1>5 DEF UpdateForRelay
  <2>2. call[c].destination \in Destinations
    BY <1>5 DEF UpdateForRelay, ProfilesInv, ProfilesTypeOK, Call
  <2>3. call' \in [Calls -> Call \cup {NoCall}]
    BY <1>5 DEF UpdateForRelay, ProfilesInv, ProfilesTypeOK
  <2>4. QED
    BY <1>5, <2>1, <2>2, <2>3, RedirectServes DEF UpdateForRelay
<1>6. ASSUME NEW c \in Calls, RefuseRelay(c)
      PROVE  ProfilesInv'
  BY <1>6 DEF RefuseRelay, ProfilesInv, ProfilesTypeOK, OneProfileServes, ActiveRows
<1>7. ASSUME NEW d \in Phones, Enrol(d) \/ Unpair(d)
      PROVE  ProfilesInv'
  <2>1. phone[d] \in [enabled : BOOLEAN, epoch : Nat]
    BY DEF ProfilesInv, ProfilesTypeOK
  <2>2. \E new \in [enabled : BOOLEAN, epoch : Nat] : phone' = [phone EXCEPT ![d] = new]
    <3>1. CASE Enrol(d)
      <4>1. [enabled |-> TRUE, epoch |-> phone[d].epoch + 1] \in [enabled : BOOLEAN, epoch : Nat]
        BY <2>1
      <4>2. phone' = [phone EXCEPT ![d] = [enabled |-> TRUE, epoch |-> phone[d].epoch + 1]]
        BY <3>1 DEF Enrol
      <4>3. QED
        BY <4>1, <4>2
    <3>2. CASE Unpair(d)
      <4>1. [phone[d] EXCEPT !.enabled = FALSE] \in [enabled : BOOLEAN, epoch : Nat]
        BY <2>1
      <4>2. QED
        BY <4>1, <3>2 DEF Unpair
    <3>3. QED
      BY <1>7, <3>1, <3>2
  <2>3. UNCHANGED <<rows, call, served>>
    BY <1>7 DEF Enrol, Unpair
  <2>4. QED
    BY <2>2, <2>3 DEF ProfilesInv, ProfilesTypeOK, OneProfileServes, ActiveRows
<1>8. CASE UNCHANGED profileVars
  BY <1>8 DEF profileVars, ProfilesInv, ProfilesTypeOK, OneProfileServes, ActiveRows
<1>9. QED
  BY <1>1, <1>2, <1>3, <1>4, <1>5, <1>6, <1>7, <1>8 DEF ProfilesNext

\* The invariant holds in every reachable state.
LEMMA AlwaysServes == ProfilesSpec => []ProfilesInv
BY InitServes, StepServes, PTL DEF ProfilesSpec

\* Once a profile has been activated exactly one is active, and it is enabled:
\* Activate, Upsert and the destination updates of any number of operators and
\* phones leave payments.Create a profile to use.
THEOREM ServesOneProfile == ProfilesSpec => []OneProfileServes
<1>1. ProfilesInv => OneProfileServes
  BY DEF ProfilesInv
<1>2. QED
  BY <1>1, AlwaysServes, PTL

\* A destination is changed only under the enrolment the request was
\* authenticated with (UpdateActiveDestinationForRelay's re-read): of the steps
\* that answer a request, a refusal leaves the profiles as they are.
THEOREM PairingInvalidates == ProfilesSpec => RePairingInvalidates
<1> DEFINE Honoured ==
      \A c \in Calls :
        (call[c] # NoCall /\ call'[c] = NoCall /\ rows' # rows)
          => phone[call[c].id] = [enabled |-> TRUE, epoch |-> call[c].epoch]
<1>1. ASSUME ProfilesInv, [ProfilesNext]_profileVars
      PROVE  [Honoured]_profileVars
  <2> SUFFICES ASSUME ProfilesNext, NEW c \in Calls,
                      call[c] # NoCall, call'[c] = NoCall, rows' # rows
               PROVE  phone[call[c].id] = [enabled |-> TRUE, epoch |-> call[c].epoch]
    BY <1>1
  <2>1. call' # call
    OBVIOUS
  <2>2. PICK b \in Calls : UpdateForRelay(b)
    BY <2>1 DEF ProfilesNext, Upsert, ActivateProfile, UpdateDestination, Authenticate,
                RefuseRelay, Enrol, Unpair
  <2>3. b = c
    BY <2>2, <1>1 DEF UpdateForRelay, ProfilesInv, ProfilesTypeOK
  <2>4. QED
    BY <2>2, <2>3 DEF UpdateForRelay, StillEnrolled
<1>2. ProfilesSpec => [][Honoured]_profileVars
  BY <1>1, AlwaysServes, PTL DEF ProfilesSpec
<1>3. QED
  BY <1>2 DEF RePairingInvalidates

\* Saving a profile makes none active and none inactive.
LEMMA UpsertKeepsActive ==
  ASSUME ProfilesInv, NEW p \in Profiles, NEW e \in BOOLEAN, NEW d \in Destinations,
         Upsert(p, e, d)
  PROVE  ActiveRows' = ActiveRows
<1>1. rows' = [q \in DOMAIN rows \cup {p} |->
                 IF q # p THEN rows[q]
                 ELSE [enabled |-> e, destination |-> d, active |-> StaysActive(p)]]
  BY DEF Upsert, Saved
<1>2. \A q \in DOMAIN rows \cup {p} :
        rows'[q].active = (q \in DOMAIN rows /\ rows[q].active)
  BY <1>1 DEF StaysActive, ProfilesInv, ProfilesTypeOK, Row
<1>3. DOMAIN rows' = DOMAIN rows \cup {p}
  BY <1>1
<1>4. QED
  BY <1>2, <1>3 DEF ActiveRows

\* Neither does redirecting one.
LEMMA RedirectKeepsActive ==
  ASSUME ProfilesInv, NEW p \in DOMAIN rows, NEW d, Redirected(p, d)
  PROVE  ActiveRows' = ActiveRows
<1>1. rows' = [rows EXCEPT ![p].destination = d]
  BY DEF Redirected, Saved
<1>2. \A q \in DOMAIN rows : rows'[q].active = rows[q].active
  BY <1>1 DEF ProfilesInv, ProfilesTypeOK, Row
<1>3. QED
  BY <1>1, <1>2 DEF ActiveRows

\* Activation leaves the chosen profile, enabled, as the only active one.
LEMMA ActivateSwitches ==
  ASSUME ProfilesInv, NEW p \in Profiles, ActivateProfile(p)
  PROVE  /\ p \notin ActiveRows /\ ActiveRows' = {p} /\ rows'[p].enabled
<1>1. /\ p \in DOMAIN rows /\ rows[p].enabled /\ ~rows[p].active
      /\ rows' = Switched(p)
  BY DEF ActivateProfile, Saved
<1>2. DOMAIN rows' = DOMAIN rows
  BY <1>1 DEF Switched
<1>3. \A q \in DOMAIN rows : rows[q] \in Row
  BY DEF ProfilesInv, ProfilesTypeOK
<1>4. \A q \in DOMAIN rows : rows'[q] = [rows[q] EXCEPT !.active = (q = p)]
  BY <1>1 DEF Switched
<1>5. \A q \in DOMAIN rows : /\ rows'[q].active = (q = p)
                             /\ rows'[q].enabled = rows[q].enabled
  BY <1>3, <1>4 DEF Row
<1>6. QED
  BY <1>1, <1>2, <1>5 DEF ActiveRows

\* What the ledger takes for granted when payments.Create reads the active
\* profile: it changes only by a switch to another enabled one, never to none.
THEOREM ActivationSwitches == ProfilesSpec => SwitchesToAnother
<1> DEFINE Switches ==
      ActiveRows' # ActiveRows =>
        \E p \in Profiles \ ActiveRows : ActiveRows' = {p} /\ rows'[p].enabled
<1>1. ASSUME ProfilesInv, [ProfilesNext]_profileVars
      PROVE  [Switches]_profileVars
  <2>1. ASSUME NEW id, NEW d, \E p \in Target(id) : Redirected(p, d)
        PROVE  ActiveRows' = ActiveRows
    BY <1>1, <2>1, RedirectKeepsActive DEF Target, ActiveRows
  <2>2. CASE UNCHANGED rows
    BY <2>2 DEF ActiveRows
  <2>3. QED
    BY <1>1, <2>1, <2>2, UpsertKeepsActive, ActivateSwitches
    DEF ProfilesNext, profileVars, UpdateDestination, Authenticate, UpdateForRelay,
        RefuseRelay, Enrol, Unpair
<1>2. ProfilesSpec => [][Switches]_profileVars
  BY <1>1, AlwaysServes, PTL DEF ProfilesSpec
<1>3. QED
  BY <1>2 DEF SwitchesToAnother

\* Every variable of the profiles has its type.
THEOREM ProfilesTypes == ProfilesSpec => []ProfilesTypeOK
<1>1. ProfilesInv => ProfilesTypeOK
  BY DEF ProfilesInv
<1>2. QED
  BY <1>1, AlwaysServes, PTL

---------------------------------------------------------------------------
(* The console.                                                            *)

\* A step of the console is a step of one half at most, whatever the focus.
LEMMA ConsoleSteps ==
  [Next]_vars => [AccessNext]_accessVars /\ [ProfilesNext]_profileVars
<1> SUFFICES ASSUME [Next]_vars
             PROVE  [AccessNext]_accessVars /\ [ProfilesNext]_profileVars
  OBVIOUS
<1>1. ASSUME NEW S, S \subseteq Remotes, Logins(S)
      PROVE  AccessNext
  <2>1. \E c \in Requests : LoginStep(c)
    BY <1>1 DEF Logins, LoginStep
  <2>2. QED
    BY <2>1 DEF AccessNext
<1>2. {OneRemote} \subseteq Remotes
  BY ConsoleAssumption DEF ConsoleAssumption
<1>3. AccessMoves => AccessNext
  BY <1>1, <1>2 DEF AccessMoves, AccessNext
<1>4. CASE Next
  BY <1>3, <1>4 DEF Next
<1>5. CASE UNCHANGED vars
  BY <1>5 DEF vars
<1>6. QED
  BY <1>4, <1>5

\* Seen from either half, the console is that half: the requests of the other are
\* steps in which nothing of it changes.  So every theorem about AccessSpec or
\* ProfilesSpec is one about the console that the runs check.
THEOREM ConsoleImplements == Spec => AccessSpec /\ ProfilesSpec
<1>1. Init => AccessInit /\ ProfilesInit
  BY DEF Init
<1>2. QED
  BY <1>1, ConsoleSteps, PTL DEF Spec, AccessSpec, ProfilesSpec

\* Every variable of the console has its type (see AccessTypes, ProfilesTypes).
THEOREM ConsoleTypes == Spec => []TypeOK
<1>1. AccessTypeOK /\ ProfilesTypeOK => TypeOK
  BY DEF TypeOK
<1>2. QED
  BY <1>1, ConsoleImplements, AccessTypes, ProfilesTypes, PTL
=============================================================================
