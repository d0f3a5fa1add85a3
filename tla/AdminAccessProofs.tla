--------------------------- MODULE AdminAccessProofs ---------------------------
(***************************************************************************)
(* What holds of the console's access for every number of requests,        *)
(* addresses, passwords, sessions and keys, and every limit.               *)
(***************************************************************************)
EXTENDS AdminAccess, FiniteSetTheorems, TLAPS

---------------------------------------------------------------------------
(* Sessions and the password.                                              *)

\* Four steps write the password or its sessions: a start, a login that opens a
\* session, a change that commits, and a logout.
LEMMA PasswordWriters ==
  ASSUME [AccessNext]_accessVars
  PROVE  \/ UNCHANGED passwords
         \/ Start
         \/ \E c \in Requests : OpenSession(c) \/ CommitChange(c)
         \/ \E t \in Tokens : Logout(t)
<1>1. CASE UNCHANGED accessVars
  BY <1>1 DEF accessVars
<1>2. CASE AccessTick \/ Start \/ Stop \/ KeyStep
  BY <1>2 DEF AccessTick, Stop, KeyStep, CreateAPIKey, RevokeAPIKey
<1>3. ASSUME NEW c \in Requests, LoginStep(c)
      PROVE  UNCHANGED passwords \/ OpenSession(c)
  BY <1>3 DEF LoginStep, Arrive, TurnAway, ReadHash, RefuseLogin, LoginBusy,
              RecordFailure, AnswerLogin
<1>4. ASSUME NEW c \in Requests, ChangeStep(c)
      PROVE  UNCHANGED passwords \/ CommitChange(c)
  BY <1>4 DEF ChangeStep, AskChange, VerifyChange, FailChange
<1>5. QED
  BY <1>1, <1>2, <1>3, <1>4 DEF AccessNext

\* A session is opened only under the stored hash, a change leaves no session,
\* and a first password finds none.
LEMMA StepKeepsSessions ==
  SessionsUnderCurrent /\ [AccessNext]_accessVars => SessionsUnderCurrent'
<1> SUFFICES ASSUME SessionsUnderCurrent, [AccessNext]_accessVars
             PROVE  SessionsUnderCurrent'
  OBVIOUS
<1>1. CASE UNCHANGED passwords
  BY <1>1 DEF passwords, SessionsUnderCurrent
<1>2. CASE Start
  BY <1>2 DEF Start, SessionsUnderCurrent
<1>3. ASSUME NEW c \in Requests, OpenSession(c)
      PROVE  SessionsUnderCurrent'
  <2>1. /\ admin_credentials # NoHash
        /\ admin_credentials = req[c].encoded
        /\ admin_credentials' = admin_credentials
    BY <1>3 DEF OpenSession, Opens, Verifies
  <2>2. PICK t \in Tokens \ DOMAIN admin_sessions :
          admin_sessions' = With(admin_sessions, t,
            [expires_at |-> now + SessionTTL, revoked |-> FALSE, under |-> req[c].encoded.salt])
    BY <1>3 DEF OpenSession
  <2>3. \A u \in DOMAIN admin_sessions' :
          \/ u = t /\ admin_sessions'[u].under = req[c].encoded.salt
          \/ u \in DOMAIN admin_sessions /\ admin_sessions'[u] = admin_sessions[u]
    BY <2>2 DEF With
  <2>4. QED
    BY <2>1, <2>3 DEF SessionsUnderCurrent
<1>4. ASSUME NEW c \in Requests, CommitChange(c)
      PROVE  SessionsUnderCurrent'
  BY <1>4 DEF CommitChange, SessionsUnderCurrent
<1>5. ASSUME NEW t \in Tokens, Logout(t)
      PROVE  SessionsUnderCurrent'
  <2>1. \A u \in DOMAIN admin_sessions' :
          u \in DOMAIN admin_sessions /\ admin_sessions'[u].under = admin_sessions[u].under
    BY <1>5 DEF Logout
  <2>2. QED
    BY <1>5, <2>1 DEF Logout, SessionsUnderCurrent
<1>6. QED
  BY <1>1, <1>2, <1>3, <1>4, <1>5, PasswordWriters

\* Every session was opened with the password in force, however CreateAdminSession
\* and ChangePassword interleave.
THEOREM SessionsFollowPassword == AccessSpec => []SessionsUnderCurrent
<1>1. AccessInit => SessionsUnderCurrent
  BY DEF AccessInit, SessionsUnderCurrent
<1>2. QED
  BY <1>1, StepKeepsSessions, PTL DEF AccessSpec

\* A stored password is replaced only by the request that verified it.
THEOREM ChangesAreSeen == AccessSpec => NoLostChange
<1> DEFINE Seen ==
      admin_credentials' # admin_credentials /\ admin_credentials # NoHash
        => \E c \in Requests : /\ req[c].stage = "changing"
                               /\ req[c].encoded = admin_credentials
<1>1. ASSUME [AccessNext]_accessVars
      PROVE  [Seen]_accessVars
  <2>1. CASE UNCHANGED passwords
    BY <2>1 DEF passwords
  <2>2. CASE Start
    BY <2>2 DEF Start
  <2>3. ASSUME NEW c \in Requests, OpenSession(c) \/ CommitChange(c)
        PROVE  Seen
    BY <2>3 DEF OpenSession, CommitChange, Replaces
  <2>4. ASSUME NEW t \in Tokens, Logout(t)
        PROVE  Seen
    BY <2>4 DEF Logout
  <2>5. QED
    BY <1>1, <2>1, <2>2, <2>3, <2>4, PasswordWriters
<1>2. AccessSpec => [][Seen]_accessVars
  BY <1>1, PTL DEF AccessSpec
<1>3. QED
  BY <1>2 DEF NoLostChange

---------------------------------------------------------------------------
(* Merchant API keys.                                                      *)

\* A revoked key keeps its row, disabled; so its id is never free again and the
\* table is never empty for the bootstrap key to enter.
RevokedInv == \A k \in revoked : k \in DOMAIN api_keys /\ ~api_keys[k]

\* No step frees or enables a revoked key's row.
LEMMA StepKeepsRevoked ==
  RevokedInv /\ [AccessNext]_accessVars => RevokedInv'
<1> SUFFICES ASSUME RevokedInv, [AccessNext]_accessVars
             PROVE  RevokedInv'
  OBVIOUS
<1>1. CASE UNCHANGED keys
  BY <1>1 DEF keys, RevokedInv
<1>2. CASE Start
  <2>1. revoked' = revoked /\ api_keys' \in {api_keys, BootstrapAPIKey}
    BY <1>2 DEF Start
  <2>2. revoked # {} => BootstrapAPIKey = api_keys
    BY DEF RevokedInv, BootstrapAPIKey
  <2>3. QED
    BY <2>1, <2>2 DEF RevokedInv
<1>3. ASSUME NEW k \in Keys, CreateAPIKey(k)
      PROVE  RevokedInv'
  BY <1>3 DEF CreateAPIKey, With, RevokedInv
<1>4. ASSUME NEW k \in Keys, RevokeAPIKey(k)
      PROVE  RevokedInv'
  BY <1>4 DEF RevokeAPIKey, KeyDisabled, RevokedInv
<1>5. CASE AccessTick \/ Stop
  BY <1>5, <1>1 DEF AccessTick, Stop
<1>6. ASSUME NEW c \in Requests, LoginStep(c) \/ ChangeStep(c)
      PROVE  UNCHANGED keys
  BY <1>6 DEF LoginStep, Arrive, TurnAway, ReadHash, OpenSession, RefuseLogin, LoginBusy,
              RecordFailure, AnswerLogin, ChangeStep, AskChange, VerifyChange, CommitChange,
              FailChange
<1>7. ASSUME NEW t \in Tokens, Logout(t)
      PROVE  UNCHANGED keys
  BY <1>7 DEF Logout
<1>8. CASE UNCHANGED accessVars
  BY <1>1, <1>8 DEF accessVars
<1>9. QED
  BY <1>1, <1>2, <1>3, <1>4, <1>5, <1>6, <1>7, <1>8 DEF AccessNext, KeyStep

\* A revoked merchant key never authenticates again, through any number of
\* creations, revocations and starts with a bootstrap key.
THEOREM RevocationIsFinal == AccessSpec => []RevokedStaysRevoked
<1>1. AccessInit => RevokedInv
  BY DEF AccessInit, RevokedInv
<1>2. RevokedInv => RevokedStaysRevoked
  BY DEF RevokedInv, RevokedStaysRevoked, Authenticates
<1>3. QED
  BY <1>1, <1>2, StepKeepsRevoked, PTL DEF AccessSpec
---------------------------------------------------------------------------
(* The types, and the slots of the logins.                                 *)

Sessions == [expires_at : Nat, revoked : BOOLEAN, under : Nat]

PasswordTypes ==
  /\ admin_credentials \in Hashes \cup {NoHash}
  /\ DOMAIN admin_sessions \subseteq Tokens
  /\ \A t \in DOMAIN admin_sessions : admin_sessions[t] \in Sessions

\* No request is being handled while the process is down.
RequestTypes ==
  /\ now \in Nat /\ serving \in BOOLEAN /\ restarts \in Nat
  /\ req \in [Requests -> RequestStates]
  /\ ~serving => \A c \in Requests : req[c] = Idle

Holders == {c \in Requests : Holding(c)}
SlotTypes == loginSlots \in 0 .. Concurrency /\ loginSlots = Cardinality(Holders)

ThrottleTypes ==
  /\ DOMAIN loginFailures \subseteq Remotes
  /\ IsFiniteSet(DOMAIN loginFailures)
  /\ Cardinality(DOMAIN loginFailures) <= Entries
  /\ \A r \in DOMAIN loginFailures : loginFailures[r] \in Entry
  /\ guesses \in [Remotes -> SUBSET Guesses]

KeyTypes ==
  /\ DOMAIN api_keys \subseteq Keys /\ revoked \subseteq Keys
  /\ \A k \in DOMAIN api_keys : api_keys[k] \in BOOLEAN

\* The limits are numbers.
LEMMA Limits ==
  /\ Limit \in Nat /\ Limit >= 2 /\ Window \in Nat /\ Block \in Nat /\ MaxLogin \in Nat
  /\ Entries \in Nat /\ Entries >= 1 /\ Concurrency \in Nat /\ SessionTTL \in Nat
  /\ Window >= 1 /\ Block >= 1
  /\ 2 * MaxLogin <= Block /\ Block + 3 * MaxLogin <= Window
  /\ IsFiniteSet(Requests) /\ Requests # {}
BY AccessAssumption, ThrottleAssumption DEF AccessAssumption, ThrottleAssumption

\* What a request carries at each stage.
LEMMA StageFields ==
  ASSUME NEW s \in RequestStates
  PROVE  /\ s.stage = "idle" => s = Idle
         /\ s.stage = "arrived" =>
              s.key \in Remotes /\ s.at \in Nat /\ s.password \in Passwords
         /\ s.stage = "verifying" =>
              /\ s.key \in Remotes /\ s.at \in Nat /\ s.password \in Passwords
              /\ s.encoded \in Hashes \cup {NoHash}
         /\ s.stage = "accepted" => s.key \in Remotes
         /\ s.stage = "refused" => s.key \in Remotes /\ s.at \in Nat
         /\ s.stage = "authorised" => s.current \in Passwords /\ s.new \in Passwords
         /\ s.stage = "changing" => s.encoded \in Hashes /\ s.new \in Passwords
BY DEF RequestStates, Idle

\* A request of each stage is one.
LEMMA StageStates ==
  /\ Idle \in RequestStates /\ Idle.stage = "idle"
  /\ \A k \in Remotes : [stage |-> "accepted", key |-> k] \in RequestStates
  /\ \A k \in Remotes, at \in Nat :
       [stage |-> "refused", key |-> k, at |-> at] \in RequestStates
  /\ \A k \in Remotes, at \in Nat, p \in Passwords :
       /\ [stage |-> "arrived", key |-> k, at |-> at, password |-> p] \in RequestStates
       /\ \A e \in Hashes \cup {NoHash} :
            [stage |-> "verifying", key |-> k, at |-> at, password |-> p, encoded |-> e]
              \in RequestStates
  /\ \A p, q \in Passwords :
       /\ [stage |-> "authorised", current |-> p, new |-> q] \in RequestStates
       /\ \A e \in Hashes :
            [stage |-> "changing", encoded |-> e, new |-> q] \in RequestStates
BY DEF RequestStates, Idle

\* The entry of a failure: one more in a run that goes on, or a new run.
LEMMA RecordedEntry ==
  ASSUME NEW f, NEW r, NEW t \in Nat, r \in DOMAIN f => f[r] \in Entry
  PROVE  /\ Recorded(f, r, t) \in Entry
         /\ \/ /\ r \in DOMAIN f /\ t - f[r].firstFailure < Window
               /\ Recorded(f, r, t) =
                    [failures |-> f[r].failures + 1, firstFailure |-> f[r].firstFailure,
                     blockedUntil |-> IF f[r].failures + 1 >= Limit THEN t + Block
                                      ELSE f[r].blockedUntil,
                     lastSeen |-> t]
            \/ /\ r \in DOMAIN f => t - f[r].firstFailure >= Window
               /\ Recorded(f, r, t) =
                    [failures |-> 1, firstFailure |-> t, blockedUntil |-> 0, lastSeen |-> t]
<1>1. CASE r \in DOMAIN f /\ t - f[r].firstFailure < Window
  <2>1. PICK n \in Nat, first \in Nat, until \in Nat, old \in Entry :
          /\ old = f[r] /\ old.failures = n /\ old.firstFailure = first
          /\ old.blockedUntil = until
    BY <1>1 DEF Entry
  <2>2. PICK block \in Nat : block = IF n + 1 >= Limit THEN t + Block ELSE until
    BY Limits
  <2>3. Recorded(f, r, t) =
          [failures |-> n + 1, firstFailure |-> first, blockedUntil |-> block, lastSeen |-> t]
    BY <1>1, <2>1, <2>2 DEF Recorded
  <2>4. Recorded(f, r, t) \in Entry
    BY <2>3 DEF Entry
  <2>5. QED
    BY <1>1, <2>1, <2>2, <2>3, <2>4
<1>2. CASE ~ (r \in DOMAIN f /\ t - f[r].firstFailure < Window)
  <2>1. PICK state : state = [NoFailures EXCEPT !.firstFailure = t]
    OBVIOUS
  <2>2. state.failures = 0 /\ state.firstFailure = t /\ state.blockedUntil = 0
    BY <2>1 DEF NoFailures
  <2>3. Recorded(f, r, t) =
          [failures |-> state.failures + 1, firstFailure |-> state.firstFailure,
           blockedUntil |-> IF state.failures + 1 >= Limit THEN t + Block
                            ELSE state.blockedUntil,
           lastSeen |-> t]
    BY <1>2, <2>1 DEF Recorded
  <2>4. Recorded(f, r, t) =
          [failures |-> 1, firstFailure |-> t, blockedUntil |-> 0, lastSeen |-> t]
    BY <2>2, <2>3, Limits
  <2>5. Recorded(f, r, t) \in Entry
    BY <2>4 DEF Entry
  <2>6. r \in DOMAIN f => t - f[r].firstFailure >= Window
    BY <1>2, Limits DEF Entry
  <2>7. QED
    BY <2>4, <2>5, <2>6
<1>3. QED
  BY <1>1, <1>2

\* Pruning keeps some entries as they are and leaves room for one more; one that
\* goes is evicted for room, or neither blocked nor seen for a window.
LEMMA PrunedEntries ==
  ASSUME NEW f, NEW t \in Nat, IsFiniteSet(DOMAIN f),
         \A r \in DOMAIN f : f[r] \in Entry, NEW g \in Pruned(f, t)
  PROVE  /\ DOMAIN g \subseteq DOMAIN f
         /\ \A r \in DOMAIN g : g[r] = f[r]
         /\ IsFiniteSet(DOMAIN g) /\ Cardinality(DOMAIN g) + 1 <= Entries
         /\ Cardinality(DOMAIN g) \in Nat
         /\ \A r \in DOMAIN f \ DOMAIN g :
              \/ r \in Evicted(f, g, t)
              \/ t > f[r].blockedUntil /\ t - f[r].lastSeen >= Window
<1>1. PICK kept :
        kept = {r \in DOMAIN f : t <= f[r].blockedUntil \/ t - f[r].lastSeen < Window}
  OBVIOUS
<1>2. IsFiniteSet(kept) /\ kept \subseteq DOMAIN f
  BY <1>1, FS_Subset
<1>3. PICK n \in Nat : n = Cardinality(kept)
  BY <1>2, FS_CardinalityType
<1>4. PICK excess \in Nat : excess = IF n < Entries THEN 0 ELSE n - Entries + 1
  BY <1>3, Limits
<1>5. PICK S \in kSubset(excess, kept) : g = Restrict(f, kept \ S)
  BY <1>1, <1>3, <1>4 DEF Pruned
<1>6. S \subseteq kept /\ Cardinality(S) = excess
  BY <1>5 DEF kSubset
<1>7. DOMAIN g = kept \ S /\ \A r \in DOMAIN g : g[r] = f[r]
  BY <1>5 DEF Restrict
<1>8. IsFiniteSet(kept \ S) /\ Cardinality(kept \ S) = n - excess
  <2>1. kept \cap S = S
    BY <1>6
  <2>2. /\ IsFiniteSet(kept \ S)
        /\ Cardinality(kept \ S) = Cardinality(kept) - Cardinality(kept \cap S)
    BY <1>2, FS_Difference
  <2>3. QED
    BY <1>3, <1>6, <2>1, <2>2
<1>9. Cardinality(DOMAIN g) \in Nat /\ Cardinality(DOMAIN g) + 1 <= Entries
  BY <1>3, <1>4, <1>7, <1>8, Limits, FS_CardinalityType
<1>10. ASSUME NEW r \in DOMAIN f \ DOMAIN g
       PROVE  \/ r \in Evicted(f, g, t)
              \/ t > f[r].blockedUntil /\ t - f[r].lastSeen >= Window
  <2>1. f[r].blockedUntil \in Nat /\ f[r].lastSeen \in Nat
    BY <1>10 DEF Entry
  <2>2. QED
    BY <1>10, <2>1, Limits DEF Evicted
<1>11. QED
  BY <1>2, <1>7, <1>8, <1>9, <1>10

\* The parts of the invariant of the types.
AccessInv ==
  RequestTypes /\ PasswordTypes /\ SlotTypes /\ ThrottleTypes /\ KeyTypes

\* A function with one more value.
LEMMA WithValues ==
  ASSUME NEW f, NEW k, NEW v
  PROVE  /\ DOMAIN With(f, k, v) = DOMAIN f \cup {k}
         /\ With(f, k, v)[k] = v
         /\ \A x \in DOMAIN f \ {k} : With(f, k, v)[x] = f[x]
BY DEF With

\* The password and the sessions keep their types.
LEMMA StepPasswordTypes ==
  ASSUME RequestTypes, PasswordTypes, [AccessNext]_accessVars
  PROVE  PasswordTypes'
<1>1. CASE UNCHANGED passwords
  BY <1>1 DEF passwords, PasswordTypes
<1>2. CASE Start
  <2>1. UNCHANGED admin_sessions
    BY <1>2 DEF Start
  <2>2. admin_credentials' \in Hashes \cup {NoHash}
    <3>1. \A p \in BootstrapPasswords : [salt |-> 1, password |-> p] \in Hashes
      BY AccessAssumption DEF AccessAssumption, Hashes
    <3>2. QED
      BY <1>2, <3>1 DEF Start, PasswordTypes
  <2>3. QED
    BY <2>1, <2>2 DEF PasswordTypes
<1>3. ASSUME NEW c \in Requests, OpenSession(c)
      PROVE  PasswordTypes'
  <2>1. PICK salt \in Nat : salt = req[c].encoded.salt
    <3>1. req[c].encoded \in Hashes \cup {NoHash}
      BY <1>3, StageFields DEF OpenSession, RequestTypes
    <3>2. req[c].encoded # NoHash
      BY <1>3 DEF OpenSession, Opens, Verifies
    <3>3. QED
      BY <3>1, <3>2 DEF Hashes
  <2>2. PICK row : row = [expires_at |-> now + SessionTTL, revoked |-> FALSE, under |-> salt]
    OBVIOUS
  <2>3. row \in Sessions
    BY <2>1, <2>2, Limits DEF Sessions, RequestTypes
  <2>4. PICK t \in Tokens \ DOMAIN admin_sessions :
          admin_sessions' = With(admin_sessions, t, row)
    BY <1>3, <2>1, <2>2 DEF OpenSession
  <2>5. /\ DOMAIN admin_sessions' \subseteq Tokens
        /\ \A u \in DOMAIN admin_sessions' : admin_sessions'[u] \in Sessions
    BY <2>3, <2>4 DEF With, PasswordTypes
  <2>6. QED
    BY <1>3, <2>5 DEF OpenSession, PasswordTypes
<1>4. ASSUME NEW c \in Requests, CommitChange(c)
      PROVE  PasswordTypes'
  <2>1. /\ admin_credentials = req[c].encoded /\ req[c].stage = "changing"
        /\ admin_credentials' = [salt |-> admin_credentials.salt + 1, password |-> req[c].new]
        /\ admin_sessions' = << >>
    BY <1>4 DEF CommitChange, Replaces
  <2>2. admin_credentials \in Hashes /\ req[c].new \in Passwords
    BY <2>1, StageFields DEF RequestTypes
  <2>3. admin_credentials' \in Hashes
    BY <2>1, <2>2 DEF Hashes
  <2>4. QED
    BY <2>1, <2>3 DEF PasswordTypes
<1>5. ASSUME NEW t \in Tokens, Logout(t)
      PROVE  PasswordTypes'
  <2>1. /\ admin_credentials' = admin_credentials /\ t \in DOMAIN admin_sessions
        /\ admin_sessions' = [admin_sessions EXCEPT ![t].revoked = TRUE]
    BY <1>5 DEF Logout
  <2>2. PICK old \in Sessions : old = admin_sessions[t]
    BY <2>1 DEF PasswordTypes
  <2>3. [old EXCEPT !.revoked = TRUE] \in Sessions
    BY DEF Sessions
  <2>4. \A u \in DOMAIN admin_sessions' :
          u \in DOMAIN admin_sessions /\ admin_sessions'[u] \in Sessions
    BY <2>1, <2>2, <2>3 DEF PasswordTypes
  <2>5. QED
    BY <2>1, <2>4 DEF PasswordTypes
<1>6. QED
  BY <1>1, <1>2, <1>3, <1>4, <1>5, PasswordWriters

\* What one step does to the requests: all of them end with the process, or one
\* of them moves to another state while the process is up.
LEMMA RequestMoves ==
  ASSUME RequestTypes, PasswordTypes, [AccessNext]_accessVars
  PROVE  /\ now' \in Nat /\ serving' \in BOOLEAN /\ restarts' \in Nat
         /\ \/ UNCHANGED <<req, serving>>
            \/ Start /\ UNCHANGED req
            \/ Stop
            \/ /\ serving /\ UNCHANGED serving
               /\ \E c \in Requests : \E s \in RequestStates :
                    /\ LoginStep(c) \/ ChangeStep(c)
                    /\ req' = [req EXCEPT ![c] = s]
<1>1. CASE AccessTick
  BY <1>1 DEF AccessTick, RequestTypes
<1>2. CASE Start
  BY <1>2 DEF Start, RequestTypes
<1>3. CASE Stop
  <2>1. now' = now /\ restarts' = restarts + 1 /\ serving' = FALSE
    BY <1>3 DEF Stop
  <2>2. now' \in Nat /\ restarts' \in Nat
    BY <2>1 DEF RequestTypes
  <2>3. serving' \in BOOLEAN
    BY <2>1
  <2>4. QED
    BY <1>3, <2>2, <2>3
<1>4. CASE KeyStep \/ (\E t \in Tokens : Logout(t)) \/ UNCHANGED accessVars
  BY <1>4
  DEF KeyStep, CreateAPIKey, RevokeAPIKey, Logout, accessVars, clock, RequestTypes
<1>5. ASSUME NEW c \in Requests, LoginStep(c) \/ ChangeStep(c)
      PROVE  /\ UNCHANGED clock
             /\ \/ UNCHANGED req
                \/ /\ serving
                   /\ \E s \in RequestStates : req' = [req EXCEPT ![c] = s]
  <2>0. /\ req[c] \in RequestStates
        /\ req[c].stage # "idle" => serving
    BY StageStates DEF RequestTypes
  <2>1. UNCHANGED clock
    BY <1>5
    DEF LoginStep, Arrive, TurnAway, ReadHash, OpenSession, RefuseLogin, LoginBusy,
        RecordFailure, AnswerLogin, ChangeStep, AskChange, VerifyChange, CommitChange,
        FailChange
  <2>2. ASSUME NEW r \in Remotes, NEW p \in Passwords, Arrive(c, r, p)
        PROVE  \/ UNCHANGED req
               \/ serving /\ \E s \in RequestStates : req' = [req EXCEPT ![c] = s]
    <3>1. [stage |-> "arrived", key |-> r, at |-> now, password |-> p] \in RequestStates
      BY StageStates DEF RequestTypes
    <3>2. QED
      BY <2>2, <3>1 DEF Arrive
  <2>3. CASE TurnAway(c) \/ LoginBusy(c) \/ RecordFailure(c) \/ AnswerLogin(c)
             \/ CommitChange(c) \/ FailChange(c)
    <3>1. req' = [req EXCEPT ![c] = Idle] /\ req[c].stage # "idle"
      BY <2>3 DEF TurnAway, LoginBusy, RecordFailure, AnswerLogin, CommitChange,
                  Replaces, FailChange
    <3>2. QED
      BY <2>0, <2>1, <3>1, StageStates
  <2>4. CASE ReadHash(c)
    <3>1. PICK old : old = req[c] /\ old.stage = "arrived"
      BY <2>4 DEF ReadHash
    <3>2. PICK s : s = [stage |-> "verifying", key |-> old.key, at |-> old.at,
                        password |-> old.password, encoded |-> admin_credentials]
      OBVIOUS
    <3>3. s \in RequestStates
      BY <2>0, <3>1, <3>2, StageFields, StageStates DEF PasswordTypes
    <3>4. req' = [req EXCEPT ![c] = s]
      BY <2>4, <3>1, <3>2 DEF ReadHash
    <3>5. QED
      BY <2>0, <2>1, <3>1, <3>3, <3>4
  <2>5. CASE OpenSession(c)
    <3>1. PICK s : s = [stage |-> "accepted", key |-> req[c].key]
      OBVIOUS
    <3>2. req[c].stage = "verifying" /\ req' = [req EXCEPT ![c] = s]
      BY <2>5, <3>1 DEF OpenSession
    <3>3. s \in RequestStates
      BY <2>0, <3>1, <3>2, StageFields, StageStates
    <3>4. QED
      BY <2>0, <2>1, <3>2, <3>3
  <2>6. CASE RefuseLogin(c)
    <3>1. PICK s : s = [stage |-> "refused", key |-> req[c].key, at |-> req[c].at]
      OBVIOUS
    <3>2. req[c].stage = "verifying" /\ req' = [req EXCEPT ![c] = s]
      BY <2>6, <3>1 DEF RefuseLogin
    <3>3. s \in RequestStates
      BY <2>0, <3>1, <3>2, StageFields, StageStates
    <3>4. QED
      BY <2>0, <2>1, <3>2, <3>3
  <2>7. ASSUME NEW t \in Tokens, NEW p \in Passwords, NEW q \in Passwords,
               AskChange(c, t, p, q)
        PROVE  serving /\ \E s \in RequestStates : req' = [req EXCEPT ![c] = s]
    <3>1. [stage |-> "authorised", current |-> p, new |-> q] \in RequestStates
      BY StageStates
    <3>2. QED
      BY <2>7, <3>1 DEF AskChange
  <2>8. CASE VerifyChange(c)
    <3>1. PICK old : old = req[c] /\ old.stage = "authorised"
      BY <2>8 DEF VerifyChange
    <3>2. PICK s : s = IF Verifies(admin_credentials, old.current)
                       THEN [stage |-> "changing", encoded |-> admin_credentials,
                             new |-> old.new]
                       ELSE Idle
      OBVIOUS
    <3>3. s \in RequestStates
      BY <2>0, <3>1, <3>2, StageFields, StageStates DEF PasswordTypes, Verifies
    <3>4. req' = [req EXCEPT ![c] = s]
      BY <2>8, <3>1, <3>2 DEF VerifyChange
    <3>5. QED
      BY <2>0, <2>1, <3>1, <3>3, <3>4
  <2>9. QED
    BY <1>5, <2>1, <2>2, <2>3, <2>4, <2>5, <2>6, <2>7, <2>8 DEF LoginStep, ChangeStep
<1>6. ASSUME NEW c \in Requests, LoginStep(c) \/ ChangeStep(c)
      PROVE  /\ now' \in Nat /\ serving' \in BOOLEAN /\ restarts' \in Nat
             /\ \/ UNCHANGED <<req, serving>>
                \/ /\ serving /\ UNCHANGED serving
                   /\ \E s \in RequestStates : req' = [req EXCEPT ![c] = s]
  BY <1>5, <1>6 DEF clock, RequestTypes
<1>7. QED
  BY <1>1, <1>2, <1>3, <1>4, <1>6 DEF AccessNext

\* The requests keep their types.
LEMMA StepRequestTypes ==
  ASSUME RequestTypes, PasswordTypes, [AccessNext]_accessVars
  PROVE  RequestTypes'
<1>1. CASE UNCHANGED <<req, serving>>
  BY <1>1, RequestMoves DEF RequestTypes
<1>2. CASE Start /\ UNCHANGED req
  BY <1>2, RequestMoves DEF Start, RequestTypes
<1>3. CASE Stop
  <2>1. /\ req' \in [Requests -> RequestStates]
        /\ \A c \in Requests : req'[c] = Idle
    BY <1>3, StageStates DEF Stop
  <2>2. QED
    BY <2>1, RequestMoves DEF RequestTypes
<1>4. ASSUME serving, UNCHANGED serving, NEW c \in Requests, NEW s \in RequestStates,
             req' = [req EXCEPT ![c] = s]
      PROVE  RequestTypes'
  BY <1>4, RequestMoves DEF RequestTypes
<1>5. QED
  BY <1>1, <1>2, <1>3, <1>4, RequestMoves

\* One request's move changes the slots taken as it changes its holding one.
LEMMA HolderMoves ==
  ASSUME RequestTypes, NEW c \in Requests, NEW s \in RequestStates,
         req' = [req EXCEPT ![c] = s]
  PROVE  /\ IsFiniteSet(Holders) /\ Cardinality(Holders) \in Nat
         /\ s.stage \in {"verifying", "accepted", "refused"} =>
              /\ Holders' = Holders \cup {c}
              /\ Cardinality(Holders') =
                   IF Holding(c) THEN Cardinality(Holders) ELSE Cardinality(Holders) + 1
         /\ s.stage \notin {"verifying", "accepted", "refused"} =>
              /\ Holders' = Holders \ {c}
              /\ Cardinality(Holders') =
                   IF Holding(c) THEN Cardinality(Holders) - 1 ELSE Cardinality(Holders)
<1>1. IsFiniteSet(Holders) /\ Cardinality(Holders) \in Nat
  BY Limits, FS_Subset, FS_CardinalityType DEF Holders
<1>2. req'[c] = s /\ \A d \in Requests \ {c} : req'[d] = req[d]
  BY DEF RequestTypes
<1>3. CASE s.stage \in {"verifying", "accepted", "refused"}
  <2>1. Holders' = Holders \cup {c}
    BY <1>2, <1>3 DEF Holders, Holding
  <2>2. c \in Holders <=> Holding(c)
    BY DEF Holders
  <2>3. Cardinality(Holders \cup {c}) =
          IF c \in Holders THEN Cardinality(Holders) ELSE Cardinality(Holders) + 1
    BY <1>1, FS_AddElement
  <2>4. QED
    BY <1>1, <1>3, <2>1, <2>2, <2>3
<1>4. CASE s.stage \notin {"verifying", "accepted", "refused"}
  <2>1. Holders' = Holders \ {c}
    BY <1>2, <1>4 DEF Holders, Holding
  <2>2. c \in Holders <=> Holding(c)
    BY DEF Holders
  <2>3. Cardinality(Holders \ {c}) =
          IF c \in Holders THEN Cardinality(Holders) - 1 ELSE Cardinality(Holders)
    BY <1>1, FS_RemoveElement
  <2>4. QED
    BY <1>1, <1>4, <2>1, <2>2, <2>3
<1>5. QED
  BY <1>1, <1>3, <1>4

\* Each step gives back the slot of a login it ends, and takes one for a login it
\* starts to verify.
LEMMA StepSlots ==
  ASSUME RequestTypes, PasswordTypes, SlotTypes, [AccessNext]_accessVars
  PROVE  SlotTypes'
<1>1. CASE UNCHANGED <<req, loginSlots>>
  BY <1>1 DEF SlotTypes, Holders, Holding
<1>2. CASE Start \/ Stop
  <2>1. \A c \in Requests : req'[c] = Idle
    BY <1>2 DEF Start, Stop, RequestTypes
  <2>2. Holders' = {}
    BY <2>1, StageStates DEF Holders, Holding
  <2>3. loginSlots' = 0
    BY <1>2 DEF Start, Stop
  <2>4. QED
    BY <2>2, <2>3, FS_EmptySet, Limits DEF SlotTypes
<1>3. ASSUME NEW c \in Requests, LoginStep(c) \/ ChangeStep(c),
             NEW s \in RequestStates, req' = [req EXCEPT ![c] = s]
      PROVE  SlotTypes'
  <2>0. /\ req'[c] = s /\ loginSlots \in Nat /\ loginSlots = Cardinality(Holders)
        /\ loginSlots <= Concurrency /\ IsFiniteSet(Holders)
    <3>1. req'[c] = s
      BY <1>3 DEF RequestTypes
    <3>2. loginSlots \in Nat /\ loginSlots = Cardinality(Holders) /\ loginSlots <= Concurrency
      BY Limits DEF SlotTypes
    <3>3. IsFiniteSet(Holders)
      BY <1>3, HolderMoves
    <3>4. QED
      BY <3>1, <3>2, <3>3
  <2>1. CASE /\ UNCHANGED loginSlots
             /\ Holding(c) <=> s.stage \in {"verifying", "accepted", "refused"}
    BY <1>3, <2>0, <2>1, HolderMoves DEF SlotTypes
  <2>2. CASE ReadHash(c)
    <3>1. /\ ~ Holding(c) /\ s.stage = "verifying" /\ loginSlots' = loginSlots + 1
          /\ loginSlots < Concurrency
      BY <2>0, <2>2 DEF ReadHash, Holding, RequestTypes
    <3>2. Cardinality(Holders') = Cardinality(Holders) + 1
      BY <1>3, <3>1, HolderMoves
    <3>3. QED
      BY <2>0, <3>1, <3>2, Limits DEF SlotTypes
  <2>3. CASE LoginBusy(c) \/ RecordFailure(c) \/ AnswerLogin(c)
    <3>1. /\ Holding(c) /\ loginSlots' = loginSlots - 1
          /\ req' = [req EXCEPT ![c] = Idle]
      BY <2>3 DEF LoginBusy, RecordFailure, AnswerLogin, Holding
    <3>2. s.stage = "idle"
      BY <2>0, <3>1, StageStates DEF RequestTypes
    <3>3. c \in Holders
      BY <3>1 DEF Holders
    <3>4. loginSlots >= 1
      BY <2>0, <3>3, FS_EmptySet
    <3>5. Cardinality(Holders') = Cardinality(Holders) - 1
      BY <1>3, <3>1, <3>2, HolderMoves
    <3>6. QED
      BY <2>0, <3>1, <3>4, <3>5, Limits DEF SlotTypes
  <2>4. CASE OpenSession(c) \/ RefuseLogin(c)
    <3>1. Holding(c) /\ s.stage \in {"accepted", "refused"} /\ UNCHANGED loginSlots
      BY <2>0, <2>4 DEF OpenSession, RefuseLogin, Holding, throttle, RequestTypes
    <3>2. QED
      BY <2>1, <3>1
  <2>5. ASSUME NEW r \in Remotes, NEW p \in Passwords, Arrive(c, r, p)
        PROVE  SlotTypes'
    <3>1. UNCHANGED loginSlots /\ req[c] = Idle
             /\ (UNCHANGED req \/ s.stage = "arrived")
      BY <2>0, <2>5 DEF Arrive, RequestTypes
    <3>2. QED
      BY <2>0, <2>1, <3>1, StageStates DEF Holding
  <2>6. CASE TurnAway(c) \/ ChangeStep(c)
    <3>1. /\ UNCHANGED loginSlots
          /\ req[c].stage \in {"idle", "arrived", "authorised", "changing"}
      BY <2>6, StageStates
      DEF TurnAway, ChangeStep, AskChange, VerifyChange, CommitChange, Replaces, FailChange,
          throttle
    <3>2. s.stage \in {"idle", "authorised", "changing"}
      <4>1. CASE TurnAway(c) \/ CommitChange(c) \/ FailChange(c)
        BY <2>0, <4>1, StageStates DEF TurnAway, CommitChange, FailChange, RequestTypes
      <4>2. CASE VerifyChange(c)
        BY <2>0, <4>2, StageStates DEF VerifyChange, RequestTypes
      <4>3. ASSUME NEW t, NEW p, NEW q, AskChange(c, t, p, q)
            PROVE  s.stage = "authorised"
        BY <2>0, <4>3 DEF AskChange, RequestTypes
      <4>4. QED
        BY <2>6, <4>1, <4>2, <4>3 DEF ChangeStep
    <3>3. QED
      BY <2>1, <3>1, <3>2 DEF Holding
  <2>7. QED
    BY <1>3, <2>2, <2>3, <2>4, <2>5, <2>6 DEF LoginStep
<1>4. CASE UNCHANGED <<req, serving>>
  <2>1. CASE UNCHANGED loginSlots
    BY <1>1, <1>4, <2>1
  <2>2. CASE ~ UNCHANGED loginSlots
    <3>1. CASE Start \/ Stop
      BY <1>2, <3>1
    <3>2. ~ (Start \/ Stop) => \E c \in Requests : LoginStep(c) \/ ChangeStep(c)
      BY <2>2
      DEF AccessNext, AccessTick, KeyStep, CreateAPIKey, RevokeAPIKey, Logout, accessVars,
          throttle
    <3>3. ASSUME NEW c \in Requests, LoginStep(c) \/ ChangeStep(c)
          PROVE  SlotTypes'
      <4>1. req' = [req EXCEPT ![c] = req[c]] /\ req[c] \in RequestStates
        BY <1>4 DEF RequestTypes
      <4>2. QED
        BY <1>3, <3>3, <4>1
    <3>4. QED
      BY <3>1, <3>2, <3>3
  <2>3. QED
    BY <2>1, <2>2
<1>5. QED
  BY <1>2, <1>3, <1>4, RequestMoves

\* The throttle's map keeps its types and its limit.
LEMMA StepThrottleTypes ==
  ASSUME RequestTypes, ThrottleTypes, [AccessNext]_accessVars
  PROVE  ThrottleTypes'
<1>1. CASE UNCHANGED <<loginFailures, guesses>>
  BY <1>1 DEF ThrottleTypes
<1>2. NoGuesses \in [Remotes -> SUBSET Guesses]
  BY DEF NoGuesses
<1>3. \A S : Forget(S) \in [Remotes -> SUBSET Guesses]
  BY <1>2 DEF Forget, ThrottleTypes
<1>4. CASE Start \/ Stop
  <2>1. loginFailures' = << >> /\ guesses' = NoGuesses
    BY <1>4 DEF Start, Stop
  <2>2. DOMAIN << >> = {}
    OBVIOUS
  <2>3. QED
    BY <1>2, <2>1, <2>2, FS_EmptySet, Limits DEF ThrottleTypes
<1>5. ASSUME NEW f, DOMAIN f \subseteq DOMAIN loginFailures,
             \A r \in DOMAIN f : f[r] \in Entry,
             loginFailures' = f, guesses' \in [Remotes -> SUBSET Guesses]
      PROVE  ThrottleTypes'
  <2>1. /\ IsFiniteSet(DOMAIN f)
        /\ Cardinality(DOMAIN f) <= Cardinality(DOMAIN loginFailures)
        /\ Cardinality(DOMAIN f) \in Nat /\ Cardinality(DOMAIN loginFailures) \in Nat
    BY <1>5, FS_Subset, FS_CardinalityType DEF ThrottleTypes
  <2>2. QED
    BY <1>5, <2>1, Limits DEF ThrottleTypes
<1>6. ASSUME NEW c \in Requests, NEW r \in Remotes, NEW p \in Passwords, Arrive(c, r, p)
      PROVE  ThrottleTypes'
  <2>1. PICK f \in Pruned(loginFailures, now) :
          /\ guesses' = Forget(Evicted(loginFailures, f, now))
          /\ \/ Blocked(f, r, now) /\ loginFailures' = [f EXCEPT ![r].lastSeen = now]
             \/ loginFailures' = Restrict(f, DOMAIN f \ {r})
             \/ loginFailures' = f
    BY <1>6 DEF Arrive
  <2>2. /\ DOMAIN f \subseteq DOMAIN loginFailures
        /\ \A x \in DOMAIN f : f[x] \in Entry
    BY PrunedEntries DEF ThrottleTypes, RequestTypes
  <2>3. CASE loginFailures' = f
    BY <1>3, <1>5, <2>1, <2>2, <2>3
  <2>4. CASE loginFailures' = Restrict(f, DOMAIN f \ {r})
    <3>1. /\ DOMAIN loginFailures' = DOMAIN f \ {r}
          /\ \A x \in DOMAIN f \ {r} : loginFailures'[x] = f[x]
      BY <2>4 DEF Restrict
    <3>2. QED
      BY <1>3, <1>5, <2>1, <2>2, <3>1
  <2>5. CASE Blocked(f, r, now) /\ loginFailures' = [f EXCEPT ![r].lastSeen = now]
    <3>1. PICK old \in Entry : old = f[r] /\ r \in DOMAIN f
      BY <2>2, <2>5 DEF Blocked
    <3>2. [old EXCEPT !.lastSeen = now] \in Entry
      BY DEF Entry, RequestTypes
    <3>3. /\ DOMAIN loginFailures' = DOMAIN f
          /\ \A x \in DOMAIN f : loginFailures'[x] \in Entry
      BY <2>2, <2>5, <3>1, <3>2
    <3>4. QED
      BY <1>3, <1>5, <2>1, <2>2, <3>3
  <2>6. QED
    BY <2>1, <2>3, <2>4, <2>5
<1>7. ASSUME NEW c \in Requests, AnswerLogin(c)
      PROVE  ThrottleTypes'
  <2>1. /\ loginFailures' = Restrict(loginFailures, DOMAIN loginFailures \ {req[c].key})
        /\ guesses' = Forget({req[c].key})
    BY <1>7 DEF AnswerLogin
  <2>2. /\ DOMAIN loginFailures' \subseteq DOMAIN loginFailures
        /\ \A x \in DOMAIN loginFailures' : loginFailures'[x] \in Entry
    BY <2>1 DEF Restrict, ThrottleTypes
  <2>3. QED
    BY <1>3, <1>5, <2>1, <2>2
<1>8. ASSUME NEW c \in Requests, RecordFailure(c)
      PROVE  ThrottleTypes'
  <2>1. PICK r \in Remotes, t \in Nat : r = req[c].key /\ t = req[c].at
    BY <1>8, StageFields DEF RecordFailure, RequestTypes
  <2>2. PICK f \in Pruned(loginFailures, t) :
          /\ loginFailures' = With(f, r, Recorded(f, r, t))
          /\ guesses' = [Forget(Evicted(loginFailures, f, t)) EXCEPT
               ![r] = @ \cup {Guess(Recorded(f, r, t), t)}]
    BY <1>8, <2>1 DEF RecordFailure
  <2>3. /\ DOMAIN f \subseteq DOMAIN loginFailures
        /\ \A x \in DOMAIN f : f[x] \in Entry
        /\ IsFiniteSet(DOMAIN f) /\ Cardinality(DOMAIN f) + 1 <= Entries
        /\ Cardinality(DOMAIN f) \in Nat
    BY PrunedEntries DEF ThrottleTypes
  <2>4. PICK e \in Entry :
          /\ loginFailures' = With(f, r, e)
          /\ guesses' = [Forget(Evicted(loginFailures, f, t)) EXCEPT ![r] = @ \cup {Guess(e, t)}]
    BY <2>2, <2>3, RecordedEntry
  <2>5. /\ DOMAIN loginFailures' = DOMAIN f \cup {r}
        /\ \A x \in DOMAIN f \cup {r} : loginFailures'[x] \in Entry
    BY <2>3, <2>4 DEF With
  <2>6. /\ IsFiniteSet(DOMAIN f \cup {r})
        /\ Cardinality(DOMAIN f \cup {r}) <= Entries
    <3>1. /\ IsFiniteSet(DOMAIN f \cup {r})
          /\ Cardinality(DOMAIN f \cup {r}) =
               IF r \in DOMAIN f THEN Cardinality(DOMAIN f) ELSE Cardinality(DOMAIN f) + 1
      BY <2>3, FS_AddElement
    <3>2. PICK n \in Nat : n = Cardinality(DOMAIN f)
      BY <2>3
    <3>3. n + 1 <= Entries
      BY <2>3, <3>2
    <3>4. QED
      BY <3>1, <3>2, <3>3, Limits
  <2>7. Guess(e, t) \in Guesses
    BY <2>4 DEF Guess, Guesses, Entry
  <2>8. guesses' \in [Remotes -> SUBSET Guesses]
    BY <1>3, <2>4, <2>7
  <2>9. QED
    BY <2>3, <2>5, <2>6, <2>8 DEF ThrottleTypes
<1>9. ASSUME NEW c \in Requests, LoginStep(c) \/ ChangeStep(c)
      PROVE  ThrottleTypes'
  BY <1>1, <1>6, <1>7, <1>8, <1>9
  DEF LoginStep, TurnAway, ReadHash, OpenSession, RefuseLogin, LoginBusy, ChangeStep,
      AskChange, VerifyChange, CommitChange, FailChange, throttle
<1>10. CASE AccessTick \/ KeyStep \/ (\E t \in Tokens : Logout(t)) \/ UNCHANGED accessVars
  BY <1>1, <1>10
  DEF AccessTick, KeyStep, CreateAPIKey, RevokeAPIKey, Logout, accessVars, throttle
<1>11. QED
  BY <1>4, <1>9, <1>10 DEF AccessNext

\* The keys keep their types.
LEMMA StepKeyTypes ==
  ASSUME KeyTypes, [AccessNext]_accessVars
  PROVE  KeyTypes'
<1>1. CASE UNCHANGED keys
  BY <1>1 DEF keys, KeyTypes
<1>2. CASE Start
  <2>1. revoked' = revoked /\ api_keys' \in {api_keys, BootstrapAPIKey}
    BY <1>2 DEF Start
  <2>2. LegacyKey \in Keys
    BY DEF Keys
  <2>3. QED
    BY <2>1, <2>2 DEF KeyTypes, BootstrapAPIKey, With
<1>3. ASSUME NEW k \in Keys, CreateAPIKey(k)
      PROVE  KeyTypes'
  BY <1>3 DEF CreateAPIKey, With, KeyTypes
<1>4. ASSUME NEW k \in Keys, RevokeAPIKey(k)
      PROVE  KeyTypes'
  BY <1>4 DEF RevokeAPIKey, KeyDisabled, KeyTypes
<1>5. CASE AccessTick \/ Stop \/ (\E t \in Tokens : Logout(t)) \/ UNCHANGED accessVars
  BY <1>5, <1>1 DEF AccessTick, Stop, Logout, accessVars
<1>6. ASSUME NEW c \in Requests, LoginStep(c) \/ ChangeStep(c)
      PROVE  UNCHANGED keys
  BY <1>6 DEF LoginStep, Arrive, TurnAway, ReadHash, OpenSession, RefuseLogin, LoginBusy,
              RecordFailure, AnswerLogin, ChangeStep, AskChange, VerifyChange, CommitChange,
              FailChange
<1>7. QED
  BY <1>1, <1>2, <1>3, <1>4, <1>5, <1>6 DEF AccessNext, KeyStep

\* A fresh database, and a process that is down.
LEMMA InitAccess == AccessInit => AccessInv
<1> SUFFICES ASSUME AccessInit
             PROVE  AccessInv
  OBVIOUS
<1>1. DOMAIN << >> = {}
  OBVIOUS
<1>2. PasswordTypes /\ KeyTypes
  BY <1>1 DEF AccessInit, PasswordTypes, KeyTypes
<1>3. RequestTypes
  BY StageStates DEF AccessInit, RequestTypes
<1>4. SlotTypes
  <2>1. Holders = {}
    BY StageStates DEF AccessInit, Holders, Holding
  <2>2. QED
    BY <2>1, FS_EmptySet, Limits DEF AccessInit, SlotTypes
<1>5. ThrottleTypes
  <2>1. NoGuesses \in [Remotes -> SUBSET Guesses]
    BY DEF NoGuesses
  <2>2. QED
    BY <1>1, <2>1, FS_EmptySet, Limits DEF AccessInit, ThrottleTypes
<1>6. QED
  BY <1>2, <1>3, <1>4, <1>5 DEF AccessInv

\* Every step keeps the types.
LEMMA StepAccess == AccessInv /\ [AccessNext]_accessVars => AccessInv'
BY StepPasswordTypes, StepRequestTypes, StepSlots, StepThrottleTypes, StepKeyTypes
DEF AccessInv

\* The types hold of every reachable state.
LEMMA AccessHolds == AccessSpec => []AccessInv
BY InitAccess, StepAccess, PTL DEF AccessSpec

\* Every variable has its type: the throttle's map never outgrows its limit, and
\* as many slots are taken as logins are being verified or answered, whatever
\* path a login leaves on.
THEOREM AccessTypes == AccessSpec => []AccessTypeOK
<1>1. AccessInv => AccessTypeOK
  BY DEF AccessInv, RequestTypes, PasswordTypes, SlotTypes, ThrottleTypes, KeyTypes,
         AccessTypeOK, Sessions, Holders
<1>2. QED
  BY <1>1, AccessHolds, PTL

---------------------------------------------------------------------------
(* The throttle: what a step does to one remote's logins and entry.        *)

Waiting == {"arrived", "verifying", "refused"}
Pending(c, r) == req[c].stage \in Waiting /\ req[c].key = r

\* No login has waited longer than MaxLogin.
ClockInv ==
  \A c \in Requests :
    req[c].stage \in Waiting => req[c].at <= now /\ now <= req[c].at + MaxLogin

\* The remote's waiting logins are some of those there were, or one comes when it
\* is not blocked and its window is not over.
NoneComes(r) ==
  \A c \in Requests : Pending(c, r)' => Pending(c, r) /\ req'[c].at = req[c].at
OneComes(r) ==
  /\ r \in DOMAIN loginFailures' =>
       now >= loginFailures'[r].blockedUntil /\ now - loginFailures'[r].firstFailure < Window
  /\ \A c \in Requests :
       Pending(c, r)' => \/ Pending(c, r) /\ req'[c].at = req[c].at
                         \/ req'[c].at = now

\* The remote's entry stays, or goes when its time is over.
Kept(r) ==
  /\ r \in DOMAIN loginFailures /\ r \in DOMAIN loginFailures'
  /\ loginFailures'[r].failures = loginFailures[r].failures
  /\ loginFailures'[r].firstFailure = loginFailures[r].firstFailure
  /\ loginFailures'[r].blockedUntil = loginFailures[r].blockedUntil
  /\ loginFailures'[r].lastSeen \in {loginFailures[r].lastSeen, now}
Absent(r) == r \notin DOMAIN loginFailures /\ r \notin DOMAIN loginFailures'
Expires(r) ==
  /\ r \in DOMAIN loginFailures /\ r \notin DOMAIN loginFailures'
  /\ now >= loginFailures[r].blockedUntil
  /\ \/ now - loginFailures[r].lastSeen >= Window
     \/ now - loginFailures[r].firstFailure >= Window

\* Nothing happens to the remote but its logins' progress and its entry's end; or
\* all that was counted against it is forgotten.
Aside(r) ==
  /\ now' = now /\ guesses'[r] = guesses[r]
  /\ Kept(r) \/ Absent(r) \/ Expires(r)
  /\ NoneComes(r) \/ OneComes(r)
Forgotten(r) ==
  now' = now /\ guesses'[r] = {} /\ r \notin DOMAIN loginFailures'

\* What a login carries goes with it from stage to stage.
LEMMA WaitingMoves ==
  ASSUME AccessInv, NEW c \in Requests,
         LoginStep(c) \/ ChangeStep(c), ~ (\E r \in Remotes, p \in Passwords : Arrive(c, r, p))
  PROVE  /\ now' = now
         /\ \A d \in Requests :
              req'[d].stage \in Waiting =>
                /\ req[d].stage \in Waiting
                /\ req'[d].key = req[d].key /\ req'[d].at = req[d].at
<1>0. req \in [Requests -> RequestStates]
  BY DEF AccessInv, RequestTypes
<1>1. ASSUME NEW s, req' = [req EXCEPT ![c] = s],
             s.stage \in Waiting => /\ req[c].stage \in Waiting
                                    /\ s.key = req[c].key /\ s.at = req[c].at
      PROVE  \A d \in Requests :
               req'[d].stage \in Waiting =>
                 /\ req[d].stage \in Waiting
                 /\ req'[d].key = req[d].key /\ req'[d].at = req[d].at
  <2>1. req'[c] = s /\ \A d \in Requests \ {c} : req'[d] = req[d]
    BY <1>0, <1>1
  <2>2. QED
    BY <1>1, <2>1
<1>2. CASE TurnAway(c) \/ LoginBusy(c) \/ RecordFailure(c) \/ AnswerLogin(c)
           \/ CommitChange(c) \/ FailChange(c)
  <2>1. req' = [req EXCEPT ![c] = Idle] /\ now' = now
    BY <1>2 DEF TurnAway, LoginBusy, RecordFailure, AnswerLogin, CommitChange, FailChange,
                clock
  <2>2. Idle.stage \notin Waiting
    BY StageStates DEF Waiting
  <2>3. QED
    BY <1>1, <2>1, <2>2
<1>3. CASE ReadHash(c)
  <2>1. PICK old : old = req[c]
    OBVIOUS
  <2>2. PICK s : s = [stage |-> "verifying", key |-> old.key, at |-> old.at,
                      password |-> old.password, encoded |-> admin_credentials]
    OBVIOUS
  <2>3. req' = [req EXCEPT ![c] = s] /\ old.stage = "arrived" /\ now' = now
    BY <1>3, <2>1, <2>2 DEF ReadHash, clock
  <2>4. s.key = old.key /\ s.at = old.at
    BY <2>2
  <2>5. QED
    BY <1>1, <2>1, <2>3, <2>4 DEF Waiting
<1>4. CASE OpenSession(c)
  <2>1. PICK s : s = [stage |-> "accepted", key |-> req[c].key]
    OBVIOUS
  <2>2. req' = [req EXCEPT ![c] = s] /\ now' = now /\ s.stage = "accepted"
    BY <1>4, <2>1 DEF OpenSession, clock
  <2>3. QED
    BY <1>1, <2>2 DEF Waiting
<1>5. CASE RefuseLogin(c)
  <2>1. PICK s : s = [stage |-> "refused", key |-> req[c].key, at |-> req[c].at]
    OBVIOUS
  <2>2. /\ req' = [req EXCEPT ![c] = s] /\ now' = now /\ req[c].stage = "verifying"
        /\ s.key = req[c].key /\ s.at = req[c].at
    BY <1>5, <2>1 DEF RefuseLogin, clock
  <2>3. QED
    BY <1>1, <2>2 DEF Waiting
<1>6. ASSUME NEW t \in Tokens, NEW p \in Passwords, NEW q \in Passwords, AskChange(c, t, p, q)
      PROVE  /\ now' = now
             /\ \E s : req' = [req EXCEPT ![c] = s] /\ s.stage = "authorised"
  <2>1. PICK s : s = [stage |-> "authorised", current |-> p, new |-> q]
    OBVIOUS
  <2>2. req' = [req EXCEPT ![c] = s] /\ now' = now /\ s.stage = "authorised"
    BY <1>6, <2>1 DEF AskChange, clock
  <2>3. QED
    BY <2>2
<1>7. CASE VerifyChange(c)
  <2>1. PICK s : s = IF Verifies(admin_credentials, req[c].current)
                     THEN [stage |-> "changing", encoded |-> admin_credentials,
                           new |-> req[c].new]
                     ELSE Idle
    OBVIOUS
  <2>2. req' = [req EXCEPT ![c] = s] /\ now' = now
    BY <1>7, <2>1 DEF VerifyChange, clock
  <2>3. s.stage \in {"changing", "idle"}
    BY <2>1, StageStates
  <2>4. QED
    BY <1>1, <2>2, <2>3 DEF Waiting
<1>8. CASE \E t \in Tokens, p, q \in Passwords : AskChange(c, t, p, q)
  <2>1. PICK s : req' = [req EXCEPT ![c] = s] /\ s.stage = "authorised" /\ now' = now
    BY <1>6, <1>8
  <2>2. QED
    BY <1>1, <2>1 DEF Waiting
<1>9. QED
  BY <1>2, <1>3, <1>4, <1>5, <1>7, <1>8 DEF LoginStep, ChangeStep

\* A login that comes to a remote's throttle.
LEMMA ArrivalMoves ==
  ASSUME AccessInv, NEW c \in Requests, NEW r \in Remotes, NEW p \in Passwords,
         Arrive(c, r, p)
  PROVE  /\ now' = now
         /\ \/ req' = req
            \/ /\ req'[c].stage = "arrived" /\ req'[c].key = r /\ req'[c].at = now
               /\ \A d \in Requests \ {c} : req'[d] = req[d]
<1>1. PICK s : s = [stage |-> "arrived", key |-> r, at |-> now, password |-> p]
  OBVIOUS
<1>2. now' = now /\ (req' = req \/ req' = [req EXCEPT ![c] = s])
  BY <1>1 DEF Arrive, clock
<1>3. s.stage = "arrived" /\ s.key = r /\ s.at = now
  BY <1>1
<1>4. req \in [Requests -> RequestStates]
  BY DEF AccessInv, RequestTypes
<1>5. QED
  BY <1>2, <1>3, <1>4

\* The clock waits for the logins.
LEMMA StepClock == AccessInv /\ ClockInv /\ [AccessNext]_accessVars => ClockInv'
<1> SUFFICES ASSUME AccessInv, ClockInv, [AccessNext]_accessVars
             PROVE  ClockInv'
  OBVIOUS
<1>0. /\ now \in Nat
      /\ \A c \in Requests : req[c].stage \in Waiting => req[c].at \in Nat
  BY StageFields DEF AccessInv, RequestTypes, Waiting
<1>1. CASE UNCHANGED <<now, req>>
  BY <1>1 DEF ClockInv
<1>2. CASE AccessTick
  <2>1. /\ now' = now + 1 /\ req' = req
        /\ \A c \in Requests : req[c].stage \in Waiting => now - req[c].at < MaxLogin
    BY <1>0, <1>2, Limits DEF AccessTick, Lingers, Waiting
  <2>2. QED
    BY <1>0, <2>1, Limits DEF ClockInv
<1>3. CASE Start \/ KeyStep \/ (\E t \in Tokens : Logout(t)) \/ UNCHANGED accessVars
  BY <1>1, <1>3 DEF Start, KeyStep, CreateAPIKey, RevokeAPIKey, Logout, accessVars, clock
<1>4. CASE Stop
  <2>1. \A c \in Requests : req'[c].stage = "idle"
    BY <1>4, StageStates DEF Stop
  <2>2. QED
    BY <2>1 DEF ClockInv, Waiting
<1>5. ASSUME NEW c \in Requests, LoginStep(c) \/ ChangeStep(c)
      PROVE  ClockInv'
  <2>1. CASE \E r \in Remotes, p \in Passwords : Arrive(c, r, p)
    BY <1>0, <2>1, ArrivalMoves, Limits DEF ClockInv
  <2>2. CASE ~ (\E r \in Remotes, p \in Passwords : Arrive(c, r, p))
    BY <1>5, <2>2, WaitingMoves DEF ClockInv
  <2>3. QED
    BY <2>1, <2>2
<1>6. QED
  BY <1>2, <1>3, <1>4, <1>5 DEF AccessNext

\* What pruning as of a moment that has been does to one remote.
LEMMA PruneMoves ==
  ASSUME AccessInv, NEW r \in Remotes, NEW t \in Nat, t <= now,
         NEW f \in Pruned(loginFailures, t), NEW G, G = Forget(Evicted(loginFailures, f, t))
  PROVE  \/ r \notin DOMAIN f /\ G[r] = {}
         \/ /\ G[r] = guesses[r]
            /\ \/ r \notin DOMAIN f /\ r \notin DOMAIN loginFailures
               \/ /\ r \notin DOMAIN f /\ r \in DOMAIN loginFailures
                  /\ now >= loginFailures[r].blockedUntil
                  /\ now - loginFailures[r].lastSeen >= Window
                  /\ t >= loginFailures[r].lastSeen + Window
               \/ /\ r \in DOMAIN f /\ r \in DOMAIN loginFailures
                  /\ f[r] = loginFailures[r]
<1>0. now \in Nat
  BY DEF AccessInv, RequestTypes
<1>1. /\ DOMAIN f \subseteq DOMAIN loginFailures
      /\ \A x \in DOMAIN f : f[x] = loginFailures[x]
      /\ \A x \in DOMAIN loginFailures \ DOMAIN f :
           \/ x \in Evicted(loginFailures, f, t)
           \/ t > loginFailures[x].blockedUntil /\ t - loginFailures[x].lastSeen >= Window
  BY PrunedEntries DEF AccessInv, ThrottleTypes
<1>2. CASE r \in Evicted(loginFailures, f, t)
  <2>1. r \notin DOMAIN f
    BY <1>2 DEF Evicted
  <2>2. G[r] = {}
    BY <1>2 DEF Forget, NoGuesses
  <2>3. QED
    BY <2>1, <2>2
<1>3. CASE r \notin Evicted(loginFailures, f, t)
  <2>1. G[r] = guesses[r]
    BY <1>3 DEF Forget
  <2>2. CASE r \notin DOMAIN loginFailures
    BY <1>1, <2>1, <2>2
  <2>3. CASE r \in DOMAIN f
    BY <1>1, <2>1, <2>3
  <2>4. CASE r \in DOMAIN loginFailures \ DOMAIN f
    <3>1. PICK until \in Nat, seen \in Nat :
            until = loginFailures[r].blockedUntil /\ seen = loginFailures[r].lastSeen
      BY <2>4 DEF AccessInv, ThrottleTypes, Entry
    <3>2. t > until /\ t - seen >= Window
      BY <1>1, <1>3, <2>4, <3>1
    <3>3. now >= until /\ now - seen >= Window /\ t >= seen + Window
      BY <1>0, <3>1, <3>2, Limits
    <3>4. QED
      BY <2>1, <2>4, <3>1, <3>3
  <2>5. QED
    BY <2>2, <2>3, <2>4
<1>4. QED
  BY <1>2, <1>3

\* A login that comes to a remote touches that remote's entry alone, but for the
\* pruning.
LEMMA ArrivalEntries ==
  ASSUME AccessInv, ClockInv, NEW c \in Requests, NEW q \in Remotes, NEW p \in Passwords,
         Arrive(c, q, p), NEW r \in Remotes
  PROVE  Forgotten(r) \/ Aside(r)
<1>0. now \in Nat
  BY DEF AccessInv, RequestTypes
<1>1. /\ now' = now
      /\ \/ req' = req
         \/ /\ req'[c].stage = "arrived" /\ req'[c].key = q /\ req'[c].at = now
            /\ \A d \in Requests \ {c} : req'[d] = req[d]
  BY ArrivalMoves
<1>2. PICK f \in Pruned(loginFailures, now) :
        /\ guesses' = Forget(Evicted(loginFailures, f, now))
        /\ \/ /\ Blocked(f, q, now)
              /\ loginFailures' = [f EXCEPT ![q].lastSeen = now]
              /\ UNCHANGED req
           \/ /\ ~Blocked(f, q, now)
              /\ loginFailures' = IF q \in DOMAIN f /\ now - f[q].firstFailure >= Window
                                  THEN Restrict(f, DOMAIN f \ {q}) ELSE f
  BY DEF Arrive
<1>3. \/ r \notin DOMAIN f /\ guesses'[r] = {}
      \/ /\ guesses'[r] = guesses[r]
         /\ \/ r \notin DOMAIN f /\ r \notin DOMAIN loginFailures
            \/ /\ r \notin DOMAIN f /\ r \in DOMAIN loginFailures
               /\ now >= loginFailures[r].blockedUntil
               /\ now - loginFailures[r].lastSeen >= Window
            \/ /\ r \in DOMAIN f /\ r \in DOMAIN loginFailures
               /\ f[r] = loginFailures[r]
  BY <1>0, <1>2, PruneMoves
<1>4. \/ NoneComes(r)
      \/ /\ r = q
         /\ \A d \in Requests :
              Pending(d, r)' => \/ Pending(d, r) /\ req'[d].at = req[d].at
                                \/ req'[d].at = now
  BY <1>1 DEF NoneComes, Pending
<1>5. DOMAIN loginFailures' \subseteq DOMAIN f
  BY <1>2 DEF Restrict
<1>6. CASE r \notin DOMAIN f
  <2>1. r \notin DOMAIN loginFailures'
    BY <1>5, <1>6
  <2>2. NoneComes(r) \/ OneComes(r)
    BY <1>4, <2>1 DEF OneComes
  <2>3. Forgotten(r) \/ (guesses'[r] = guesses[r] /\ (Absent(r) \/ Expires(r)))
    BY <1>1, <1>3, <1>6, <2>1 DEF Forgotten, Absent, Expires
  <2>4. QED
    BY <1>1, <2>2, <2>3 DEF Aside
<1>7. CASE r \in DOMAIN f
  <2>1. /\ guesses'[r] = guesses[r] /\ r \in DOMAIN loginFailures
        /\ f[r] = loginFailures[r]
    BY <1>3, <1>7
  <2>2. PICK n \in Nat, first \in Nat, until \in Nat, seen \in Nat, old \in Entry :
          /\ old = f[r] /\ old.failures = n /\ old.firstFailure = first
          /\ old.blockedUntil = until /\ old.lastSeen = seen
    BY <2>1 DEF AccessInv, ThrottleTypes, Entry
  <2>3. CASE r # q
    <3>1. r \in DOMAIN loginFailures' /\ loginFailures'[r] = f[r]
      BY <1>2, <1>7, <2>3 DEF Restrict
    <3>2. QED
      BY <1>1, <1>4, <2>1, <2>3, <3>1 DEF Aside, Kept
  <2>4. CASE r = q /\ Blocked(f, q, now)
    <3>1. loginFailures' = [f EXCEPT ![r] = [old EXCEPT !.lastSeen = now]] /\ req' = req
      BY <1>2, <2>2, <2>4
    <3>2. PICK new : new = [old EXCEPT !.lastSeen = now]
      OBVIOUS
    <3>3. r \in DOMAIN loginFailures' /\ loginFailures'[r] = new
      BY <1>7, <3>1, <3>2
    <3>4. old \in Entry
      BY <2>1, <2>2 DEF AccessInv, ThrottleTypes
    <3>5. /\ new.failures = old.failures /\ new.firstFailure = old.firstFailure
          /\ new.blockedUntil = old.blockedUntil /\ new.lastSeen = now
      BY <3>2, <3>4 DEF Entry
    <3>6. Kept(r)
      BY <2>1, <2>2, <3>3, <3>5 DEF Kept
    <3>7. NoneComes(r)
      BY <3>1 DEF NoneComes, Pending
    <3>8. QED
      BY <1>1, <2>1, <3>6, <3>7 DEF Aside
  <2>5. CASE r = q /\ ~Blocked(f, q, now)
    <3>1. now >= until
      BY <1>0, <1>7, <2>2, <2>5 DEF Blocked
    <3>2. CASE now - first >= Window
      <4>1. r \notin DOMAIN loginFailures'
        BY <1>2, <1>7, <2>2, <2>5, <3>2 DEF Restrict
      <4>2. Expires(r)
        BY <2>1, <2>2, <3>1, <3>2, <4>1 DEF Expires
      <4>3. NoneComes(r) \/ OneComes(r)
        BY <1>4, <4>1 DEF OneComes
      <4>4. QED
        BY <1>1, <2>1, <4>2, <4>3 DEF Aside
    <3>3. CASE now - first < Window
      <4>1. loginFailures' = f
        BY <1>0, <1>2, <2>2, <2>5, <3>3, Limits
      <4>2. Kept(r)
        BY <1>7, <2>1, <4>1 DEF Kept
      <4>3. NoneComes(r) \/ OneComes(r)
        BY <1>4, <2>2, <3>1, <3>3, <4>1 DEF OneComes
      <4>4. QED
        BY <1>1, <2>1, <4>2, <4>3 DEF Aside
    <3>4. QED
      BY <1>0, <2>2, <3>2, <3>3, Limits
  <2>6. QED
    BY <2>3, <2>4, <2>5
<1>8. QED
  BY <1>6, <1>7

\* A failure recorded for another remote.
LEMMA OtherFailures ==
  ASSUME AccessInv, ClockInv, NEW c \in Requests, RecordFailure(c),
         NEW r \in Remotes, r # req[c].key
  PROVE  Forgotten(r) \/ Aside(r)
<1>0. now \in Nat /\ req[c].at \in Nat /\ req[c].at <= now /\ req[c].key \in Remotes
  BY StageFields DEF AccessInv, RequestTypes, RecordFailure, ClockInv, Waiting
<1>1. PICK q \in Remotes, t \in Nat : q = req[c].key /\ t = req[c].at /\ t <= now
  BY <1>0
<1>2. PICK f \in Pruned(loginFailures, t) :
        /\ loginFailures' = With(f, q, Recorded(f, q, t))
        /\ guesses' = [Forget(Evicted(loginFailures, f, t)) EXCEPT
             ![q] = @ \cup {Guess(Recorded(f, q, t), t)}]
  BY <1>1 DEF RecordFailure
<1>3. PICK G : G = Forget(Evicted(loginFailures, f, t))
  OBVIOUS
<1>4. guesses'[r] = G[r]
  BY <1>1, <1>2, <1>3 DEF Forget
<1>5. \/ r \notin DOMAIN f /\ G[r] = {}
      \/ /\ G[r] = guesses[r]
         /\ \/ r \notin DOMAIN f /\ r \notin DOMAIN loginFailures
            \/ /\ r \notin DOMAIN f /\ r \in DOMAIN loginFailures
               /\ now >= loginFailures[r].blockedUntil
               /\ now - loginFailures[r].lastSeen >= Window
            \/ /\ r \in DOMAIN f /\ r \in DOMAIN loginFailures
               /\ f[r] = loginFailures[r]
  BY <1>0, <1>1, <1>3, PruneMoves
<1>6. /\ r \in DOMAIN loginFailures' <=> r \in DOMAIN f
      /\ r \in DOMAIN f => loginFailures'[r] = f[r]
  <2>1. PICK new : new = Recorded(f, q, t)
    OBVIOUS
  <2>2. loginFailures' = With(f, q, new)
    BY <1>2, <2>1
  <2>3. DOMAIN loginFailures' = DOMAIN f \cup {q}
        /\ \A x \in DOMAIN f \ {q} : loginFailures'[x] = f[x]
    BY <2>2 DEF With
  <2>4. QED
    BY <1>1, <2>3
<1>7. now' = now /\ NoneComes(r)
  <2>1. ~ (\E x \in Remotes, p \in Passwords : Arrive(c, x, p))
    BY StageStates DEF RecordFailure, Arrive
  <2>2. LoginStep(c)
    BY DEF LoginStep
  <2>3. QED
    BY <2>1, <2>2, WaitingMoves DEF NoneComes, Pending
<1>8. QED
  BY <1>4, <1>5, <1>6, <1>7 DEF Forgotten, Aside, Kept, Absent, Expires

---------------------------------------------------------------------------
(* The throttle: the guesses, their runs and the remote's entry.           *)

\* A guess is numbered in its run, from the first failure on; what is known of an
\* earlier run, of which g is, once a later one began at `first'.
Earlier(g, first) == g.first + Window - 2 * MaxLogin <= first /\ g.at <= first + MaxLogin

RunInv(r) ==
  /\ IsFiniteSet(guesses[r])
  /\ \A g \in guesses[r] :
       /\ g.count >= 1 /\ g.at <= now
       /\ g.count = 1 => g.at = g.first
  /\ \A g, h \in guesses[r] :
       /\ g.first = h.first /\ g.count = h.count => g = h
       /\ g.first < h.first =>
            /\ Earlier(g, h.first)
            /\ g.first + Window - 2 * MaxLogin <= h.at

\* The entry is that of the latest run, and no login still waiting comes too late to
\* be counted in it; a run whose entry is gone has had its time.
EntryInv(r) ==
  /\ r \in DOMAIN loginFailures =>
       /\ loginFailures[r].firstFailure <= now
       /\ loginFailures[r].firstFailure <= loginFailures[r].lastSeen + MaxLogin
       /\ loginFailures[r].failures >= 1
       /\ \A c \in Requests :
            Pending(c, r) => req[c].at < loginFailures[r].firstFailure + Window
       /\ \A g \in guesses[r] :
            \/ /\ g.first = loginFailures[r].firstFailure
               /\ g.count <= loginFailures[r].failures
            \/ Earlier(g, loginFailures[r].firstFailure)
  /\ \A g \in guesses[r] :
       \/ r \in DOMAIN loginFailures /\ loginFailures[r].firstFailure = g.first
       \/ g.first + Window - MaxLogin <= now

\* A failure of the remote's is recorded as guess g: one more of the run that goes
\* on, or the first of a new run, when what was counted before is forgotten or its
\* time was over.
GoesOn(r, g) ==
  /\ r \in DOMAIN loginFailures /\ guesses'[r] = guesses[r] \cup {g}
  /\ g.first = loginFailures[r].firstFailure /\ g.count = loginFailures[r].failures + 1
  /\ loginFailures'[r].blockedUntil =
       IF g.count >= Limit THEN g.at + Block ELSE loginFailures[r].blockedUntil
Begins(r, g) ==
  /\ g.first = g.at /\ g.count = 1
  /\ \/ guesses'[r] = {g}
     \/ /\ guesses'[r] = guesses[r] \cup {g}
        /\ r \in DOMAIN loginFailures =>
             /\ now >= loginFailures[r].blockedUntil
             /\ g.at >= loginFailures[r].lastSeen + Window
Records(c, r, g) ==
  /\ now' = now /\ Pending(c, r) /\ ~Pending(c, r)' /\ NoneComes(r)
  /\ g.at = req[c].at /\ r \in DOMAIN loginFailures'
  /\ loginFailures'[r].failures = g.count /\ loginFailures'[r].firstFailure = g.first
  /\ loginFailures'[r].lastSeen = g.at
  /\ GoesOn(r, g) \/ Begins(r, g)

\* A failure recorded for the remote is one of these.
LEMMA RecordMoves ==
  ASSUME AccessInv, ClockInv, NEW c \in Requests, RecordFailure(c),
         NEW r \in Remotes, r = req[c].key, EntryInv(r)
  PROVE  \E g \in Guesses : Records(c, r, g)
<1>0. /\ now \in Nat /\ req[c].at \in Nat /\ req[c].at <= now
      /\ req[c].stage = "refused" /\ req[c].stage \in Waiting
  BY StageFields DEF AccessInv, RequestTypes, RecordFailure, ClockInv, Waiting
<1>1. PICK t \in Nat : t = req[c].at /\ t <= now
  BY <1>0
<1>2. PICK f \in Pruned(loginFailures, t) :
        /\ loginFailures' = With(f, r, Recorded(f, r, t))
        /\ guesses' = [Forget(Evicted(loginFailures, f, t)) EXCEPT
             ![r] = @ \cup {Guess(Recorded(f, r, t), t)}]
  BY <1>1 DEF RecordFailure
<1>3. PICK G : G = Forget(Evicted(loginFailures, f, t))
  OBVIOUS
<1>4. \/ r \notin DOMAIN f /\ G[r] = {}
      \/ /\ G[r] = guesses[r]
         /\ \/ r \notin DOMAIN f /\ r \notin DOMAIN loginFailures
            \/ /\ r \notin DOMAIN f /\ r \in DOMAIN loginFailures
               /\ now >= loginFailures[r].blockedUntil
               /\ t >= loginFailures[r].lastSeen + Window
            \/ /\ r \in DOMAIN f /\ r \in DOMAIN loginFailures
               /\ f[r] = loginFailures[r]
  BY <1>0, <1>1, <1>3, PruneMoves
<1>5. r \in DOMAIN f => f[r] \in Entry
  BY <1>4, PrunedEntries DEF AccessInv, ThrottleTypes
<1>6. PICK e \in Entry :
        /\ e = Recorded(f, r, t)
        /\ \/ /\ r \in DOMAIN f /\ t - f[r].firstFailure < Window
              /\ e = [failures |-> f[r].failures + 1, firstFailure |-> f[r].firstFailure,
                      blockedUntil |-> IF f[r].failures + 1 >= Limit THEN t + Block
                                       ELSE f[r].blockedUntil,
                      lastSeen |-> t]
           \/ /\ r \in DOMAIN f => t - f[r].firstFailure >= Window
              /\ e = [failures |-> 1, firstFailure |-> t, blockedUntil |-> 0,
                      lastSeen |-> t]
  BY <1>5, RecordedEntry
<1>7. PICK g \in Guesses : /\ g = Guess(e, t) /\ g.first = e.firstFailure
                           /\ g.count = e.failures /\ g.at = t
  <2>1. Guess(e, t) \in Guesses
    BY DEF Guess, Guesses, Entry
  <2>2. /\ Guess(e, t).first = e.firstFailure /\ Guess(e, t).count = e.failures
        /\ Guess(e, t).at = t
    BY DEF Guess
  <2>3. QED
    BY <2>1, <2>2
<1>8. /\ r \in DOMAIN loginFailures' /\ loginFailures'[r] = e
      /\ guesses'[r] = G[r] \cup {g}
  <2>1. loginFailures' = With(f, r, e)
    BY <1>2, <1>6
  <2>2. guesses' = [G EXCEPT ![r] = @ \cup {g}]
    BY <1>2, <1>3, <1>6, <1>7
  <2>3. r \in DOMAIN G
    BY <1>3 DEF Forget
  <2>4. QED
    BY <2>1, <2>2, <2>3 DEF With
<1>9. now' = now /\ NoneComes(r) /\ Pending(c, r) /\ ~Pending(c, r)'
  <2>1. ~ (\E x \in Remotes, p \in Passwords : Arrive(c, x, p))
    BY StageStates DEF RecordFailure, Arrive
  <2>2. LoginStep(c)
    BY DEF LoginStep
  <2>3. req'[c].stage \notin Waiting
    BY StageStates DEF RecordFailure, AccessInv, RequestTypes, Waiting
  <2>4. QED
    BY <1>0, <2>1, <2>2, <2>3, WaitingMoves DEF NoneComes, Pending
<1>10. /\ g.at = req[c].at /\ e.failures = g.count /\ e.firstFailure = g.first
       /\ e.lastSeen = g.at
  BY <1>1, <1>6, <1>7
<1>11. GoesOn(r, g) \/ Begins(r, g)
  <2>1. CASE r \notin DOMAIN f
    <3>1. e.failures = 1 /\ e.firstFailure = t
      BY <1>6, <2>1
    <3>2. Begins(r, g)
      BY <1>4, <1>7, <1>8, <2>1, <3>1 DEF Begins
    <3>3. QED
      BY <3>2
  <2>2. CASE r \in DOMAIN f
    <3>1. /\ G[r] = guesses[r] /\ r \in DOMAIN loginFailures
          /\ f[r] = loginFailures[r]
      BY <1>4, <2>2
    <3>2. PICK n \in Nat, first \in Nat, until \in Nat :
            /\ loginFailures[r].failures = n /\ loginFailures[r].firstFailure = first
            /\ loginFailures[r].blockedUntil = until
      BY <1>5, <2>2, <3>1 DEF Entry
    <3>3. t < first + Window
      BY <1>1, <1>9, <3>1, <3>2 DEF EntryInv
    <3>4. t - first < Window
      BY <3>3, Limits
    <3>5. e = [failures |-> n + 1, firstFailure |-> first,
               blockedUntil |-> IF n + 1 >= Limit THEN t + Block ELSE until,
               lastSeen |-> t]
      BY <1>6, <2>2, <3>1, <3>2, <3>4, Limits
    <3>6. /\ e.failures = n + 1 /\ e.firstFailure = first
          /\ e.blockedUntil = IF n + 1 >= Limit THEN t + Block ELSE until
      BY <3>5
    <3>7. GoesOn(r, g)
      BY <1>7, <1>8, <3>1, <3>2, <3>6 DEF GoesOn
    <3>8. QED
      BY <3>7
  <2>3. QED
    BY <2>1, <2>2
<1>12. QED
  BY <1>8, <1>9, <1>10, <1>11 DEF Records

Passes == now' = now + 1 /\ UNCHANGED <<req, loginFailures, guesses>>

\* What any step does to one remote's throttle.
LEMMA ThrottleMoves ==
  ASSUME AccessInv, ClockInv, [AccessNext]_accessVars, NEW r \in Remotes, EntryInv(r)
  PROVE  \/ Passes \/ Forgotten(r) \/ Aside(r)
         \/ \E c \in Requests, g \in Guesses : Records(c, r, g)
<1>1. ASSUME UNCHANGED <<now, loginFailures, guesses>>, NoneComes(r)
      PROVE  Aside(r)
  BY <1>1 DEF Aside, Kept, Absent
<1>2. CASE AccessTick
  BY <1>2 DEF AccessTick, throttle, Passes
<1>3. CASE Start \/ Stop
  BY <1>3 DEF Start, Stop, Forgotten, NoGuesses
<1>4. CASE KeyStep \/ (\E t \in Tokens : Logout(t)) \/ UNCHANGED accessVars
  <2>1. UNCHANGED <<now, req, loginFailures, guesses>>
    BY <1>4
    DEF KeyStep, CreateAPIKey, RevokeAPIKey, Logout, accessVars, clock, throttle
  <2>2. NoneComes(r)
    BY <2>1 DEF NoneComes, Pending
  <2>3. QED
    BY <1>1, <2>1, <2>2
<1>5. ASSUME NEW c \in Requests, LoginStep(c) \/ ChangeStep(c)
      PROVE  \/ Forgotten(r) \/ Aside(r)
             \/ \E d \in Requests, g \in Guesses : Records(d, r, g)
  <2>1. CASE \E q \in Remotes, p \in Passwords : Arrive(c, q, p)
    BY <2>1, ArrivalEntries
  <2>2. CASE RecordFailure(c)
    BY <2>2, RecordMoves, OtherFailures
  <2>3. CASE ~ (\E q \in Remotes, p \in Passwords : Arrive(c, q, p))
    <3>1. now' = now /\ NoneComes(r)
      BY <1>5, <2>3, WaitingMoves DEF NoneComes, Pending
    <3>2. CASE AnswerLogin(c)
      <4>1. PICK q : q = req[c].key
        OBVIOUS
      <4>2. /\ loginFailures' = Restrict(loginFailures, DOMAIN loginFailures \ {q})
            /\ guesses' = Forget({q})
        BY <3>2, <4>1 DEF AnswerLogin
      <4>3. CASE r = q
        BY <3>1, <4>2, <4>3 DEF Forget, NoGuesses, Restrict, Forgotten
      <4>4. CASE r # q
        <5>1. guesses'[r] = guesses[r]
          BY <4>2, <4>4 DEF Forget
        <5>2. /\ r \in DOMAIN loginFailures' <=> r \in DOMAIN loginFailures
              /\ r \in DOMAIN loginFailures => loginFailures'[r] = loginFailures[r]
          BY <4>2, <4>4 DEF Restrict
        <5>3. QED
          BY <3>1, <5>1, <5>2 DEF Aside, Kept, Absent
      <4>5. QED
        BY <4>3, <4>4
    <3>3. CASE TurnAway(c) \/ ReadHash(c) \/ OpenSession(c) \/ RefuseLogin(c) \/ LoginBusy(c)
               \/ ChangeStep(c)
      <4>1. UNCHANGED <<loginFailures, guesses>>
        BY <3>3
        DEF TurnAway, ReadHash, OpenSession, RefuseLogin, LoginBusy, ChangeStep, AskChange,
            VerifyChange, CommitChange, FailChange, throttle
      <4>2. QED
        BY <1>1, <3>1, <4>1
    <3>4. QED
      BY <1>5, <2>2, <2>3, <3>2, <3>3 DEF LoginStep
  <2>4. QED
    BY <2>1, <2>3
<1>6. QED
  BY <1>2, <1>3, <1>4, <1>5 DEF AccessNext

\* What the proofs below need of the types.
LEMMA ThrottleNumbers ==
  ASSUME AccessInv, NEW r \in Remotes
  PROVE  /\ now \in Nat
         /\ \A g \in guesses[r] : g.first \in Nat /\ g.count \in Nat /\ g.at \in Nat
         /\ r \in DOMAIN loginFailures =>
              /\ loginFailures[r].failures \in Nat /\ loginFailures[r].firstFailure \in Nat
              /\ loginFailures[r].blockedUntil \in Nat /\ loginFailures[r].lastSeen \in Nat
         /\ \A c \in Requests : Pending(c, r) => req[c].at \in Nat
<1>1. now \in Nat /\ \A c \in Requests : Pending(c, r) => req[c].at \in Nat
  BY StageFields DEF AccessInv, RequestTypes, Pending, Waiting
<1>2. \A g \in guesses[r] : g.first \in Nat /\ g.count \in Nat /\ g.at \in Nat
  <2>1. guesses[r] \subseteq Guesses
    BY DEF AccessInv, ThrottleTypes
  <2>2. QED
    BY <2>1 DEF Guesses
<1>3. r \in DOMAIN loginFailures => loginFailures[r] \in Entry
  BY DEF AccessInv, ThrottleTypes
<1>4. QED
  BY <1>1, <1>2, <1>3 DEF Entry

\* A login of the remote that waits did not start long ago.
LEMMA PendingSince ==
  ASSUME AccessInv, ClockInv, NEW r \in Remotes, NEW c \in Requests, Pending(c, r)
  PROVE  req[c].at \in Nat /\ req[c].at <= now /\ now <= req[c].at + MaxLogin
BY ThrottleNumbers DEF ClockInv, Pending

\* What is known of the guesses when another is recorded: those of other runs are
\* of runs that had their time.
LEMMA RecordedRuns ==
  ASSUME AccessInv, ClockInv, NEW r \in Remotes, RunInv(r), EntryInv(r),
         NEW c \in Requests, NEW g \in Guesses, Records(c, r, g)
  PROVE  /\ guesses'[r] \subseteq guesses[r] \cup {g} /\ g \in guesses'[r]
         /\ IsFiniteSet(guesses'[r])
         /\ g.count >= 1 /\ g.at <= now /\ now <= g.at + MaxLogin
         /\ g.count = 1 => g.at = g.first
         /\ g.first <= now
         /\ \A h \in guesses'[r] \ {g} :
              \/ h.first = g.first /\ h.count < g.count
              \/ Earlier(h, g.first) /\ h.first + Window - MaxLogin <= now
<1>0. g.first \in Nat /\ g.count \in Nat /\ g.at \in Nat /\ now \in Nat
  BY ThrottleNumbers DEF Guesses
<1>1. g.at <= now /\ now <= g.at + MaxLogin /\ g.at = req[c].at /\ Pending(c, r)
  BY PendingSince DEF Records
<1>2. /\ guesses'[r] \subseteq guesses[r] \cup {g} /\ g \in guesses'[r]
      /\ guesses'[r] = {g} \/ guesses'[r] = guesses[r] \cup {g}
  BY DEF Records, GoesOn, Begins
<1>3. IsFiniteSet(guesses'[r])
  <2>1. IsFiniteSet(guesses[r])
    BY DEF RunInv
  <2>2. IsFiniteSet(guesses[r] \cup {g})
    BY <2>1, FS_AddElement
  <2>3. IsFiniteSet({g})
    BY FS_Singleton
  <2>4. QED
    BY <1>2, <2>2, <2>3
<1>4. CASE GoesOn(r, g)
  <2>1. PICK n \in Nat, first \in Nat :
          /\ r \in DOMAIN loginFailures
          /\ n = loginFailures[r].failures /\ first = loginFailures[r].firstFailure
          /\ g.first = first /\ g.count = n + 1
    BY <1>4, ThrottleNumbers DEF GoesOn
  <2>2. n >= 1 /\ first <= now
    BY <2>1 DEF EntryInv
  <2>3. ASSUME NEW h \in guesses[r]
        PROVE  \/ h.first = g.first /\ h.count < g.count
               \/ Earlier(h, g.first) /\ h.first + Window - MaxLogin <= now
    <3>1. PICK x \in Nat, k \in Nat : x = h.first /\ k = h.count
      BY ThrottleNumbers
    <3>2. (x = first /\ k <= n) \/ Earlier(h, first)
      BY <2>1, <3>1 DEF EntryInv
    <3>3. x = first \/ x + Window - MaxLogin <= now
      BY <2>1, <3>1 DEF EntryInv
    <3>4. Earlier(h, first) => x + Window - 2 * MaxLogin <= first
      BY <3>1 DEF Earlier
    <3>5. (x = first /\ k < n + 1) \/ (Earlier(h, first) /\ x + Window - MaxLogin <= now)
      BY <3>1, <3>2, <3>3, <3>4, Limits
    <3>6. QED
      BY <2>1, <3>1, <3>5
  <2>4. QED
    BY <1>0, <1>1, <1>2, <1>3, <2>1, <2>2, <2>3
<1>5. CASE Begins(r, g)
  <2>1. g.first = g.at /\ g.count = 1
    BY <1>5 DEF Begins
  <2>2. ASSUME NEW h \in guesses'[r] \ {g}
        PROVE  Earlier(h, g.first) /\ h.first + Window - MaxLogin <= now
    <3>1. h \in guesses[r] /\ guesses'[r] # {g}
      BY <1>2, <2>2
    <3>2. PICK x \in Nat, at \in Nat : x = h.first /\ at = h.at /\ at <= now
      BY <3>1, ThrottleNumbers DEF RunInv
    <3>3. x + Window - MaxLogin <= now
      <4>1. CASE r \in DOMAIN loginFailures /\ loginFailures[r].firstFailure = x
        <5>1. PICK seen \in Nat : seen = loginFailures[r].lastSeen
          BY <4>1, ThrottleNumbers
        <5>2. x <= seen + MaxLogin
          BY <4>1, <5>1 DEF EntryInv
        <5>3. g.at >= seen + Window
          BY <1>5, <3>1, <4>1, <5>1 DEF Begins
        <5>4. QED
          BY <1>0, <1>1, <5>2, <5>3, Limits
      <4>2. CASE ~ (r \in DOMAIN loginFailures /\ loginFailures[r].firstFailure = x)
        BY <3>1, <3>2, <4>2 DEF EntryInv
      <4>3. QED
        BY <4>1, <4>2
    <3>4. x + Window - 2 * MaxLogin <= g.first /\ at <= g.first + MaxLogin
      BY <1>0, <1>1, <2>1, <3>2, <3>3, Limits
    <3>5. QED
      BY <3>2, <3>3, <3>4 DEF Earlier
  <2>3. QED
    BY <1>0, <1>1, <1>2, <1>3, <2>1, <2>2
<1>6. QED
  BY <1>4, <1>5 DEF Records

\* The runs stay apart.
LEMMA StepRuns ==
  ASSUME AccessInv, AccessInv', ClockInv, [AccessNext]_accessVars, NEW r \in Remotes,
         RunInv(r), EntryInv(r)
  PROVE  RunInv(r)'
<1>0. now \in Nat
  BY ThrottleNumbers
<1>1. CASE Passes \/ Aside(r)
  <2>1. guesses'[r] = guesses[r] /\ (now' = now \/ now' = now + 1)
    BY <1>1 DEF Passes, Aside
  <2>2. \A g \in guesses[r] : g.at \in Nat /\ g.at <= now'
    BY <1>0, <2>1, ThrottleNumbers DEF RunInv
  <2>3. QED
    BY <2>1, <2>2 DEF RunInv
<1>2. CASE Forgotten(r)
  BY <1>2, FS_EmptySet DEF Forgotten, RunInv
<1>3. ASSUME NEW c \in Requests, NEW g \in Guesses, Records(c, r, g)
      PROVE  RunInv(r)'
  <2>1. /\ guesses'[r] \subseteq guesses[r] \cup {g} /\ g \in guesses'[r]
        /\ IsFiniteSet(guesses'[r])
        /\ g.count >= 1 /\ g.at <= now /\ now <= g.at + MaxLogin
        /\ g.count = 1 => g.at = g.first
        /\ \A h \in guesses'[r] \ {g} :
             \/ h.first = g.first /\ h.count < g.count
             \/ Earlier(h, g.first) /\ h.first + Window - MaxLogin <= now
    BY <1>3, RecordedRuns
  <2>2. now' = now
    BY <1>3 DEF Records
  <2>3. g.first \in Nat /\ g.count \in Nat /\ g.at \in Nat
    BY DEF Guesses
  <2>4. \A h \in guesses'[r] :
          /\ h.count >= 1 /\ h.at <= now
          /\ h.count = 1 => h.at = h.first
    BY <2>1 DEF RunInv
  <2>5. ASSUME NEW h \in guesses'[r] \ {g}
        PROVE  /\ ~ (h.first = g.first /\ h.count = g.count)
               /\ ~ (g.first < h.first)
               /\ h.first < g.first =>
                    /\ Earlier(h, g.first)
                    /\ h.first + Window - 2 * MaxLogin <= g.at
    <3>1. PICK x \in Nat, k \in Nat : x = h.first /\ k = h.count
      BY <2>1, <2>5, ThrottleNumbers
    <3>2. \/ x = g.first /\ k < g.count
          \/ Earlier(h, g.first) /\ x + Window - MaxLogin <= now
      BY <2>1, <2>5, <3>1
    <3>3. Earlier(h, g.first) => x + Window - 2 * MaxLogin <= g.first
      BY <3>1 DEF Earlier
    <3>4. ~ (x = g.first /\ k = g.count) /\ ~ (g.first < x)
      BY <2>3, <3>2, <3>3, Limits
    <3>5. x < g.first => Earlier(h, g.first) /\ x + Window - 2 * MaxLogin <= g.at
      BY <1>0, <2>1, <2>3, <3>2, Limits
    <3>6. QED
      BY <3>1, <3>4, <3>5
  <2>6. ASSUME NEW h \in guesses'[r], NEW i \in guesses'[r]
        PROVE  /\ h.first = i.first /\ h.count = i.count => h = i
               /\ h.first < i.first =>
                    /\ Earlier(h, i.first)
                    /\ h.first + Window - 2 * MaxLogin <= i.at
    <3>1. CASE h = g /\ i = g
      BY <2>3, <3>1
    <3>2. CASE h = g /\ i # g
      BY <2>5, <3>2
    <3>3. CASE h # g /\ i = g
      BY <2>5, <3>3
    <3>4. CASE h # g /\ i # g
      BY <2>1, <3>4 DEF RunInv
    <3>5. QED
      BY <3>1, <3>2, <3>3, <3>4
  <2>7. QED
    BY <2>1, <2>2, <2>4, <2>6 DEF RunInv, Earlier
<1>4. QED
  BY <1>1, <1>2, <1>3, ThrottleMoves

\* The entry stays that of the latest run.
LEMMA StepEntry ==
  ASSUME AccessInv, AccessInv', ClockInv, [AccessNext]_accessVars, NEW r \in Remotes,
         RunInv(r), EntryInv(r)
  PROVE  EntryInv(r)'
<1>0. now \in Nat
  BY ThrottleNumbers
<1>1. CASE Passes
  <2>1. /\ now' = now + 1 /\ guesses' = guesses /\ loginFailures' = loginFailures
        /\ req' = req
    BY <1>1 DEF Passes
  <2>2. /\ r \in DOMAIN loginFailures => loginFailures[r].firstFailure <= now'
        /\ \A g \in guesses[r] :
             g.first + Window - MaxLogin <= now => g.first + Window - MaxLogin <= now'
    <3>1. \A g \in guesses[r] : g.first \in Nat
      BY ThrottleNumbers
    <3>2. QED
      BY <1>0, <2>1, <3>1, ThrottleNumbers, Limits DEF EntryInv
  <2>3. QED
    BY <2>1, <2>2 DEF EntryInv, Pending
<1>2. CASE Forgotten(r)
  BY <1>2 DEF Forgotten, EntryInv
<1>3. CASE Aside(r)
  <2>1. now' = now /\ guesses'[r] = guesses[r]
    BY <1>3 DEF Aside
  <2>2. CASE Kept(r)
    <3>1. PICK n \in Nat, first \in Nat, seen \in Nat :
            /\ r \in DOMAIN loginFailures /\ r \in DOMAIN loginFailures'
            /\ n = loginFailures[r].failures /\ first = loginFailures[r].firstFailure
            /\ n = loginFailures'[r].failures /\ first = loginFailures'[r].firstFailure
            /\ seen = loginFailures'[r].lastSeen
            /\ seen = loginFailures[r].lastSeen \/ seen = now
      <4>1. r \in DOMAIN loginFailures /\ r \in DOMAIN loginFailures'
        BY <2>2 DEF Kept
      <4>2. /\ loginFailures[r].failures \in Nat /\ loginFailures[r].firstFailure \in Nat
            /\ loginFailures[r].lastSeen \in Nat
        BY <4>1, ThrottleNumbers
      <4>3. QED
        BY <1>0, <2>2, <4>1, <4>2 DEF Kept
    <3>2. first <= now /\ first <= seen + MaxLogin /\ n >= 1
      BY <1>0, <3>1, Limits DEF EntryInv
    <3>3. ASSUME NEW c \in Requests, Pending(c, r)'
          PROVE  req'[c].at < first + Window
      <4>1. CASE Pending(c, r) /\ req'[c].at = req[c].at
        BY <3>1, <4>1 DEF EntryInv
      <4>2. CASE req'[c].at = now /\ now - first < Window
        BY <1>0, <3>1, <4>2, Limits
      <4>3. QED
        BY <1>3, <3>1, <3>3, <4>1, <4>2 DEF Aside, NoneComes, OneComes
    <3>4. /\ \A g \in guesses[r] : (g.first = first /\ g.count <= n) \/ Earlier(g, first)
          /\ \A g \in guesses[r] : first = g.first \/ g.first + Window - MaxLogin <= now
      BY <3>1 DEF EntryInv
    <3>5. QED
      BY <2>1, <3>1, <3>2, <3>3, <3>4 DEF EntryInv, Earlier
  <2>3. CASE Absent(r)
    BY <2>1, <2>3 DEF Absent, EntryInv
  <2>4. CASE Expires(r)
    <3>1. PICK first \in Nat, seen \in Nat :
            /\ r \in DOMAIN loginFailures /\ first = loginFailures[r].firstFailure
            /\ seen = loginFailures[r].lastSeen
      BY <2>4, ThrottleNumbers DEF Expires
    <3>2. now - seen >= Window \/ now - first >= Window
      BY <2>4, <3>1 DEF Expires
    <3>3. first <= seen + MaxLogin
      BY <3>1 DEF EntryInv
    <3>4. first + Window - MaxLogin <= now
      BY <1>0, <3>2, <3>3, Limits
    <3>5. \A g \in guesses[r] : g.first + Window - MaxLogin <= now
      BY <3>1, <3>4 DEF EntryInv
    <3>6. QED
      BY <2>1, <2>4, <3>5 DEF Expires, EntryInv
  <2>5. QED
    BY <1>3, <2>2, <2>3, <2>4 DEF Aside
<1>4. ASSUME NEW c \in Requests, NEW g \in Guesses, Records(c, r, g)
      PROVE  EntryInv(r)'
  <2>1. /\ guesses'[r] \subseteq guesses[r] \cup {g} /\ g \in guesses'[r]
        /\ g.count >= 1 /\ g.at <= now /\ now <= g.at + MaxLogin /\ g.first <= now
        /\ \A h \in guesses'[r] \ {g} :
             \/ h.first = g.first /\ h.count < g.count
             \/ Earlier(h, g.first) /\ h.first + Window - MaxLogin <= now
    BY <1>4, RecordedRuns
  <2>2. /\ now' = now /\ r \in DOMAIN loginFailures'
        /\ loginFailures'[r].failures = g.count /\ loginFailures'[r].firstFailure = g.first
        /\ loginFailures'[r].lastSeen = g.at
    BY <1>4 DEF Records
  <2>3. g.first \in Nat /\ g.count \in Nat /\ g.at \in Nat
    BY DEF Guesses
  <2>4. g.first <= g.at + MaxLogin
    BY <1>0, <2>1, <2>3, Limits
  <2>5. ASSUME NEW d \in Requests, Pending(d, r)'
        PROVE  req'[d].at < g.first + Window
    <3>1. Pending(d, r) /\ req'[d].at = req[d].at
      BY <1>4, <2>5 DEF Records, NoneComes
    <3>2. PICK at \in Nat : at = req[d].at /\ at <= now
      BY <3>1, PendingSince
    <3>3. CASE GoesOn(r, g)
      BY <3>1, <3>3 DEF GoesOn, EntryInv
    <3>4. CASE Begins(r, g)
      <4>1. g.first = g.at
        BY <3>4 DEF Begins
      <4>2. at < g.first + Window
        BY <1>0, <2>1, <2>3, <3>2, <4>1, Limits
      <4>3. QED
        BY <3>1, <3>2, <4>2
    <3>5. QED
      BY <1>4, <3>3, <3>4 DEF Records
  <2>6. ASSUME NEW h \in guesses'[r]
        PROVE  /\ (h.first = g.first /\ h.count <= g.count) \/ Earlier(h, g.first)
               /\ g.first = h.first \/ h.first + Window - MaxLogin <= now
    <3>1. CASE h = g
      BY <2>3, <3>1
    <3>2. CASE h # g
      <4>1. PICK k \in Nat : k = h.count
        BY <2>1, <3>2, ThrottleNumbers
      <4>2. k < g.count => k <= g.count
        BY <2>3
      <4>3. QED
        BY <2>1, <3>2, <4>1, <4>2
    <3>3. QED
      BY <3>1, <3>2
  <2>7. QED
    BY <2>1, <2>2, <2>4, <2>5, <2>6 DEF EntryInv, Earlier
<1>5. QED
  BY <1>1, <1>2, <1>3, <1>4, ThrottleMoves

---------------------------------------------------------------------------
(* The throttle: what is still to come of the logins of a block's length.  *)

\* The guesses from the limit on of logins started in the block's length from x, and
\* the logins of the remote still waiting, started within it or before it.
Past(r, x) == {g \in StartedWithin(r, x) : g.count >= Limit}
Within(r, x) == {c \in Requests : Pending(c, r) /\ req[c].at \in x .. x + Block - 1}
Before(r, x) == {c \in Requests : Pending(c, r) /\ req[c].at < x}

\* Of p such guesses, with w and b logins waiting: there is none; or the remote is
\* blocked until the length is over; or an earlier login's failure has moved the end
\* of the block into its last MaxLogin; or it is in those; or it is over.
Phase(x, p, w, b, listed, until, time) ==
  \/ p = 0
  \/ /\ listed /\ until >= x + Block
     /\ \/ p + w + b <= Cardinality(Requests)
        \/ b = 0 /\ p + w <= 2 * Cardinality(Requests) - 1
  \/ /\ listed /\ until < x + Block /\ until >= x + Block - MaxLogin
     /\ p + w + b < Cardinality(Requests)
  \/ time >= x + Block - MaxLogin /\ p < Cardinality(Requests)
  \/ time >= x + Block /\ p + w <= 2 * Cardinality(Requests) - 1

PhaseInv(r, x) ==
  Phase(x, Cardinality(Past(r, x)), Cardinality(Within(r, x)), Cardinality(Before(r, x)),
        r \in DOMAIN loginFailures, loginFailures[r].blockedUntil, now)

\* The three sets are finite, and there are no more waiting logins than requests.
LEMMA PhaseCounts ==
  ASSUME AccessInv, NEW r \in Remotes, RunInv(r), NEW x \in Nat
  PROVE  /\ IsFiniteSet(Past(r, x)) /\ Cardinality(Past(r, x)) \in Nat
         /\ IsFiniteSet(Within(r, x)) /\ Cardinality(Within(r, x)) \in Nat
         /\ IsFiniteSet(Before(r, x)) /\ Cardinality(Before(r, x)) \in Nat
         /\ Cardinality(Requests) \in Nat /\ Cardinality(Requests) >= 1
         /\ Cardinality(Within(r, x)) + Cardinality(Before(r, x)) <= Cardinality(Requests)
<1>1. IsFiniteSet(guesses[r]) /\ IsFiniteSet(Requests) /\ Requests # {}
  BY Limits DEF RunInv
<1>2. Past(r, x) \subseteq guesses[r]
  BY DEF Past, StartedWithin
<1>3. Within(r, x) \subseteq Requests /\ Before(r, x) \subseteq Requests
  BY DEF Within, Before
<1>4. IsFiniteSet(Past(r, x)) /\ IsFiniteSet(Within(r, x)) /\ IsFiniteSet(Before(r, x))
  BY <1>1, <1>2, <1>3, FS_Subset
<1>5. PICK p \in Nat, w \in Nat, b \in Nat, n \in Nat :
        /\ p = Cardinality(Past(r, x)) /\ w = Cardinality(Within(r, x))
        /\ b = Cardinality(Before(r, x)) /\ n = Cardinality(Requests)
  BY <1>1, <1>4, FS_CardinalityType
<1>6. n # 0
  BY <1>1, <1>5, FS_EmptySet
<1>7. Within(r, x) \cap Before(r, x) = {}
  BY ThrottleNumbers DEF Within, Before
<1>8. Cardinality(Within(r, x) \cup Before(r, x)) = w + b - 0
  <2>1. Cardinality(Within(r, x) \cup Before(r, x)) =
          Cardinality(Within(r, x)) + Cardinality(Before(r, x))
            - Cardinality(Within(r, x) \cap Before(r, x))
    BY <1>4, FS_Union
  <2>2. Cardinality(Within(r, x) \cap Before(r, x)) = 0
    BY <1>7, FS_EmptySet
  <2>3. QED
    BY <1>5, <2>1, <2>2
<1>9. Cardinality(Within(r, x) \cup Before(r, x)) <= n
  <2>1. Within(r, x) \cup Before(r, x) \in SUBSET Requests
    BY <1>3
  <2>2. QED
    BY <1>1, <1>5, <2>1, FS_Subset
<1>10. w + b <= n /\ n >= 1
  BY <1>6, <1>8, <1>9
<1>11. QED
  BY <1>4, <1>5, <1>10

\* Some of a finite set are no more than all of it.
LEMMA FewerOf ==
  ASSUME NEW S, IsFiniteSet(S), NEW T, T \subseteq S
  PROVE  IsFiniteSet(T) /\ Cardinality(T) \in Nat /\ Cardinality(T) <= Cardinality(S)
BY FS_Subset, FS_CardinalityType

\* As time passes.
LEMMA PhasePasses ==
  ASSUME AccessInv, NEW r \in Remotes, RunInv(r), NEW x \in Nat, PhaseInv(r, x), Passes
  PROVE  PhaseInv(r, x)'
<1>1. PICK p \in Nat, w \in Nat, b \in Nat, n \in Nat :
        /\ p = Cardinality(Past(r, x)) /\ w = Cardinality(Within(r, x))
        /\ b = Cardinality(Before(r, x)) /\ n = Cardinality(Requests)
  BY PhaseCounts
<1>2. /\ p = Cardinality(Past(r, x)') /\ w = Cardinality(Within(r, x)')
      /\ b = Cardinality(Before(r, x)')
  BY <1>1 DEF Passes, Past, StartedWithin, Within, Before, Pending
<1>3. now \in Nat /\ now' = now + 1 /\ loginFailures' = loginFailures
  BY ThrottleNumbers DEF Passes
<1>4. Phase(x, p, w, b, r \in DOMAIN loginFailures, loginFailures[r].blockedUntil, now)
  BY <1>1 DEF PhaseInv
<1>5. Phase(x, p, w, b, r \in DOMAIN loginFailures, loginFailures[r].blockedUntil, now + 1)
  BY <1>1, <1>3, <1>4, Limits DEF Phase
<1>6. QED
  BY <1>2, <1>3, <1>5 DEF PhaseInv

\* As logins come and go, and the entry ends.
LEMMA PhaseAside ==
  ASSUME AccessInv, NEW r \in Remotes, RunInv(r), NEW x \in Nat, PhaseInv(r, x), Aside(r)
  PROVE  PhaseInv(r, x)'
<1>1. PICK p \in Nat, w \in Nat, b \in Nat, n \in Nat :
        /\ p = Cardinality(Past(r, x)) /\ w = Cardinality(Within(r, x))
        /\ b = Cardinality(Before(r, x)) /\ n = Cardinality(Requests) /\ n >= 1
        /\ w + b <= n
  BY PhaseCounts
<1>2. Past(r, x)' = Past(r, x)
  BY DEF Aside, Past, StartedWithin
<1>3. now \in Nat /\ now' = now
  BY ThrottleNumbers DEF Aside
<1>4. Phase(x, p, w, b, r \in DOMAIN loginFailures, loginFailures[r].blockedUntil, now)
  BY <1>1 DEF PhaseInv
<1>5. ASSUME \/ p = 0
             \/ now >= x + Block - MaxLogin /\ p < n
             \/ now >= x + Block /\ p + w <= 2 * n - 1 /\ Within(r, x)' \subseteq Within(r, x)
      PROVE  PhaseInv(r, x)'
  <2>1. CASE p = 0 \/ (now >= x + Block - MaxLogin /\ p < n)
    BY <1>1, <1>2, <1>3, <2>1 DEF PhaseInv, Phase
  <2>2. CASE now >= x + Block /\ p + w <= 2 * n - 1 /\ Within(r, x)' \subseteq Within(r, x)
    <3>1. PICK w2 \in Nat : w2 = Cardinality(Within(r, x)') /\ w2 <= w
      BY <1>1, <2>2, PhaseCounts, FewerOf
    <3>2. now >= x + Block /\ p + w2 <= 2 * n - 1
      BY <1>1, <2>2, <3>1
    <3>3. QED
      BY <1>1, <1>2, <1>3, <3>1, <3>2 DEF PhaseInv, Phase
  <2>3. QED
    BY <1>5, <2>1, <2>2
<1>6. CASE NoneComes(r) /\ Kept(r)
  <2>1. Within(r, x)' \subseteq Within(r, x) /\ Before(r, x)' \subseteq Before(r, x)
    BY <1>6 DEF NoneComes, Within, Before
  <2>2. PICK w2 \in Nat, b2 \in Nat :
          /\ w2 = Cardinality(Within(r, x)') /\ b2 = Cardinality(Before(r, x)')
          /\ w2 <= w /\ b2 <= b
    BY <1>1, <2>1, PhaseCounts, FewerOf
  <2>3. PICK u \in Nat : /\ u = loginFailures[r].blockedUntil
                         /\ u = loginFailures'[r].blockedUntil
                         /\ r \in DOMAIN loginFailures /\ r \in DOMAIN loginFailures'
    BY <1>6, ThrottleNumbers DEF Kept
  <2>4. Phase(x, p, w, b, TRUE, u, now)
    BY <1>4, <2>3
  <2>5. Phase(x, p, w2, b2, TRUE, u, now)
    BY <1>1, <1>3, <2>2, <2>4, Limits DEF Phase
  <2>6. QED
    BY <1>1, <1>2, <1>3, <2>2, <2>3, <2>5 DEF PhaseInv
<1>7. CASE /\ NoneComes(r) \/ OneComes(r)
           /\ r \in DOMAIN loginFailures => now >= loginFailures[r].blockedUntil
  <2>1. now >= x + Block => Within(r, x)' \subseteq Within(r, x)
    <3>1. \A c \in Requests : c \in Within(r, x)' => \/ c \in Within(r, x)
                                                    \/ now \in x .. x + Block - 1
      BY <1>7 DEF NoneComes, OneComes, Within
    <3>2. now >= x + Block => now \notin x .. x + Block - 1
      BY <1>3, Limits
    <3>3. QED
      BY <3>1, <3>2 DEF Within
  <2>2. CASE r \in DOMAIN loginFailures
    <3>1. PICK u \in Nat : u = loginFailures[r].blockedUntil /\ now >= u
      BY <1>7, <2>2, ThrottleNumbers
    <3>2. Phase(x, p, w, b, TRUE, u, now)
      BY <1>4, <2>2, <3>1
    <3>3. \/ p = 0
          \/ now >= x + Block - MaxLogin /\ p < n
          \/ now >= x + Block /\ p + w <= 2 * n - 1
      BY <1>1, <1>3, <3>1, <3>2, Limits DEF Phase
    <3>4. QED
      BY <1>5, <2>1, <3>3
  <2>3. CASE r \notin DOMAIN loginFailures
    <3>1. \/ p = 0
          \/ now >= x + Block - MaxLogin /\ p < n
          \/ now >= x + Block /\ p + w <= 2 * n - 1
      BY <1>1, <1>4, <2>3 DEF Phase
    <3>2. QED
      BY <1>5, <2>1, <3>1
  <2>4. QED
    BY <2>2, <2>3
<1>8. QED
  BY <1>6, <1>7 DEF Aside, Kept, Absent, Expires, OneComes

\* As a failure is recorded.
LEMMA PhaseRecords ==
  ASSUME AccessInv, ClockInv, NEW r \in Remotes, RunInv(r), EntryInv(r), NEW x \in Nat,
         PhaseInv(r, x), NEW c \in Requests, NEW g \in Guesses, Records(c, r, g)
  PROVE  PhaseInv(r, x)'
<1>1. PICK p \in Nat, w \in Nat, b \in Nat, n \in Nat :
        /\ p = Cardinality(Past(r, x)) /\ w = Cardinality(Within(r, x))
        /\ b = Cardinality(Before(r, x)) /\ n = Cardinality(Requests) /\ n >= 1
        /\ w + b <= n
  BY PhaseCounts
<1>2. PICK t \in Nat : /\ t = g.at /\ t = req[c].at /\ t <= now /\ now <= t + MaxLogin
                       /\ Pending(c, r)
  BY PendingSince DEF Records
<1>3. now \in Nat /\ now' = now /\ r \in DOMAIN loginFailures'
  BY ThrottleNumbers DEF Records
<1>4. Phase(x, p, w, b, r \in DOMAIN loginFailures, loginFailures[r].blockedUntil, now)
  BY <1>1 DEF PhaseInv
<1>5. PICK w2 \in Nat : /\ w2 = Cardinality(Within(r, x)') /\ w2 <= w
                        /\ t \in x .. x + Block - 1 => w2 + 1 <= w
  <2>1. Within(r, x)' \subseteq Within(r, x) /\ c \notin Within(r, x)'
    BY DEF Records, NoneComes, Within
  <2>2. PICK w2 \in Nat : w2 = Cardinality(Within(r, x)') /\ w2 <= w
    BY <1>1, <2>1, PhaseCounts, FewerOf
  <2>3. t \in x .. x + Block - 1 => w2 # w
    <3>1. t \in x .. x + Block - 1 => c \in Within(r, x)
      BY <1>2 DEF Within
    <3>2. w2 = w => Within(r, x) = Within(r, x)'
      BY <1>1, <2>1, <2>2, PhaseCounts, FS_Subset
    <3>3. QED
      BY <2>1, <3>1, <3>2
  <2>4. QED
    BY <2>2, <2>3
<1>6. PICK b2 \in Nat : /\ b2 = Cardinality(Before(r, x)') /\ b2 <= b
                        /\ t < x => b2 + 1 <= b
  <2>1. Before(r, x)' \subseteq Before(r, x) /\ c \notin Before(r, x)'
    BY DEF Records, NoneComes, Before
  <2>2. PICK b2 \in Nat : b2 = Cardinality(Before(r, x)') /\ b2 <= b
    BY <1>1, <2>1, PhaseCounts, FewerOf
  <2>3. t < x => b2 # b
    <3>1. t < x => c \in Before(r, x)
      BY <1>2 DEF Before
    <3>2. b2 = b => Before(r, x) = Before(r, x)'
      BY <1>1, <2>1, <2>2, PhaseCounts, FS_Subset
    <3>3. QED
      BY <2>1, <3>1, <3>2
  <2>4. QED
    BY <2>2, <2>3
<1>7. PICK p2 \in Nat : /\ p2 = Cardinality(Past(r, x)') /\ p2 <= p + 1
                        /\ t \notin x .. x + Block - 1 \/ g.count < Limit => p2 <= p
  <2>1. g.count \in Nat /\ guesses'[r] \subseteq guesses[r] \cup {g}
    BY RecordedRuns DEF Guesses
  <2>2. Past(r, x)' \subseteq Past(r, x) \cup {g}
    BY <2>1 DEF Past, StartedWithin
  <2>3. t \notin x .. x + Block - 1 \/ g.count < Limit => Past(r, x)' \subseteq Past(r, x)
    <3>1. g.count < Limit => ~ (g.count >= Limit)
      BY <2>1, Limits
    <3>2. t \notin x .. x + Block - 1 \/ g.count < Limit => g \notin Past(r, x)'
      BY <1>2, <3>1 DEF Past, StartedWithin
    <3>3. QED
      BY <2>2, <3>2
  <2>4. IsFiniteSet(Past(r, x)) /\ IsFiniteSet(Past(r, x) \cup {g})
    BY PhaseCounts, FS_AddElement
  <2>5. PICK p2 \in Nat : p2 = Cardinality(Past(r, x)')
    BY <2>2, <2>4, FewerOf
  <2>6. Cardinality(Past(r, x) \cup {g}) = IF g \in Past(r, x) THEN p ELSE p + 1
    BY <1>1, <2>4, FS_AddElement
  <2>7. p2 <= Cardinality(Past(r, x) \cup {g})
    BY <2>2, <2>4, <2>5, FewerOf
  <2>8. Past(r, x)' \subseteq Past(r, x) => p2 <= p
    BY <1>1, <2>4, <2>5, FewerOf
  <2>9. p2 <= p + 1
    BY <2>6, <2>7
  <2>10. QED
    BY <2>3, <2>5, <2>8, <2>9
<1>8. now >= x + Block - MaxLogin => b = 0
  <2>1. ASSUME now >= x + Block - MaxLogin, NEW d \in Before(r, x)
        PROVE  FALSE
    <3>1. PICK at \in Nat : at < x /\ now <= at + MaxLogin
      BY <2>1, PendingSince DEF Before
    <3>2. QED
      BY <1>3, <2>1, <3>1, Limits
  <2>2. now >= x + Block - MaxLogin => Before(r, x) = {}
    BY <2>1
  <2>3. QED
    BY <1>1, <2>2, FS_EmptySet
<1>9. p # 0 => now >= x
  <2>1. ASSUME NEW h \in Past(r, x)
        PROVE  now >= x
    <3>1. PICK at \in Nat : at = h.at /\ at \in x .. x + Block - 1 /\ at <= now
      BY <2>1, ThrottleNumbers DEF Past, StartedWithin, RunInv
    <3>2. QED
      BY <1>3, <3>1, Limits
  <2>2. p # 0 => Past(r, x) # {}
    BY <1>1, FS_EmptySet
  <2>3. QED
    BY <2>1, <2>2
<1>10. PICK u2 : u2 = loginFailures'[r].blockedUntil
  OBVIOUS
<1>11. SUFFICES Phase(x, p2, w2, b2, TRUE, u2, now)
  BY <1>3, <1>5, <1>6, <1>7, <1>10 DEF PhaseInv
<1>12. CASE Begins(r, g)
  <2>1. g.count < Limit /\ p2 <= p
    BY <1>7, <1>12, Limits DEF Begins
  <2>2. CASE guesses'[r] = {g}
    <3>1. Past(r, x)' = {}
      BY <1>12, <2>2, Limits DEF Past, StartedWithin, Begins
    <3>2. p2 = 0
      BY <1>7, <3>1, FS_EmptySet
    <3>3. QED
      BY <3>2 DEF Phase
  <2>3. CASE r \in DOMAIN loginFailures /\ now >= loginFailures[r].blockedUntil
    <3>1. PICK u \in Nat : u = loginFailures[r].blockedUntil /\ now >= u
      BY <2>3, ThrottleNumbers
    <3>2. Phase(x, p, w, b, TRUE, u, now)
      BY <1>4, <2>3, <3>1
    <3>3. \/ p2 = 0
          \/ now >= x + Block - MaxLogin /\ p2 < n
          \/ now >= x + Block /\ p2 + w2 <= 2 * n - 1
      BY <1>1, <1>3, <1>5, <2>1, <3>1, <3>2, Limits DEF Phase
    <3>4. QED
      BY <1>1, <3>3 DEF Phase
  <2>4. CASE r \notin DOMAIN loginFailures
    <3>1. \/ p = 0
          \/ now >= x + Block - MaxLogin /\ p < n
          \/ now >= x + Block /\ p + w <= 2 * n - 1
      BY <1>1, <1>4, <2>4 DEF Phase
    <3>2. \/ p2 = 0
          \/ now >= x + Block - MaxLogin /\ p2 < n
          \/ now >= x + Block /\ p2 + w2 <= 2 * n - 1
      BY <1>1, <1>3, <1>5, <2>1, <3>1, Limits
    <3>3. QED
      BY <1>1, <3>2 DEF Phase
  <2>5. QED
    BY <1>12, <2>2, <2>3, <2>4 DEF Begins
<1>13. CASE GoesOn(r, g)
  <2>1. PICK u \in Nat : /\ r \in DOMAIN loginFailures /\ u = loginFailures[r].blockedUntil
                         /\ u2 = IF g.count >= Limit THEN t + Block ELSE u
    BY <1>2, <1>10, <1>13, ThrottleNumbers DEF GoesOn
  <2>2. Phase(x, p, w, b, TRUE, u, now)
    BY <1>4, <2>1
  <2>3. CASE g.count < Limit
    <3>1. p2 <= p /\ u2 = u
      BY <1>7, <2>1, <2>3, Limits DEF Guesses
    <3>2. QED
      BY <1>1, <1>3, <1>5, <1>6, <2>2, <3>1, Limits DEF Phase
  <2>4. CASE g.count >= Limit
    <3>1. u2 = t + Block
      BY <2>1, <2>4
    <3>2. CASE t \in x .. x + Block - 1
      <4>1. w2 + 1 <= w /\ b2 <= b /\ p2 <= p + 1 /\ t >= x
        BY <1>5, <1>6, <1>7, <3>2, Limits
      <4>2. QED
        BY <1>1, <1>3, <1>8, <2>2, <3>1, <4>1, Limits DEF Phase
    <3>3. CASE t < x
      <4>1. w2 <= w /\ b2 + 1 <= b /\ p2 <= p
        BY <1>5, <1>6, <1>7, <3>3, Limits
      <4>2. p # 0 => t >= x - MaxLogin
        BY <1>2, <1>3, <1>9, Limits
      <4>3. QED
        BY <1>1, <1>3, <1>8, <2>2, <3>1, <3>3, <4>1, <4>2, Limits DEF Phase
    <3>4. CASE t >= x + Block
      <4>1. w2 <= w /\ p2 <= p /\ now >= x + Block
        BY <1>2, <1>3, <1>5, <1>7, <3>4, Limits
      <4>2. QED
        BY <1>1, <1>3, <2>2, <4>1, Limits DEF Phase
    <3>5. t \in x .. x + Block - 1 \/ t < x \/ t >= x + Block
      BY Limits
    <3>6. QED
      BY <3>2, <3>3, <3>4, <3>5
  <2>5. g.count < Limit \/ g.count >= Limit
    BY Limits DEF Guesses
  <2>6. QED
    BY <2>3, <2>4, <2>5
<1>14. QED
  BY <1>12, <1>13 DEF Records

\* However the step goes, what is known of the phase stays known.
LEMMA StepPhase ==
  ASSUME AccessInv, ClockInv, [AccessNext]_accessVars, NEW r \in Remotes,
         RunInv(r), EntryInv(r), NEW x \in Nat, PhaseInv(r, x)
  PROVE  PhaseInv(r, x)'
<1>1. CASE Forgotten(r)
  <2>1. Past(r, x)' = {}
    BY <1>1 DEF Forgotten, Past, StartedWithin
  <2>2. Cardinality(Past(r, x)') = 0
    BY <2>1, FS_EmptySet
  <2>3. QED
    BY <2>2 DEF PhaseInv, Phase
<1>2. QED
  BY <1>1, ThrottleMoves, PhasePasses, PhaseAside, PhaseRecords

ThrottleInv ==
  /\ ClockInv
  /\ \A r \in Remotes : RunInv(r) /\ EntryInv(r) /\ \A x \in Nat : PhaseInv(r, x)

\* The invariant of the throttle holds of every reachable state.
LEMMA ThrottleHolds == AccessSpec => []ThrottleInv
<1>1. ASSUME AccessInit
      PROVE  ThrottleInv
  <2>1. ClockInv
    BY <1>1, StageStates DEF AccessInit, ClockInv, Waiting
  <2>2. ASSUME NEW r \in Remotes
        PROVE  guesses[r] = {} /\ r \notin DOMAIN loginFailures
    BY <1>1 DEF AccessInit, NoGuesses
  <2>3. ASSUME NEW r \in Remotes
        PROVE  RunInv(r) /\ EntryInv(r)
    BY <2>2, FS_EmptySet DEF RunInv, EntryInv
  <2>4. ASSUME NEW r \in Remotes, NEW x \in Nat
        PROVE  PhaseInv(r, x)
    <3>1. Past(r, x) = {}
      BY <2>2 DEF Past, StartedWithin
    <3>2. Cardinality(Past(r, x)) = 0
      BY <3>1, FS_EmptySet
    <3>3. QED
      BY <3>2 DEF PhaseInv, Phase
  <2>5. QED
    BY <2>1, <2>3, <2>4 DEF ThrottleInv
<1>2. ASSUME AccessInv, AccessInv', ThrottleInv, [AccessNext]_accessVars
      PROVE  ThrottleInv'
  <2>1. ClockInv'
    BY <1>2, StepClock DEF ThrottleInv
  <2>2. ASSUME NEW r \in Remotes
        PROVE  RunInv(r)' /\ EntryInv(r)'
    BY <1>2, StepRuns, StepEntry DEF ThrottleInv
  <2>3. ASSUME NEW r \in Remotes, NEW x \in Nat
        PROVE  PhaseInv(r, x)'
    BY <1>2, StepPhase DEF ThrottleInv
  <2>4. QED
    BY <2>1, <2>2, <2>3 DEF ThrottleInv
<1>3. QED
  BY <1>1, <1>2, AccessHolds, PTL DEF AccessSpec

\* Of guesses that differ in their counts there are no more than counts.
LEMMA Numbered ==
  ASSUME NEW S, NEW a \in Nat, NEW b \in Nat,
         \A g \in S : g.count \in a .. b,
         \A g, h \in S : g.count = h.count => g = h
  PROVE  /\ IsFiniteSet(S) /\ Cardinality(S) \in Nat
         /\ Cardinality(S) <= IF a > b THEN 0 ELSE b - a + 1
<1>1. PICK f : f = [g \in S |-> g.count]
  OBVIOUS
<1>2. f \in Injection(S, a .. b)
  BY <1>1 DEF Injection, IsInjective
<1>3. IsFiniteSet(a .. b) /\ Cardinality(a .. b) = IF a > b THEN 0 ELSE b - a + 1
  BY FS_Interval
<1>4. IsFiniteSet(S) /\ Cardinality(S) <= Cardinality(a .. b)
  BY <1>2, <1>3, FS_Injection
<1>5. QED
  BY <1>3, <1>4, FS_CardinalityType

\* A union has no more members than its parts.
LEMMA UnionBound ==
  ASSUME NEW S, NEW T, IsFiniteSet(S), IsFiniteSet(T)
  PROVE  /\ IsFiniteSet(S \cup T) /\ Cardinality(S \cup T) \in Nat
         /\ Cardinality(S \cup T) <= Cardinality(S) + Cardinality(T)
<1>1. IsFiniteSet(S \cap T) /\ Cardinality(S \cap T) \in Nat
  BY FewerOf
<1>2. /\ IsFiniteSet(S \cup T)
      /\ Cardinality(S \cup T) = Cardinality(S) + Cardinality(T) - Cardinality(S \cap T)
  BY FS_Union
<1>3. /\ Cardinality(S) \in Nat /\ Cardinality(T) \in Nat
      /\ Cardinality(S \cup T) \in Nat
  BY <1>2, FS_CardinalityType
<1>4. QED
  BY <1>1, <1>2, <1>3

\* Below the limit, the guesses of a block's length are of two runs at most, the
\* earlier without its first.
LEMMA BelowLimit ==
  ASSUME AccessInv, NEW r \in Remotes, RunInv(r), NEW x \in Nat,
         NEW S, S = {g \in StartedWithin(r, x) : g.count < Limit}
  PROVE  IsFiniteSet(S) /\ Cardinality(S) \in Nat /\ Cardinality(S) <= 2 * Limit - 3
<1>1. ASSUME NEW g \in S
      PROVE  /\ g \in guesses[r] /\ g.first \in Nat /\ g.count \in Nat /\ g.at \in Nat
             /\ g.count \in 1 .. Limit - 1 /\ g.at >= x /\ g.at < x + Block
             /\ g.count = 1 => g.at = g.first
  <2>1. g \in guesses[r] /\ g.at \in x .. x + Block - 1 /\ g.count < Limit
    BY <1>1 DEF StartedWithin
  <2>2. /\ g.first \in Nat /\ g.count \in Nat /\ g.at \in Nat /\ g.count >= 1
        /\ g.count = 1 => g.at = g.first
    BY <2>1, ThrottleNumbers DEF RunInv
  <2>3. QED
    BY <2>1, <2>2, Limits
<1>2. ASSUME NEW g \in S, NEW h \in S, g.first < h.first
      PROVE  /\ g.count \in 2 .. Limit - 1
             /\ h.first >= x - MaxLogin /\ g.first + Window - 2 * MaxLogin < x + Block
  <2>1. PICK gf \in Nat, gc \in Nat, ga \in Nat, hf \in Nat, ha \in Nat :
          /\ gf = g.first /\ gc = g.count /\ ga = g.at /\ hf = h.first /\ ha = h.at
    BY <1>1
  <2>2. gf + Window - 2 * MaxLogin <= hf /\ ga <= hf + MaxLogin
    BY <1>1, <1>2, <2>1 DEF RunInv, Earlier
  <2>3. gf + Window - 2 * MaxLogin <= ha
    BY <1>1, <1>2, <2>1 DEF RunInv
  <2>4. /\ ga >= x /\ ha < x + Block /\ gc \in 1 .. Limit - 1
        /\ gc = 1 => ga = gf
    BY <1>1, <2>1
  <2>5. gc \in 2 .. Limit - 1
    BY <2>3, <2>4, Limits
  <2>6. hf >= x - MaxLogin /\ gf + Window - 2 * MaxLogin < x + Block
    BY <2>2, <2>3, <2>4, Limits
  <2>7. QED
    BY <2>1, <2>5, <2>6
<1>3. ASSUME NEW g \in S, NEW h \in S, NEW i \in S, g.first < h.first, h.first < i.first
      PROVE  FALSE
  <2>1. PICK hf \in Nat : hf = h.first
    BY <1>1
  <2>2. hf >= x - MaxLogin /\ hf + Window - 2 * MaxLogin < x + Block
    BY <1>2, <1>3, <2>1
  <2>3. QED
    BY <2>2, Limits
<1>4. \A g, h \in S : g.first = h.first /\ g.count = h.count => g = h
  BY <1>1 DEF RunInv
<1>5. CASE \A g, h \in S : g.first = h.first
  <2>1. /\ IsFiniteSet(S) /\ Cardinality(S) \in Nat
        /\ Cardinality(S) <= IF 1 > Limit - 1 THEN 0 ELSE Limit - 1 - 1 + 1
    <3>1. Limit - 1 \in Nat
      BY Limits
    <3>2. /\ \A g \in S : g.count \in 1 .. Limit - 1
          /\ \A g, h \in S : g.count = h.count => g = h
      BY <1>1, <1>4, <1>5
    <3>3. QED
      BY <3>1, <3>2, Numbered
  <2>2. QED
    BY <2>1, Limits
<1>6. ASSUME NEW g \in S, NEW h \in S, g.first < h.first
      PROVE  IsFiniteSet(S) /\ Cardinality(S) \in Nat /\ Cardinality(S) <= 2 * Limit - 3
  <2>1. PICK G, H : /\ G = {i \in S : i.first = g.first}
                    /\ H = {i \in S : i.first = h.first}
    OBVIOUS
  <2>2. S = G \cup H
    <3>1. ASSUME NEW i \in S
          PROVE  i.first = g.first \/ i.first = h.first
      <4>1. PICK gf \in Nat, hf \in Nat, k \in Nat :
              gf = g.first /\ hf = h.first /\ k = i.first /\ gf < hf
        BY <1>1, <1>6
      <4>2. ~ (k < gf) /\ ~ (gf < k /\ k < hf) /\ ~ (hf < k)
        BY <1>3, <1>6, <4>1
      <4>3. QED
        BY <4>1, <4>2
    <3>2. QED
      BY <2>1, <3>1
  <2>3. /\ IsFiniteSet(G) /\ Cardinality(G) \in Nat
        /\ Cardinality(G) <= Limit - 2
    <3>1. Limit - 1 \in Nat
      BY Limits
    <3>2. /\ \A i \in G : i.count \in 2 .. Limit - 1
          /\ \A i, j \in G : i.count = j.count => i = j
      BY <1>2, <1>4, <1>6, <2>1
    <3>3. /\ IsFiniteSet(G) /\ Cardinality(G) \in Nat
          /\ Cardinality(G) <= IF 2 > Limit - 1 THEN 0 ELSE Limit - 1 - 2 + 1
      BY <3>1, <3>2, Numbered
    <3>4. QED
      BY <3>3, Limits
  <2>4. /\ IsFiniteSet(H) /\ Cardinality(H) \in Nat
        /\ Cardinality(H) <= Limit - 1
    <3>1. Limit - 1 \in Nat
      BY Limits
    <3>2. /\ \A i \in H : i.count \in 1 .. Limit - 1
          /\ \A i, j \in H : i.count = j.count => i = j
      BY <1>1, <1>4, <2>1
    <3>3. /\ IsFiniteSet(H) /\ Cardinality(H) \in Nat
          /\ Cardinality(H) <= IF 1 > Limit - 1 THEN 0 ELSE Limit - 1 - 1 + 1
      BY <3>1, <3>2, Numbered
    <3>4. QED
      BY <3>3, Limits
  <2>5. IsFiniteSet(S) /\ Cardinality(S) <= Cardinality(G) + Cardinality(H)
    BY <2>2, <2>3, <2>4, UnionBound
  <2>6. QED
    BY <2>3, <2>4, <2>5, Limits, FS_CardinalityType
<1>7. \/ \A g, h \in S : g.first = h.first
      \/ \E g, h \in S : g.first < h.first
  BY <1>1
<1>8. QED
  BY <1>5, <1>6, <1>7

\* However logins overlap, and whatever the order their failures are recorded in,
\* no more failures than 2 * (Limit + requests - 2) are counted against a remote for
\* logins started within a block's length: the throttle slows guessing down even
\* though the last failure to be recorded may end the block sooner.
THEOREM GuessesStayBounded == AccessSpec => []GuessesBounded
<1>1. ASSUME AccessInv, ThrottleInv, NEW r \in Remotes, NEW x \in 1 .. MaxClock
      PROVE  Cardinality(StartedWithin(r, x)) <= 2 * (Limit + Cardinality(Requests) - 2)
  <2>1. x \in Nat /\ RunInv(r) /\ PhaseInv(r, x)
    BY <1>1 DEF ThrottleInv
  <2>2. PICK p \in Nat, w \in Nat, b \in Nat, n \in Nat :
          /\ p = Cardinality(Past(r, x)) /\ w = Cardinality(Within(r, x))
          /\ b = Cardinality(Before(r, x)) /\ n = Cardinality(Requests) /\ n >= 1
          /\ w + b <= n /\ IsFiniteSet(Past(r, x))
    BY <1>1, <2>1, PhaseCounts
  <2>3. p <= 2 * n - 1
    BY <1>1, <2>1, <2>2 DEF PhaseInv, Phase
  <2>4. PICK S : S = {g \in StartedWithin(r, x) : g.count < Limit}
    OBVIOUS
  <2>5. IsFiniteSet(S) /\ Cardinality(S) \in Nat /\ Cardinality(S) <= 2 * Limit - 3
    BY <1>1, <2>1, <2>4, BelowLimit
  <2>6. StartedWithin(r, x) = S \cup Past(r, x)
    <3>1. \A g \in StartedWithin(r, x) : g.count < Limit \/ g.count >= Limit
      BY <1>1, ThrottleNumbers, Limits DEF StartedWithin
    <3>2. QED
      BY <2>4, <3>1 DEF Past
  <2>7. Cardinality(StartedWithin(r, x)) <= Cardinality(S) + Cardinality(Past(r, x))
    BY <2>2, <2>5, <2>6, UnionBound
  <2>8. PICK s \in Nat, k \in Nat :
          /\ s = Cardinality(S) /\ s <= 2 * Limit - 3
          /\ k = Cardinality(StartedWithin(r, x)) /\ k <= s + p
    BY <2>2, <2>5, <2>6, <2>7, UnionBound
  <2>9. QED
    BY <2>2, <2>3, <2>8, Limits
<1>2. AccessInv /\ ThrottleInv => GuessesBounded
  BY <1>1 DEF GuessesBounded
<1>3. QED
  BY <1>2, AccessHolds, ThrottleHolds, PTL
=============================================================================
