---------------------------- MODULE AdminAccess ----------------------------
(***************************************************************************)
(* Who may use the console and the merchant API: the admin password and    *)
(* its sessions, the merchant API keys (internal/v4/auth/service.go), and  *)
(* the login throttle kept in memory (internal/v4/httpapi/admin.go).       *)
(*                                                                         *)
(* Every transaction, and every critical section of the throttle's mutex,  *)
(* is one action: between two of them other requests move, and the         *)
(* process may stop.  A password is hashed with a fresh random salt, so    *)
(* two stored hashes never read the same; here the salt is the ordinal of  *)
(* the stored hash.  A token is a random name, never issued twice.         *)
(***************************************************************************)
EXTENDS Integers, FiniteSets, FiniteSetsExt, Functions

CONSTANTS
  Passwords,       \* passwords operators type or choose
  Requests,        \* requests being handled at once
  Remotes,         \* addresses logins come from (loginRemoteKey)
  Tokens,          \* session tokens
  NoHash,          \* no admin_credentials row
  LegacyKey,       \* key_legacy_v3
  CreatedKeys,     \* ids CreateAPIKey generates
  BootstrapPasswords, \* values PAYGATE_V4_BOOTSTRAP_ADMIN_PASSWORD may have
  Limit, Window, Block, Entries, Concurrency,  \* adminLogin... constants
  SessionTTL,
  MaxLogin,        \* how long a login may be handled for: an assumption
  MaxClock, MaxChanges, MaxRestarts            \* bounds

ASSUME AccessAssumption ==
  /\ {Limit, Window, Block, Entries, Concurrency, SessionTTL} \subseteq Nat \ {0}
  /\ {MaxLogin, MaxClock, MaxChanges, MaxRestarts} \subseteq Nat
  /\ BootstrapPasswords \subseteq Passwords
  /\ NoHash \notin [salt : Nat, password : Passwords]
  /\ LegacyKey \notin CreatedKeys

\* Verifying a password takes about a second and its transaction waits no longer
\* than the busy timeout, so a login is handled within seconds; a block lasts a
\* minute, a window fifteen, and it takes five failures.
ASSUME ThrottleAssumption ==
  /\ IsFiniteSet(Requests) /\ Requests # {}
  /\ Limit >= 2
  /\ 2 * MaxLogin <= Block
  /\ Block + 3 * MaxLogin <= Window

Hashes == [salt : Nat, password : Passwords]
Keys == CreatedKeys \cup {LegacyKey}

VARIABLES
  now,                \* the wall clock
  serving,            \* the process is up
  restarts,           \* counter for its bound
  admin_credentials,  \* the stored hash
  admin_sessions,     \* token -> its row, with the hash it was opened under
  req,                \* requests between their steps
  loginSlots,         \* slots taken
  loginFailures,      \* remote -> its adminLoginFailure
  guesses,            \* per remote, the failures recorded since the last success,
                      \* eviction or restart: [first, count, at]
  api_keys,           \* key id -> enabled
  revoked             \* key ids ever revoked

clock == <<now, serving, restarts>>
passwords == <<admin_credentials, admin_sessions>>
throttle == <<loginSlots, loginFailures, guesses>>
keys == <<api_keys, revoked>>
accessVars == <<clock, passwords, req, throttle, keys>>

Idle == [stage |-> "idle"]
NoFailures == [failures |-> 0, firstFailure |-> 0, blockedUntil |-> 0, lastSeen |-> 0]
With(f, k, v) == [x \in DOMAIN f \cup {k} |-> IF x = k THEN v ELSE f[x]]

\* A guess is known by the run it belongs to, named by its first failure, and
\* its number in the run; `at' is when its login was started.
NoGuesses == [r \in Remotes |-> {}]
Guess(entry, t) == [first |-> entry.firstFailure, count |-> entry.failures, at |-> t]

AccessInit ==
  /\ now = 1 /\ serving = FALSE /\ restarts = 0
  /\ admin_credentials = NoHash
  /\ admin_sessions = <<>>
  /\ req = [c \in Requests |-> Idle]
  /\ loginSlots = 0 /\ loginFailures = <<>> /\ guesses = NoGuesses
  /\ api_keys = <<>> /\ revoked = {}

\* Verifying a password takes a second, and its transaction gives up after the
\* busy timeout: no login outlives MaxLogin.
Lingers(c) ==
  req[c].stage \in {"arrived", "verifying", "refused"} /\ now - req[c].at >= MaxLogin

AccessTick ==
  /\ now < MaxClock
  /\ \A c \in Requests : ~Lingers(c)
  /\ now' = now + 1
  /\ UNCHANGED <<serving, restarts, passwords, req, throttle, keys>>

---------------------------------------------------------------------------
(* The login throttle.                                                     *)

\* What pruneLoginFailuresLocked may leave: entries neither blocked nor seen
\* for a window go, and then the least recently seen until there is room for
\* one more; map iteration breaks the ties.
Pruned(f, t) ==
  LET kept == {r \in DOMAIN f : t <= f[r].blockedUntil \/ t - f[r].lastSeen < Window}
      excess == IF Cardinality(kept) < Entries THEN 0
                ELSE Cardinality(kept) - Entries + 1
      oldest(S) == \A r \in S, q \in kept \ S : f[r].lastSeen <= f[q].lastSeen
  IN {Restrict(f, kept \ S) : S \in {S \in kSubset(excess, kept) : oldest(S)}}

\* Entries taken out for room, rather than because their time was over.
Evicted(f, g, t) ==
  {r \in DOMAIN f \ DOMAIN g : t <= f[r].blockedUntil \/ t - f[r].lastSeen < Window}

Forget(S) == [r \in Remotes |-> IF r \in S THEN NoGuesses[r] ELSE guesses[r]]

Blocked(f, r, t) == r \in DOMAIN f /\ t < f[r].blockedUntil

\* login up to loginAttemptAllowed: `now' is taken and kept for later.
Arrive(c, r, p) ==
  /\ serving /\ req[c] = Idle
  /\ \E f \in Pruned(loginFailures, now) :
       /\ guesses' = Forget(Evicted(loginFailures, f, now))
       /\ \/ /\ Blocked(f, r, now)
             /\ loginFailures' = [f EXCEPT ![r].lastSeen = now]
             /\ UNCHANGED req
          \/ /\ ~Blocked(f, r, now)
             /\ loginFailures' = IF r \in DOMAIN f /\ now - f[r].firstFailure >= Window
                                 THEN Restrict(f, DOMAIN f \ {r}) ELSE f
             /\ req' = [req EXCEPT ![c] =
                          [stage |-> "arrived", key |-> r, at |-> now, password |-> p]]
  /\ UNCHANGED <<clock, passwords, loginSlots, keys>>

\* acquireLoginSlot finds every slot taken: 429, and nothing is recorded.
TurnAway(c) ==
  /\ req[c].stage = "arrived" /\ loginSlots = Concurrency
  /\ req' = [req EXCEPT ![c] = Idle]
  /\ UNCHANGED <<clock, passwords, throttle, keys>>

\* acquireLoginSlot, and CreateAdminSession's first read of the hash.
ReadHash(c) ==
  /\ req[c].stage = "arrived" /\ loginSlots < Concurrency
  /\ loginSlots' = loginSlots + 1
  /\ req' = [req EXCEPT ![c] = [stage |-> "verifying", key |-> @.key, at |-> @.at,
                                password |-> @.password, encoded |-> admin_credentials]]
  /\ UNCHANGED <<clock, passwords, loginFailures, guesses, keys>>

Verifies(encoded, p) == encoded # NoHash /\ encoded.password = p

\* Mutant: the transaction does not read the hash again.
OpensUnchecked(c) == Verifies(req[c].encoded, req[c].password)

\* CreateAdminSession stores the session only if the password verified against
\* the hash it read and that hash is still the stored one.
Opens(c) ==
  /\ Verifies(req[c].encoded, req[c].password)
  /\ admin_credentials = req[c].encoded

OpenSession(c) ==
  /\ req[c].stage = "verifying" /\ Opens(c)
  /\ \E t \in Tokens \ DOMAIN admin_sessions :
       admin_sessions' = With(admin_sessions, t,
         [expires_at |-> now + SessionTTL, revoked |-> FALSE, under |-> req[c].encoded.salt])
  /\ req' = [req EXCEPT ![c] = [stage |-> "accepted", key |-> @.key]]
  /\ UNCHANGED <<clock, admin_credentials, throttle, keys>>

RefuseLogin(c) ==
  /\ req[c].stage = "verifying" /\ ~Opens(c)
  /\ req' = [req EXCEPT ![c] = [stage |-> "refused", key |-> @.key, at |-> @.at]]
  /\ UNCHANGED <<clock, passwords, throttle, keys>>

\* Mutant: the early return of the busy path keeps the slot.
LoginBusySlotKept(c) ==
  /\ req[c].stage = "verifying"
  /\ req' = [req EXCEPT ![c] = Idle]
  /\ UNCHANGED <<clock, passwords, throttle, keys>>

\* The transaction gives up with ErrBusy: 503, and the throttle hears nothing.
LoginBusy(c) ==
  /\ req[c].stage = "verifying"
  /\ req' = [req EXCEPT ![c] = Idle]
  /\ loginSlots' = loginSlots - 1
  /\ UNCHANGED <<clock, passwords, loginFailures, guesses, keys>>

\* Mutant: off by one, a remote is blocked by the failure past the limit.
RecordedOneMore(f, r, t) ==
  LET old == IF r \in DOMAIN f THEN f[r] ELSE NoFailures
      running == r \in DOMAIN f /\ t - old.firstFailure < Window
      state == IF running THEN old ELSE [NoFailures EXCEPT !.firstFailure = t]
      count == state.failures + 1
  IN [failures |-> count, firstFailure |-> state.firstFailure, lastSeen |-> t,
      blockedUntil |-> IF count > Limit THEN t + Block ELSE state.blockedUntil]

\* recordLoginFailure's entry, for a login that was started at t.
Recorded(f, r, t) ==
  LET old == IF r \in DOMAIN f THEN f[r] ELSE NoFailures
      running == r \in DOMAIN f /\ t - old.firstFailure < Window
      state == IF running THEN old ELSE [NoFailures EXCEPT !.firstFailure = t]
      count == state.failures + 1
  IN [failures |-> count, firstFailure |-> state.firstFailure, lastSeen |-> t,
      blockedUntil |-> IF count >= Limit THEN t + Block ELSE state.blockedUntil]

\* A refused login is counted as of the moment it was started, and its slot
\* is given back.
RecordFailure(c) ==
  LET r == req[c].key
      t == req[c].at
  IN /\ req[c].stage = "refused"
     /\ \E f \in Pruned(loginFailures, t) :
          /\ loginFailures' = With(f, r, Recorded(f, r, t))
          /\ guesses' = [Forget(Evicted(loginFailures, f, t)) EXCEPT
               ![r] = @ \cup {Guess(Recorded(f, r, t), t)}]
     /\ loginSlots' = loginSlots - 1
     /\ req' = [req EXCEPT ![c] = Idle]
     /\ UNCHANGED <<clock, passwords, keys>>

\* clearLoginFailures, the answer, and the slot given back.
AnswerLogin(c) ==
  /\ req[c].stage = "accepted"
  /\ loginFailures' = Restrict(loginFailures, DOMAIN loginFailures \ {req[c].key})
  /\ guesses' = Forget({req[c].key})
  /\ loginSlots' = loginSlots - 1
  /\ req' = [req EXCEPT ![c] = Idle]
  /\ UNCHANGED <<clock, passwords, keys>>

---------------------------------------------------------------------------
(* Sessions and the password.                                              *)

\* AuthenticateAdminSession
Valid(t) ==
  /\ t \in DOMAIN admin_sessions
  /\ ~admin_sessions[t].revoked
  /\ now < admin_sessions[t].expires_at

\* A request that ServeHTTP let in on its session asks for a new password.
AskChange(c, t, current, new) ==
  /\ serving /\ req[c] = Idle /\ Valid(t)
  /\ req' = [req EXCEPT ![c] = [stage |-> "authorised", current |-> current, new |-> new]]
  /\ UNCHANGED <<clock, passwords, throttle, keys>>

\* ChangePassword reads the hash and verifies the current password against it;
\* a wrong one is answered 401, past the throttle.
VerifyChange(c) ==
  /\ req[c].stage = "authorised"
  /\ req' = [req EXCEPT ![c] =
       IF Verifies(admin_credentials, @.current)
       THEN [stage |-> "changing", encoded |-> admin_credentials, new |-> @.new]
       ELSE Idle]
  /\ UNCHANGED <<clock, passwords, throttle, keys>>

\* Mutant: the transaction trusts the verification done before it.
ReplacesUnchecked(c) == req[c].stage = "changing"

\* The re-read inside ChangePassword's transaction.
Replaces(c) == req[c].stage = "changing" /\ admin_credentials = req[c].encoded

CommitChange(c) ==
  /\ Replaces(c)
  /\ admin_credentials.salt <= MaxChanges
  /\ admin_credentials' = [salt |-> admin_credentials.salt + 1, password |-> req[c].new]
  /\ admin_sessions' = <<>>  \* DELETE FROM admin_sessions
  /\ req' = [req EXCEPT ![c] = Idle]
  /\ UNCHANGED <<clock, throttle, keys>>

\* The stored hash is another one, or the database is busy.
FailChange(c) ==
  /\ req[c].stage = "changing"
  /\ req' = [req EXCEPT ![c] = Idle]
  /\ UNCHANGED <<clock, passwords, throttle, keys>>

\* RevokeAdminSession; the row stays, revoked.
Logout(t) ==
  /\ serving /\ t \in DOMAIN admin_sessions /\ ~admin_sessions[t].revoked
  /\ admin_sessions' = [admin_sessions EXCEPT ![t].revoked = TRUE]
  /\ UNCHANGED <<clock, admin_credentials, req, throttle, keys>>

---------------------------------------------------------------------------
(* Merchant API keys, start and stop.                                      *)

CreateAPIKey(k) ==
  /\ serving /\ k \notin DOMAIN api_keys
  /\ api_keys' = With(api_keys, k, TRUE)
  /\ UNCHANGED <<clock, passwords, req, throttle, revoked>>

\* Mutant: the row is deleted, as the console's verb for it says.
RowDeleted(k) == Restrict(api_keys, DOMAIN api_keys \ {k})

\* UPDATE api_keys SET enabled=0
KeyDisabled(k) == [api_keys EXCEPT ![k] = FALSE]

RevokeAPIKey(k) ==
  /\ serving /\ k \in DOMAIN api_keys /\ api_keys[k]
  /\ api_keys' = KeyDisabled(k)
  /\ revoked' = revoked \cup {k}
  /\ UNCHANGED <<clock, passwords, req, throttle>>

\* AuthenticateAPIKey
Authenticates(k) == k \in DOMAIN api_keys /\ api_keys[k]

\* BootstrapAPIKey: only an empty table takes the key of the environment.
BootstrapAPIKey ==
  IF DOMAIN api_keys = {} THEN With(api_keys, LegacyKey, TRUE) ELSE api_keys

\* runtime.New: bootstrapAdmin, which needs a password on a fresh database,
\* and the merchant key when the environment has one.  What was in memory or
\* in flight is gone; the operator may change the environment between starts.
Start ==
  /\ ~serving
  /\ \/ admin_credentials # NoHash /\ UNCHANGED admin_credentials
     \/ /\ admin_credentials = NoHash
        /\ \E p \in BootstrapPasswords : admin_credentials' = [salt |-> 1, password |-> p]
  /\ api_keys' \in {api_keys, BootstrapAPIKey}
  /\ serving' = TRUE
  /\ loginSlots' = 0 /\ loginFailures' = <<>> /\ guesses' = NoGuesses
  /\ UNCHANGED <<now, restarts, admin_sessions, req, revoked>>

\* The process stops, by a crash or a deploy.
Stop ==
  /\ serving /\ restarts < MaxRestarts
  /\ serving' = FALSE /\ restarts' = restarts + 1
  /\ req' = [c \in Requests |-> Idle]
  /\ loginSlots' = 0 /\ loginFailures' = <<>> /\ guesses' = NoGuesses
  /\ UNCHANGED <<now, passwords, keys>>

LoginStep(c) ==
  \/ \E r \in Remotes, p \in Passwords : Arrive(c, r, p)
  \/ TurnAway(c) \/ ReadHash(c) \/ OpenSession(c) \/ RefuseLogin(c)
  \/ LoginBusy(c) \/ RecordFailure(c) \/ AnswerLogin(c)

ChangeStep(c) ==
  \/ \E t \in Tokens, p, q \in Passwords : AskChange(c, t, p, q)
  \/ VerifyChange(c) \/ CommitChange(c) \/ FailChange(c)

KeyStep == \E k \in Keys : (k # LegacyKey /\ CreateAPIKey(k)) \/ RevokeAPIKey(k)

AccessNext ==
  \/ AccessTick \/ Start \/ Stop \/ KeyStep
  \/ \E c \in Requests : LoginStep(c) \/ ChangeStep(c)
  \/ \E t \in Tokens : Logout(t)

AccessSpec == AccessInit /\ [][AccessNext]_accessVars
---------------------------------------------------------------------------
(* Properties.                                                             *)

Entry == [failures : Nat, firstFailure : Nat, blockedUntil : Nat, lastSeen : Nat]
Guesses == [first : Nat, count : Nat, at : Nat]
RequestStates ==
  {Idle}
  \cup [stage : {"arrived"}, key : Remotes, at : Nat, password : Passwords]
  \cup [stage : {"verifying"}, key : Remotes, at : Nat, password : Passwords,
        encoded : Hashes \cup {NoHash}]
  \cup [stage : {"accepted"}, key : Remotes]
  \cup [stage : {"refused"}, key : Remotes, at : Nat]
  \cup [stage : {"authorised"}, current : Passwords, new : Passwords]
  \cup [stage : {"changing"}, encoded : Hashes, new : Passwords]

Holding(c) == req[c].stage \in {"verifying", "accepted", "refused"}

\* Every variable has its type, the throttle's map never outgrows its limit,
\* and each slot taken belongs to a login still being verified or answered.
AccessTypeOK ==
  /\ now \in Nat /\ serving \in BOOLEAN /\ restarts \in Nat
  /\ admin_credentials \in Hashes \cup {NoHash}
  /\ DOMAIN admin_sessions \subseteq Tokens
  /\ \A t \in DOMAIN admin_sessions :
       admin_sessions[t] \in [expires_at : Nat, revoked : BOOLEAN, under : Nat]
  /\ \A c \in Requests : req[c] \in RequestStates
  /\ loginSlots \in 0..Concurrency
  /\ loginSlots = Cardinality({c \in Requests : Holding(c)})
  /\ DOMAIN loginFailures \subseteq Remotes
  /\ Cardinality(DOMAIN loginFailures) <= Entries
  /\ \A r \in DOMAIN loginFailures : loginFailures[r] \in Entry
  /\ \A r \in Remotes : guesses[r] \subseteq Guesses
  /\ DOMAIN api_keys \subseteq Keys /\ revoked \subseteq Keys
  /\ \A k \in DOMAIN api_keys : api_keys[k] \in BOOLEAN

\* Every session row was opened with the password in force: however a login's
\* verification, a password change and a logout interleave, no session opened
\* under a replaced password is left once the change commits, and none appears
\* after it.
SessionsUnderCurrent ==
  \A t \in DOMAIN admin_sessions :
    /\ admin_credentials # NoHash
    /\ admin_sessions[t].under = admin_credentials.salt

\* A stored password is replaced only by a request that gave the password it
\* replaces: of two changes made at once with the same current password the
\* second is refused, and no change undoes one its operator never saw.
NoLostChange ==
  [][ admin_credentials' # admin_credentials /\ admin_credentials # NoHash
        => \E c \in Requests : /\ req[c].stage = "changing"
                               /\ req[c].encoded = admin_credentials ]_accessVars

\* A revoked merchant key never authenticates again, whatever is created or
\* revoked later and however often the process restarts with the bootstrap key
\* still in its environment.
RevokedStaysRevoked == \A k \in revoked : ~Authenticates(k)

\* However logins overlap, and whatever the order their failures are recorded
\* in, few failures are counted against a remote for logins started within a
\* block's length: those below the limit, of two runs of which the earlier has
\* begun before; and from the limit on, each request in flight once when the
\* block begins and once when it ends, though a late failure moves the end of
\* the block backwards.
StartedWithin(r, t) == {g \in guesses[r] : g.at \in t .. t + Block - 1}
GuessesBounded ==
  \A r \in Remotes, t \in 1..MaxClock :
    Cardinality(StartedWithin(r, t)) <= 2 * (Limit + Cardinality(Requests) - 2)
=============================================================================
