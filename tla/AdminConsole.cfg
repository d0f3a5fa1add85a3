\* Two requests at a time log in, change the password and log out; one remote
\* fails often enough to be blocked, and two crowd a throttle of two entries;
\* profiles are saved, activated and redirected by operators and a phone.
SPECIFICATION Spec
CONSTANTS
  Passwords = {pw1, pw2}
  Requests = {q1, q2}
  Remotes = {r1, r2}
  Tokens = {s1, s2}
  NoHash = NoHash
  LegacyKey = legacy
  CreatedKeys = {k1, k2}
  BootstrapPasswords = {pw1}
  Limit = 2
  Window = 5
  Block = 2
  Entries = 2
  Concurrency = 1
  SessionTTL = 1
  MaxLogin = 1
  MaxClock = 6
  MaxChanges = 2
  MaxRestarts = 1
  Profiles = {a, b}
  Active = active
  Destinations = {upi1, upi2}
  Phones = {phone1}
  Calls = {c1, c2}
  MaxEpochs = 2
  OneRemote = r1
SYMMETRY Symmetry
CHECK_DEADLOCK FALSE
INVARIANTS
  TypeOK
  SessionsUnderCurrent
  RevokedStaysRevoked
  GuessesBounded
  OneProfileServes
PROPERTIES
  NoLostChange
  RePairingInvalidates
