\* Three payments compete for the amounts of two adjacent requests, keys expire
\* and are reused; or two payments on one payable amount, with evidence of both
\* sources racing cancellation, expiry, profile switches and reuse.  Transactions
\* are up to one tick stale.
SPECIFICATION MCSpec
CONSTANTS
  Payments = {p1, p2, p3}
  Keys = {k1, k2}
  Amounts = {2, 4}
  FirstAmount = 3
  Profiles = {Paytm, kotak}
  Paytm = Paytm
  Events = {e1}
  Null = Null
  Unit = 2
  Buckets = 2
  ActiveFor = 1
  GraceFor = 1
  Quarantine = 1
  SoftHorizon = 4
  IdempotencyTTL = 4
  ExpireLimit = 1
  MaxLag = 1
  MaxClock = 5
  MaxHistory = 2
  PaidAtInputs = {}
  EditTargets = {}
  OtherEdits = {"nothing"}
  EvidenceSources = {"paytm_notification", "android_notification"}
SYMMETRY Symmetry
CHECK_DEADLOCK FALSE
INVARIANTS
  AmountsExclusive
  HeldUntilReuse
  ReuseSeparated
  KeyReuseSeparated
  NoMisattribution
  EvidenceFindsItsPayment
PROPERTIES
  LowestFreeBucket
