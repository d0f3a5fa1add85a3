\* Two payments compete for one amount and are cancelled and reopened while the
\* expiry worker takes one payment a batch.
SPECIFICATION FairSpec
CONSTANTS
  Payments = {p1, p2}
  Keys = {k1, k2}
  Amounts = {2}
  Profiles = {Paytm}
  Paytm = Paytm
  Events = {}
  Null = Null
  Unit = 2
  Buckets = 1
  ActiveFor = 1
  GraceFor = 1
  Quarantine = 1
  SoftHorizon = 5
  IdempotencyTTL = 4
  ExpireLimit = 1
  MaxLag = 1
  MaxClock = 4
  MaxHistory = 3
  PaidAtInputs = {}
  EditTargets = {"pending"}
  OtherEdits = {"nothing"}
  EvidenceSources = {"paytm_notification"}
CHECK_DEADLOCK FALSE
PROPERTIES
  ImplementsRegister
  PendingSettles
