\* Operator edits that take a cancelled payment back to pending in two steps,
\* with every transaction's clock exact.
SPECIFICATION Spec
CONSTANTS
  Payments = {p1}
  Keys = {k1}
  Amounts = {2}
  Profiles = {Paytm}
  Paytm = Paytm
  Events = {e1}
  Null = Null
  Unit = 2
  Buckets = 1
  ActiveFor = 4
  GraceFor = 1
  Quarantine = 2
  SoftHorizon = 5
  IdempotencyTTL = 4
  ExpireLimit = 1
  MaxLag = 0
  MaxClock = 5
  MaxHistory = 4
  PaidAtInputs = {}
  EditTargets = {"pending", "paid", "expired", "cancelled"}
  OtherEdits = {"nothing"}
  EvidenceSources = {"paytm_notification"}
CHECK_DEADLOCK FALSE
PROPERTIES
  PendingTakesEvidence
