\* A cancellation and an operator's reopening commit in the opposite order of
\* their clocks.
SPECIFICATION Spec
CONSTANTS
  Payments = {p1}
  Keys = {k1}
  Amounts = {2}
  Profiles = {Paytm}
  Paytm = Paytm
  Events = {e1}
  Null = Null
  Unit = 2
  Buckets = 1
  ActiveFor = 2
  GraceFor = 1
  Quarantine = 1
  SoftHorizon = 5
  IdempotencyTTL = 4
  ExpireLimit = 1
  MaxLag = 1
  MaxClock = 4
  MaxHistory = 4
  PaidAtInputs = {}
  EditTargets = {"pending"}
  OtherEdits = {"nothing"}
  EvidenceSources = {"paytm_notification"}
CHECK_DEADLOCK FALSE
PROPERTIES
  CancelledRejectsLateMoney
