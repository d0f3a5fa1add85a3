\* One payment under every handler: operator edits of every kind race the
\* expiry worker, cancellation and two relayed events.
SPECIFICATION Spec
CONSTANTS
  Payments = {p1}
  Keys = {k1}
  Amounts = {2}
  Profiles = {Paytm}
  Paytm = Paytm
  Events = {e1, e2}
  Null = Null
  Unit = 2
  Buckets = 1
  ActiveFor = 1
  GraceFor = 1
  Quarantine = 1
  SoftHorizon = 5
  IdempotencyTTL = 4
  ExpireLimit = 1
  MaxLag = 1
  MaxClock = 2
  MaxHistory = 3
  PaidAtInputs = {0}
  EditTargets = {"pending", "paid", "expired", "cancelled"}
  OtherEdits = {"nothing", "note", "context"}
  EvidenceSources = {"paytm_notification"}
SYMMETRY Symmetry
CHECK_DEADLOCK FALSE
INVARIANTS
  TypeOK
  OutboxTellsStatus
