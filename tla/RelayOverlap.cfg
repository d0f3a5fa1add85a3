\* One phone that is paired, revoked and paired again repeats one event in two
\* overlapping requests, with failures, a crash and the retention worker.
SPECIFICATION Spec
CONSTANTS
  Devices = {phone}
  Events = {e1}
  Requests = {r1, r2}
  Tokens = {t1}
  Null = Null
  Idle = Idle
  PostTolerance = 1
  OccurTolerance = 0
  PairingTTL = 1
  Retention = 1
  BatchLimit = 1
  Kinds = {"credit", "unclear", "noise"}
  MaxSkew = 1
  MaxLag = 1
  MaxClock = 3
  MaxFaults = 1
CHECK_DEADLOCK FALSE
INVARIANTS
  TypeOK
PROPERTIES
  ImplementsEvents
  VerdictsFinal
  EnrolmentWins
  EpochsGrow
