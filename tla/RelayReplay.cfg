\* A phone repeats a notification while its first request is in progress.
SPECIFICATION Spec
CONSTANTS
  Devices = {phone}
  Events = {e1}
  Requests = {r1, r2}
  Tokens = {t1}
  Null = Null
  Idle = Idle
  PostTolerance = 1
  OccurTolerance = 0
  PairingTTL = 1
  Retention = 1
  BatchLimit = 1
  Kinds = {"credit", "unclear", "noise"}
  MaxSkew = 1
  MaxLag = 1
  MaxClock = 3
  MaxFaults = 1
CHECK_DEADLOCK FALSE
INVARIANTS
  AnswersAgree
