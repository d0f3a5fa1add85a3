\* One phone sends two events singly and in batches; a batch fails half-way, its
\* answer is lost, the server crashes, the phone is paired again.
SPECIFICATION FairSpec
CONSTANTS
  Devices = {phone}
  Events = {e1, e2}
  Requests = {r1}
  Tokens = {t1}
  Null = Null
  Idle = Idle
  PostTolerance = 1
  OccurTolerance = 0
  PairingTTL = 1
  Retention = 1
  BatchLimit = 2
  Kinds = {"credit"}
  MaxSkew = 0
  MaxLag = 0
  MaxClock = 2
  MaxFaults = 1
CHECK_DEADLOCK FALSE
INVARIANTS
  AnsweredIsDecided
PROPERTIES
  EventsAnswered
