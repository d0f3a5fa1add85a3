\* Two events in batches of one, with a crash, lost responses and an operator's
\* retry at every step of the worker; or two operators who configure, rotate and
\* disable the webhook while the worker delivers an event.
SPECIFICATION MCSpec
CONSTANTS
  Deliveries = {d1, d2}
  Callers = {c1, c2}
  Endpoints = {shop}
  OneDelivery = d1
  OneCaller = c1
  Off = Off
  Idle = Idle
  EnvEndpoint = shop
  MaxAttempts = 2
  BatchSize = 1
  MaxSecrets = 1
  MaxCrashes = 1
  MaxRetries = 1
  MaxLostWrites = 1
CHECK_DEADLOCK FALSE
INVARIANTS
  TypeOK
  SettledHonestly
  AttemptsBounded
  StalePostsBounded
  SequentialSettingsLive
PROPERTIES
  EventsSettle
  ImplementsQueue
