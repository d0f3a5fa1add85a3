\* One operator disables the webhook of a deployment that still has the
\* webhook's environment variables.
SPECIFICATION Spec
CONSTANTS
  Deliveries = {}
  Callers = {c1}
  Endpoints = {shop}
  Off = Off
  Idle = Idle
  EnvEndpoint = shop
  MaxAttempts = 2
  BatchSize = 1
  MaxSecrets = 1
  MaxCrashes = 1
  MaxRetries = 0
  MaxLostWrites = 0
CHECK_DEADLOCK FALSE
PROPERTIES
  DisabledStaysDisabled
