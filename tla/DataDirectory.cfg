\* Files of every earlier build and three reservations of one amount, two
\* processes that start, fail and stop, with two connections each; three backups
\* of which two are kept, one crash or power loss and one failed step.
SPECIFICATION Spec
CONSTANTS
  Profiles = {a, b}
  Reservations = {r1, r2, r3}
  Processes = {p1, p2}
  Nobody = Nobody
  Connections = 2
  Keep = 2
  MaxBackups = 3
  MaxCrashes = 1
  MaxFailures = 1
INVARIANTS
  DirectoryTypeOK
  OneOperates
  ServesCurrentSchema
  AcceptedMeansRestorable
  PublishedPassDrill
  RetainedSurvive
PROPERTIES
  NoNewOverlap
  StartsUp
