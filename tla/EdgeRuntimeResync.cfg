SPECIFICATION Spec
CONSTANTS
  Op = {o1}
  Version = {v1}
  NoVersion = NoVersion
  NoState = NoState
  TelemetryCompared = TRUE
  MaxPlays = 1
  MaxSyncs = 2
  MaxCrashes = 0
  MaxFailures = 0
INVARIANT QueuedRecordsAreAccepted
