SPECIFICATION Spec
CONSTANTS
  Op = {o1, o2}
  Version = {v1}
  NoVersion = NoVersion
  NoState = NoState
  TelemetryCompared = FALSE
  MaxPlays = 1
  MaxSyncs = 1
  MaxCrashes = 0
  MaxFailures = 0
SYMMETRY Symmetry
INVARIANT AcknowledgedPlaybackIsSomewhere
