SPECIFICATION MCSpec
CONSTANTS
  Op = {o1}
  Version = {v1}
  NoVersion = NoVersion
  NoState = NoState
  TelemetryCompared = FALSE
  MaxPlays = 2
  MaxSyncs = 2
  MaxCrashes = 1
  MaxFailures = 1
INVARIANTS AcknowledgedPlaybackIsKept QueuedRecordsAreAccepted
PROPERTIES SequenceNeverRegresses PlaybacksAreDelivered PlayerGoesOn
CHECK_DEADLOCK FALSE
