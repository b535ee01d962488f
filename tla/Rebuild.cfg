SPECIFICATION MCSpec
CONSTANTS
  Caller = {c1, c2}
  NoCaller = NoCaller
  Name = {"p"}
  Generation = {"g", "h", "i"}
  Checkpoint = {0, 1}
  NoHead = NoHead
  Stream = {"s", "t"}
  EventId = {"x1", "x2", "x3"}
  MaxBatch = 2
  Versions = {1, 2, 3, 4}
  Upcasters <- DeployedUpcasters
  MaxSnapshots = 1
SYMMETRY Symmetry
INVARIANTS HeadIsValid AcknowledgedCallsHold RehydrationIsReplay
PROPERTIES CheckpointsOnlyAdvance ImplementsProjectionHeads
