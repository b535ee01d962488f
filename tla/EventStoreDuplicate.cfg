SPECIFICATION Spec
CONSTANTS
  Writer = {w1}
  NoWriter = NoWriter
  Stream = {"s"}
  EventId = {e1, e2}
  MaxBatch = 2
  MaxLength = 1
INVARIANT DuplicateConflictNamesDuplicate
