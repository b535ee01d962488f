SPECIFICATION FairSpec
CONSTANTS
  Writer = {w1, w2}
  NoWriter = NoWriter
  Stream = {"s", "t"}
  EventId = {e1, e2}
  MaxBatch = 2
  MaxLength = 1
INVARIANTS HistoryIsContiguous OutboxMatchesHistory OnlyDeclaredErrors AppendedIsStored
PROPERTIES ImplementsEventLog AppendsTerminate
