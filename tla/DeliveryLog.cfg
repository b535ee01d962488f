SPECIFICATION MCSpec
CONSTANTS
  Worker = {w1, w2, w3}
  NoWorker = NoWorker
  Key = {"k", "l"}
  Digest = {"d", "e"}
  Result = {r1, r2}
  NoReceipt = NoReceipt
  TextAcceptsNul = TRUE
  Publisher = {p1, p2}
  EventId = {1, 2}
  Token = {t1, t2, t3}
  NoToken = NoToken
  Limit = 1
  Lease = 1
  MaxTime = 2
  Delivery = {d1, d2}
  Uncloneable = {"l"}
  MaxApplied = 2
  None = None
SYMMETRY Symmetry
INVARIANTS
  EffectsMatchReceipts AnswersAreRight
  LeasesAreExclusive TokensAreUnique PublishedUnderItsLease
PROPERTIES
  ImplementsExactlyOnce ImplementsLease MemoryImplementsExactlyOnce
