SPECIFICATION MCSpec
CONSTANTS
  c1 = c1
  c2 = c2
  e1 = e1
  e2 = e2
  e3 = e3
  Caller = {c1, c2}
  Evidence = {e1, e2, e3}
  Nameless = {e3}
  GrossLimit = 100
  CycleId <- OneCycleId
  Offers <- AllOffers
  NoSettlement = NoSettlement
  Flush = {f, g}
  MaxCalls = 3
INVARIANTS SplitsAreFair OnlyEmptyTextsAreRefused AnswersAreRight ProducedIsKept
PROPERTIES ImplementsSettleOnce
