SPECIFICATION MCSpec
CONSTANTS
  Update <- MCUpdate
  Initial <- MCInitial
  Index = {0, 1, 2}
  LocalTime <- MCLocalTime
  MaxTime = 3
  MaxRestarts = 1
  SlotCount = 10
  SlotSeconds = 15
  Available <- MCAvailable
  Media <- MCMedia
  Fallbacks <- MCFallbacks
  Campaign = {c1}
  Slot = {s1, s2}
  Creative = {v1, v2}
  Name = {n1}
  Content = {t1}
  Caller = {k1, k2}
  None = none
  MaxPlays = 1
  MaxEdgeRestarts = 1
  FactType = {"board", "key"}
  IdentityFact = {"board"}
  Requirement = {"one", "both", "physical"}
  Physical = {"physical"}
  RequiredFacts <- MCRequiredFacts
  Capability = {"one", "both"}
  CapabilityFacts <- MCCapabilityFacts
  AndroidCommand <- MCAndroidCommand
  Observes <- MCObserves
  Answer = {1}
  Intake <- MCIntake
  MaxRecords = 2
  Nothing = nothing
INVARIANTS
  AcceptedIsInForce ReportedOnce AcknowledgedIsReported PlannedDayIsSound
  AnswersAreAsAsked PlaysAreAttributed QueuedEventsAreAcceptable
  SatisfiedIsEvidenced ValidationsAreOfOneDiscovery
PROPERTY ImplementsRegistry
SYMMETRY Symmetry
CHECK_DEADLOCK FALSE
