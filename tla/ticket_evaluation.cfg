SPECIFICATION Spec
CONSTANTS
  Metrics <- SmallMetrics
  Files <- SmallFiles
  Answers <- SomeAnswers
  Gone = Gone
  MaxAttempts = 4
  Backoff <- Delays
  TraverseBelow <- TraverseOn
  StorableInside <- StorableOn
INVARIANTS
  NamedKeysMeanTheFile
  RetriesAreJustified
  VerdictsAreEarned
  
CHECK_DEADLOCK FALSE
