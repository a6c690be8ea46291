SPECIFICATION FairSpec
CONSTANTS
  j1 = j1
  j2 = j2
  t1 = t1
  t2 = t2
  Job = {j1}
  Ticket = {t1, t2}
  JobOf <- OneJob
  MaxAttempts <- TwoThenOne
  Worker = {w1, w2}
  Mortal = {w1}
  NoWorker = NoWorker
  Capacity = 1
  ClaimBatch = 2
  RecoveryLimit = 2
  MaxClaims = 3
  MaxResets = 0
INVARIANTS
  AttemptsBounded
PROPERTIES
  LatestClaimRecords
  TicketsEnd
  CancelStopsWork
