SPECIFICATION Spec
CONSTANTS
  j1 = j1
  j2 = j2
  t1 = t1
  t2 = t2
  Job = {j1}
  Ticket = {t1}
  JobOf <- Alone
  MaxAttempts <- Twice
  Worker = {w1, w2}
  Mortal = {w1, w2}
  NoWorker = NoWorker
  Capacity = 2
  ClaimBatch = 2
  RecoveryLimit = 1
  MaxClaims = 3
  MaxResets = 0
INVARIANTS
  AttemptsBounded
