SPECIFICATION Spec
CONSTANTS
  j1 = j1
  j2 = j2
  t1 = t1
  t2 = t2
  Job = {j1}
  Ticket = {t1, t2}
  JobOf <- OneJob
  MaxAttempts <- TwoThenOne
  Worker = {w1, w2}
  Mortal = {w1, w2}
  NoWorker = NoWorker
  Capacity = 2
  ClaimBatch = 2
  RecoveryLimit = 1
  MaxClaims = 2
  MaxResets = 1
SYMMETRY WorkerSymmetry
INVARIANTS
  TypeOK
  RowShape
  ProgressExact
  ResultMatchesTicket
PROPERTIES
  VerdictsAreFinal
  NoVerdictAfterCancel
  OnlyOwnerRecords
  PromiseKept
