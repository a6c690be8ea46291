SPECIFICATION Spec
CONSTANTS
  Ticket = {t1, t2, t3}
  Later = {t2, t3}
  MaxConcurrency = 2
  ClaimBatch = 2
  Modes = {TRUE, FALSE}
  MaxFailures = 1
  NoTicket = NoTicket
INVARIANTS
  TypeOK
  EveryClaimHasAThread
  DrainProcessesAll
PROPERTIES
  WorkIsTaken
  StopIsHeeded
  DrainEnds
CHECK_DEADLOCK FALSE
