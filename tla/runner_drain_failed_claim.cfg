SPECIFICATION Spec
CONSTANTS
  Ticket = {t1, t2}
  Later = {}
  MaxConcurrency = 2
  ClaimBatch = 2
  Modes = {TRUE}
  MaxFailures = 1
  NoTicket = NoTicket
INVARIANTS
  DrainLeavesNothing
CHECK_DEADLOCK FALSE
