SPECIFICATION Spec
CONSTANTS
  Ticket = {t1}
  Later = {}
  MaxConcurrency = 1
  ClaimBatch = 1
  Modes = {FALSE}
  MaxFailures = 0
  NoTicket = NoTicket
PROPERTIES
  AbandonedLosesLease
CHECK_DEADLOCK FALSE
