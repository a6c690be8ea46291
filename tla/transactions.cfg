SPECIFICATION Spec
CONSTANTS
  Job = {j1, j2}
  Ticket = {t1, t2}
  Layouts <- AnyJobs
  Worker = {w1}
  NoWorker = NoWorker
  Session = {s1, s2, s3}
  NoSession = NoSession
  Kinds = {"persist", "settle", "claim", "heartbeat", "cancel", "reset", "sweep", "reconcile"}
  MaxBegun = 3
SYMMETRY RowSymmetry
INVARIANTS
  TypeOK
  CommittedProgressExact
  
  NoWaitCycle
PROPERTIES
  CommittedTransitionsLegal
  CancelLeavesNonePending
CHECK_DEADLOCK FALSE
