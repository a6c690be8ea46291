SPECIFICATION Spec
CONSTANTS
  Job = {j1}
  Ticket = {t1, t2}
  Layouts <- OneJob
  Worker = {w1}
  NoWorker = NoWorker
  Session = {s1, s2}
  NoSession = NoSession
  Kinds = {"cancel", "sweep"}
  MaxBegun = 2
PROPERTIES
  SweepCancelsCancelled
CHECK_DEADLOCK FALSE
