SPECIFICATION Spec
CONSTANTS
  r1 = r1
  r2 = r2
  r3 = r3
  r4 = r4
  r5 = r5
  k = k
  agent = agent
  other = other
  Uuid = {agent, other}
  Huge = Huge
  RunnerMaxAttempts = 3
  DefaultPolicy = "fail"
  MaxInteger = 3
  Request = {r1, r2, r3, r4, r5}
  Key = {k}
  NoKey = NoKey
  BadKey = BadKey
  KeyOf <- Keys
  BodyOf <- Bodies
  Folder <- Folders
  NoFolder = NoFolder
INVARIANTS
  TypeOK
  KeyNamesOneJob
  JobsAreWhole
  TicketsCoverDataset
  AnswersAreTrue
  RacesAreResolved
PROPERTIES
  EveryRequestAnswered
CHECK_DEADLOCK FALSE
