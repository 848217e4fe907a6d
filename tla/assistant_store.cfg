SPECIFICATION AssistantStoreSpec
CONSTANTS
  b1 = b1
  b2 = b2
  m1 = m1
  m2 = m2
  o = o
  Builds = {b1, b2}
  Messages = {m1}
  Others = {o}
  None = None
  MaxMessages = 2
  MaxPieces = 1
  MaxTasks = 2
  MaxFailures = 1
  MaxActs = 4
INVARIANTS ScreenIsItsBuilds ScreenIsWhatIsStored BusyIsOneTask
PROPERTY BusyEnds
CHECK_DEADLOCK FALSE
