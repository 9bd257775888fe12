SPECIFICATION FairSpec
CONSTANTS
  pr1 = pr1
  pr2 = pr2
  Procs = {pr1, pr2}
  Slots = {w0}
  Jobs = {jb1, jb2}
  Started <- TwoProcesses
  NoWorker = NoWorker
  NoJob = NoJob
  MaxAttempts = 2
  StaleAfter = 1
  MaxStops = 1
  Timely = TRUE
  KillsChildren = TRUE
INVARIANT OneRenderAtATime
PROPERTY JobsSettle
