SPECIFICATION FairSpec
CONSTANTS
  NumWorkers = 2
  NumForeign = 1
  MainWillDonate = TRUE
  BitVectorWidths = {64}
  AffinityCapacity = 2
  TaskListMayFail = FALSE
  Tasks <- NestedTasks
  Body <- NestedBody
  Program <- NestedProgram
INVARIANTS TypeOK TasksConserved WorkSeen ShutdownDrains
PROPERTIES Terminates
CHECK_DEADLOCK FALSE
