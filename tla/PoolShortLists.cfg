SPECIFICATION Spec
CONSTANTS
  NumWorkers = 2
  NumForeign = 1
  MainWillDonate = FALSE
  BitVectorWidths = {1, 64}
  AffinityCapacity = 1
  TaskListMayFail = TRUE
  Tasks <- ShortTasks
  Body <- ShortBody
  Program <- ShortProgram
INVARIANTS TasksConserved ListsSeen
PROPERTY AwaitReturnsReady
CHECK_DEADLOCK FALSE
