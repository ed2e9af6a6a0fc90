SPECIFICATION Spec
CONSTANTS
  Threads <- Three
  Mutexes = {"m"}
  Conds = {"c"}
  Sems = {"s", "r"}
  SemInit = 0
  Programs <- OnlyMutexTrio
  MaxEntries = 2
  MaxWaiters = 2
CHECK_DEADLOCK FALSE
PROPERTY MutexWaiterWoken
