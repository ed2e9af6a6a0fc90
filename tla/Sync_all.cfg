SPECIFICATION Spec
CONSTANTS
  Threads <- Three
  Mutexes = {"m"}
  Conds = {"c"}
  Sems = {"s", "r"}
  SemInit = 0
  Programs <- AllPrograms
  MaxEntries = 2
  MaxWaiters = 2
CHECK_DEADLOCK FALSE
INVARIANTS HolderOwns NoLostSleeper  SemConserved JoinAfterQuietExit
PROPERTIES MutexPairWoken LoneSemWaiterWoken
