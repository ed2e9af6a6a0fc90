SPECIFICATION Spec
CONSTANTS
  MaxProcesses = 5
  Threads <- MCThreads1
  Main = "main"
  ReplySlots = {1, 2}
  Statuses = {0}
  TM_SIG_SEGV = 11
  SpawnOutcomes = {"ok", "early"}
CHECK_DEADLOCK FALSE
INVARIANTS TypeOK PidConservation WaiterTracked
 
