SPECIFICATION Spec
CONSTANTS
  MaxProcesses = 4
  Threads <- MCThreads2
  Main = "main"
  ReplySlots = {1, 2}
  Statuses = {0}
  TM_SIG_SEGV = 11
  SpawnOutcomes = {"ok", "early", "late"}
CHECK_DEADLOCK FALSE
INVARIANT NoOrphanThread
PROPERTY ExitStatusFinal
