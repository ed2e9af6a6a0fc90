SPECIFICATION Spec
CONSTANTS
  TM_MAX_CHANNELS = 2
  TM_MAX_CONNECTIONS = 2
  TM_PULSE_QUEUE_LEN = 2
  Threads <- MCThreads
  Chids = {1}
  FlagSets <- MCFlags
  Servers = {2}
  Clients = {3}
  MayExit = {3}
  Convention = TRUE
  MaxSlot <- MCSlots
  MaxBadge = 2
  MaxGlobal = 1
CHECK_DEADLOCK FALSE
INVARIANTS RowMatchesCap   NoForgottenPulse
