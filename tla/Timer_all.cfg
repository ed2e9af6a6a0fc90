SPECIFICATION Spec
CONSTANTS
  Pids = {2, 3}
  Timed = {2}
  Width = 3
  Second = 2
  Freq = 1
  Times <- SomeTimes
  Intervals <- SomeIntervals
  MaxQuiet = 1
  TM_MAX_SLEEPERS = 2
  TM_PULSE_QUEUE_LEN = 2
INVARIANTS NothingOverdue
PROPERTIES  AlarmIsOwnAndDue SleeperWakes
