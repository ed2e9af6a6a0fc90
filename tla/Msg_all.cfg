SPECIFICATION Spec
CONSTANTS
  Clients = {"c1", "c2"}
  PidOf <- OwnPids
  Workers = {}
  Slots = {"s1", "s2"}
  SavesBulk = FALSE
  TM_BULK_PENDING_MAX = 2
  MaxSends = 5
  MaxBadges = 4
INVARIANTS AnswerIsOwn AnswerIsComplete
 
CHECK_DEADLOCK FALSE
