SPECIFICATION Spec
CONSTANTS
  Pids = {2, 3}
  Programs <- FivePrograms
  StdioSlots <- TwoStdio
  RowMax = 7
  ThreadMax = 1
  TidMax = 3
  MprotMax = 1
  FsMaxMf = 1
  MaxRequests = 5
  NumSlots = 40
  SlotFreeMax = 24
  PputFreeMax = 2
  PputPerProc = 2
  RamUts <- RamFour
  BlockUnits = 8
  MasterUnits = 10
INVARIANTS SlotsSound ProcessIntact 
 
CHECK_DEADLOCK FALSE
