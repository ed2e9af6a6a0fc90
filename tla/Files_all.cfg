SPECIFICATION Spec
CONSTANTS
  Pids = {2, 3}
  Openers = {2}
  StartTable <- TableOf
  Paths <- SomePaths
  Archive <- ThreeEntries
  RootChildren <- TwoChildren
  DevNodes <- OneDev
  SysFiles <- OneSys
  FileLen = 2
  TM_CPIOFS_MAX_CHUNK = 1
  TM_CPIOFS_MAX_DIRS = 1
  TM_PMDIR_MAX_OPEN = 1
  TM_CPIOFS_MAX_SUBDIRS_SEEN = 4
  TM_MAX_CONNECTIONS = 2
  MaxSlot = 3
  MaxOpens = 2
INVARIANTS  EntryFromOwnDir 
CHECK_DEADLOCK FALSE
