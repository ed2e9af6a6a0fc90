SPECIFICATION Spec
CONSTANTS
    Procs = {1, 2}
    BootProcs = {}
    Drivers = {2}
    NumSlots = 11
    SlotFreeMax = 6
    PputFreeMax = 1
    PputPerProc = 2
    RamUts <- RamTwo
    BlockUnits = 2
    MasterUnits = 3
    Mega = 2
    VaMax = 6
    Relro = {8}
    DevBits = 4
    MmapMax = 2
    MmapFreeMax = 1
    DevFramesMax = 2
    DevMapMax = 2
    Lens = {1, 3}
    Phys = {1, 4}
    MaxRequests = 6
INVARIANTS FramesPrivate AnswerIsTrue FreeListsSound
PROPERTIES MappedPagesAreZero
CHECK_DEADLOCK FALSE
