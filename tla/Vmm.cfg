CONSTANTS
    PageSize = 4
    NumPages = 18
    TableSize = 3
    KernelBase = 8
    RealPages = 2
    KernelSize = 5
    HeapSize = 17
    MaxRegions = 5
    MemoryMaps <- LowMaps
SPECIFICATION Spec
INVARIANTS FramesNotShared KernelMapped FreeFramesAreRam FramesAccounted
