CONSTANTS
    Word = 256
    HeaderSize = 2
    PageSize = 8
    PlacementBase = 4
    PlacementSize = 1
    HeapBase = 16
    HeapSize = 24
    Sizes = {0, 2, 3, 6, 11}
    Workload = {"kmalloc", "krealloc", "kfree"}
SPECIFICATION Spec
INVARIANTS HeapTiled PayloadsSeparate InUseIffOwned NothingLost
PROPERTY HeldBlocksStable
