CONSTANTS
    Word = 256
    HeaderSize = 2
    PageSize = 8
    PlacementBase = 5
    PlacementSize = 14
    HeapBase = 24
    HeapSize = 32
    Sizes = {2, 6, 11}
    Workload = {"kmalloc", "kmalloc_align"}
SPECIFICATION Spec
INVARIANTS PlacementSeparate PayloadsSeparate AllBlocksListed
