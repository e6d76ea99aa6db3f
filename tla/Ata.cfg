CONSTANTS
    NumDrives = 2
    SectorSize = 3
    Sectors <- MCSectors
    Word = 12
    MaxCalls = 2
    Requests <- MCRequests
SPECIFICATION Spec
INVARIANTS WriteExact ReadExact InBounds
PROPERTY CallReturns
