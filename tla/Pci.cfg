CONSTANTS
    Device <- MCDevice
    Positions <- MCPositions
    NumFuncs = 2
    NumCells = 12
    MaxCalls = 2
    BarWord = 256
    PortWord = 64
    Bars <- MCBars
SPECIFICATION Spec
INVARIANTS RegistrySound OnlyOrphansLost ScanExact BarProbed
PROPERTY ImplementsRegistry
