CONSTANTS
    Capacity = 2
    Scancodes = {28, 14, 30, 12, 29, 158, 96}
    SplitUpdate = FALSE
    HeapMayFail = FALSE
    MaxKeys = 5
SPECIFICATION Spec
INVARIANTS TypeOK InputInOrder LineInBounds LinesAsTyped
PROPERTIES ImplementsQueue EnterReturnsLine
