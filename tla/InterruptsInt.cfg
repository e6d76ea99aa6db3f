CONSTANTS
    Lines = {0, 1}
    IntArgs = {8, 13}
    Faults = {14}
SPECIFICATION Spec
INVARIANT ReturnsExact
