CONSTANTS
    Lines = {0, 1, 4, 7, 14}
    IntArgs <- MCIntArgs
    Faults = {6, 14}
SPECIFICATION Spec
INVARIANTS ReturnsExact OnlyCascadeLeft KeyNotForgotten
PROPERTY LinesServed
