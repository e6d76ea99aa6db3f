CONSTANTS
    Capacity = 2
    Scancodes = {28, 14, 30, 12}
    SplitUpdate = TRUE
    HeapMayFail = TRUE
    MaxKeys = 5
SPECIFICATION Spec
INVARIANT SizeNeverOver
