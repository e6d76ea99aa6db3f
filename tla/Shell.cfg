CONSTANTS
    Lines <- MCLines
    HeapBlocks = 5
    Large <- MCLarge
    Wrapping <- MCWrapping
    Zero <- MCZero
    NoReturn <- MCNoReturn
SPECIFICATION Spec
INVARIANTS CommandExact ResourcesExplained
