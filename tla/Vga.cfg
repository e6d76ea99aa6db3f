CONSTANTS
    Width = 3
    Height = 2
    Glyphs = {"a", "b"}
    MaxLine = 6
SPECIFICATION Spec
INVARIANTS TypeOK BlankAhead LineShown TopLineErasable
