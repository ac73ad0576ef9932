\* two chunks through one filter, three-bit INTs
CONSTANTS
    a = a
    b = b
    NULL = NULL
    Error = Error
    Width = 3
    Name = {a, b}
    Cell <- Cells
    Predicates <- AllPredicates
    ChunkLength = 2
    Selections <- LongShort
SPECIFICATION MCSpec
INVARIANTS SameRows SameErrors
