\* long enough for a column of two runs to be worth encoding
CONSTANTS
    c = c
    NaN = NaN
    Num = {0, 1}
    Col = {c}
    ChunkSize = 4
    MaxLen = 9
SPECIFICATION Spec
INVARIANT TypeOK
INVARIANT ReadsBack
INVARIANT ZonesExact
INVARIANT DecodeExact
