\* chunks of two batches, the last one short; limits that fall inside, between
\* and beyond batches
CONSTANTS
    a = a
    b = b
    NaN = NaN
    NoLimit = NoLimit
    Num = {0, 1}
    Col = {a, b}
    ChunkSize = 4
    BatchSize = 2
    MaxRows = 5
    Wheres <- AllWheres
    Limits = {NoLimit, 0, 1, 2, 3}
    Projects <- AnyProject
    Failings <- SomeFail
SPECIFICATION MCSpec
INVARIANT TypeOK
INVARIANT Complete
INVARIANT NoGap
INVARIANT NoDuplicate
INVARIANT ErrorBound
PROPERTY LimitStopsScan
PROPERTY Implements
PROPERTY Ends
