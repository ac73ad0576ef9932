\* tables of up to 3 and 2 rows, a self join, no join; limits before, inside
\* and after the answer; chunks of 2 rows; select lists that raise
CONSTANTS
    k = k
    NaN = NaN
    NoLimit = NoLimit
    NoTable = NoTable
    Num = {0, 1}
    Col = {k}
    JoinCol = k
    Text <- KeyText01
    ChunkSize = 2
    MaxFrom = 3
    MaxJoin = 2
    Wheres <- FewWheres
    Limits = {NoLimit, 0, 1, 2}
    Failings <- FewFailings
SPECIFICATION Spec
INVARIANT ScansWhole
INVARIANT ErrorExact
PROPERTY Implements
PROPERTY Ends
