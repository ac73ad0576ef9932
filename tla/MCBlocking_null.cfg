\* Both engines; any key reaches Volcano's DISTINCT
CONSTANTS
    NULL = NULL
    Key <- Keys
    Arg <- Args
    Text <- Texts
    StreamedKeys <- AnyKeys
    GroupBys <- GroupLists
    OrderBys <- Orders
    MaxRows = 3
    BatchSize = 2
SPECIFICATION Spec
INVARIANT DistinctExact
