\* Both engines; no two rows of Volcano's DISTINCT print alike
CONSTANTS
    NULL = NULL
    Key <- Keys
    Arg <- Args
    Text <- Texts
    StreamedKeys <- PlainKeys
    GroupBys <- GroupLists
    OrderBys <- Orders
    MaxRows = 3
    BatchSize = 2
SPECIFICATION Spec
INVARIANTS GroupsExact FirstSeenOrder DistinctExact SortedStable
PROPERTY Ends
