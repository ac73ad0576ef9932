\* INT keys: either algorithm, either build side
CONSTANTS
    one = one
    two = two
    NULL = NULL
    Key <- ExactKeys
    Text <- OwnText
    Equal <- SameKey
    Algorithms = {"hash", "loop"}
    MaxFrom = 2
    MaxJoin = 3
    BatchSize = 2
    Lanes = 2
SPECIFICATION Spec
INVARIANTS TypeOK JoinExact InOrder
PROPERTIES Implements Ends
