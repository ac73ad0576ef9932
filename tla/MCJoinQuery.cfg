\* Qualified select lists; the system stops when the query is answered
CONSTANTS
    Relations <- RelationsOf
    Tables <- Contents
    Value <- Values
    Selects <- QualifiedSelects
    Ons <- SomeOns
    Wheres <- SomeWheres
SPECIFICATION QuerySpec
INVARIANTS RejectsInvalid PlanExact OrderExact PushedDown
CHECK_DEADLOCK FALSE
