\* Unqualified select list with an alias
CONSTANTS
    Relations <- RelationsOf
    Tables <- Contents
    Value <- Values
    Selects <- UnqualifiedSelects
    Ons <- SomeOns
    Wheres <- SomeWheres
SPECIFICATION QuerySpec
INVARIANT RejectsInvalid
CHECK_DEADLOCK FALSE
