\* two aggregates that may print alike
CONSTANTS
    Width = 16
    LimitWidth = 8
    Catalog <- TwoTables
    Rows <- RowsOf
    Statements <- Alike
    Texts <- NoTexts
SPECIFICATION Spec
CHECK_DEADLOCK FALSE
INVARIANT ReadsWhatItNamesAlways
