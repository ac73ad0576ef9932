\* expressions two operators deep over NULLs, zeros and the largest INT of 16 bits
CONSTANTS
    Width = 16
    LimitWidth = 8
    Catalog <- TwoTables
    Rows <- RowsOf
    Statements <- AllStatements
    Texts <- AllTexts
SPECIFICATION Spec
CHECK_DEADLOCK FALSE
INVARIANT ParsedAsWritten
INVARIANT ComputesMeaning
INVARIANT WellTyped
INVARIANT ReadsWhatItNames
