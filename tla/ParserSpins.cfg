SPECIFICATION FairSpec
CONSTANTS
    Kinds = {"form"}
    LineLen = 2
    FieldLen = 1
    DelimLen = 1
    PartHeadLen = 1
    BodyLen = 3
    MaxLine = 2
CHECK_DEADLOCK FALSE
PROPERTY WaitsForMore
