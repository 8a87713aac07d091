SPECIFICATION Spec
CONSTANTS
    OptionSet <- MCDtdOptions
    RawNames <- MCRawNames
    Values <- MCValues
    StartTags <- MCDtdTags
    Doctypes <- MCDoctypes
    MaxTokens = 6
CHECK_DEADLOCK FALSE
PROPERTIES
    CDataIsContent
