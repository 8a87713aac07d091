SPECIFICATION Spec
CONSTANTS
    Documents <- ParsedDocuments
    Settings <- SettingsByName
    MaxEdited = 1
INVARIANT
    ReadsByQualifiedName
CHECK_DEADLOCK FALSE
