SPECIFICATION Spec
CONSTANTS
    Documents <- ParsedDocuments
    Settings <- SampleSettings
    MaxEdited = 0
INVARIANT
    NamespacesPreserved
CHECK_DEADLOCK FALSE
