SPECIFICATION ApplicationSpec
CONSTANTS
    Bytes = {"a", "b"}
    Chunks <- MCChunks
    max_document_bytes = 3
    MaxNesting = 3
    Documents <- SampleDocuments
    Settings <- SampleSettings
    MaxEdited = 1
INVARIANTS
    TypeOK
    FinishParsesWhatWasAccepted
    KeptUntilFinished
    ReadsBack
    ReadsTheLastWrite
CHECK_DEADLOCK FALSE
