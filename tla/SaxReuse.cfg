SPECIFICATION SessionSpec
CONSTANTS
    Bytes = {"a", "b"}
    Chunks <- MCChunks
    max_document_bytes = 3
    MaxNesting = 3
PROPERTY NotReusedAfterFinish
