SPECIFICATION Spec
CONSTANTS
    Inputs <- SampleInputs
    Versions = {"Xml10", "Xml11"}
    max_document_bytes = 6
INVARIANTS
    TypeOK
    RefusesTheIllFormed
    DecodesTheInput
    LocationsAreRight
CHECK_DEADLOCK FALSE
