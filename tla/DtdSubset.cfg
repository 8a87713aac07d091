SPECIFICATION Spec
CONSTANTS
    Names = {"a", "b", "c"}
    Models = {"EMPTY", "ANY"}
    Literals = {"'v'", "'long'"}
    Oversized = {"'long'"}
    Others = {"<!ATTLIST"}
    InternalTexts <- Internal
    ExternalTexts <- External
    max_dtd_declarations = 2
    max_external_subset = 15
INVARIANTS
    DeclarationsAreCounted
    ExternalOnRequest
    DeclaresWhatIsWritten
CHECK_DEADLOCK FALSE
