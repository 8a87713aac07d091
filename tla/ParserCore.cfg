SPECIFICATION FairSpec
CONSTANTS
    OptionSet <- MCOptions
    RawNames <- MCRawNames
    Values <- MCValues
    StartTags <- MCStartTags
    Doctypes <- MCDoctypes
    MaxTokens = 5
CHECK_DEADLOCK FALSE
INVARIANTS
    TypeOK
    StacksAgree
    ResolvedFromOpenElements
    DeliveredAttributesAreDistinct
    FramesHoldDeliveredContent
PROPERTIES
    ReportedIffNonconforming
    DeliversAStream
    ParseEnds
