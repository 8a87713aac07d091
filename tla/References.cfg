SPECIFICATION EitherSpec
CONSTANTS
    EntityNames <- MCEntityNames
    Bytes = {"w", "x", "y"}
    EntityTables <- MCEntityTables
    max_entity_expansions = 6
    max_entity_replacement_bytes = 6
    MaxReferences = 2
    Texts <- ShortTexts
    MaxValue = 31
    XmlChars <- FiveBitChars
INVARIANTS
    TypeOK
    RecursionIsBounded
    ExpansionIsBounded
    NumberIsExact
    VerdictIsRight
PROPERTIES
    DeliversTheSubstitution
    OnlyGroundedEntitiesDeliver
    ExpansionEnds
CHECK_DEADLOCK FALSE
