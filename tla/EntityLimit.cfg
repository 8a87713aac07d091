SPECIFICATION Spec
CONSTANTS
    EntityNames <- MCEntityNames
    Bytes = {"w", "x", "y"}
    EntityTables <- MCEntityTables
    max_entity_expansions = 6
    max_entity_replacement_bytes = 6
    MaxReferences = 2
INVARIANT ReplacementWithinLimit
CHECK_DEADLOCK FALSE
