CONSTANTS
    Names <- MCNames
    Schemas <- MCSchemas
SPECIFICATION Spec
INVARIANT EveryBaseDeclared
CHECK_DEADLOCK FALSE
