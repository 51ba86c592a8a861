CONSTANTS
    Names <- MCNames
    Schemas <- MCSchemas
SPECIFICATION Spec
INVARIANT OneOverrideSite
CHECK_DEADLOCK FALSE
