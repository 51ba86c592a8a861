CONSTANTS
    Names <- MCNames
    Schemas <- MCSchemas
SPECIFICATION Spec
INVARIANT InterfaceExtendsBases
CHECK_DEADLOCK FALSE
