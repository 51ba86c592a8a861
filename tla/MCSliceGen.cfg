CONSTANTS
    Names <- MCNames
    Schemas <- MCSchemas
SPECIFICATION Spec
INVARIANTS
    OperationsInterfaceComplete
    ProxyOperationsComplete
    ClassImplementsInterfaces
PROPERTIES
    ImplementsOutputSpec
CHECK_DEADLOCK FALSE
