\* dictionary<int, int>: Equals against GetHashCode.
CONSTANTS
    Null = Null
    NullReference = NullReference
    Obj = {o1, o2}
    Key = {1, 2}
    Val = {1, 2}
    ValueIsValue = TRUE
SPECIFICATION Spec
INVARIANT EqualsHashConsistent
