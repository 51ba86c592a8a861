\* dictionary<int, int>: transitivity of CompareTo.
CONSTANTS
    Null = Null
    NullReference = NullReference
    Obj = {o1, o2, o3}
    Key = {1, 2, 3}
    Val = {1, 2, 3}
    ValueIsValue = TRUE
SPECIFICATION Spec
INVARIANT CompareTransitive
