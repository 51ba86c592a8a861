\* New objects of S, D and F, whose string members are null.
CONSTANTS
    Null = Null
    NullReference = NullReference
    ArgumentException = ArgumentException
    s1 = s1  s2 = s2  d1 = d1  d2 = d2  f1 = f1  f2 = f2  b1 = b1  e1 = e1
    Decl <- MCDecl
    Obj = {s1, s2, d1, d2, f1, f2}
    ObjType <- PairTypes
    Val = {0, 1}
SPECIFICATION Spec
INVARIANT EqualsNeverThrows
