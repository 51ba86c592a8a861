\* A base and a derived object of class ID extends IB and of exception
\* IX extends IE, int members only.
CONSTANTS
    Null = Null
    NullReference = NullReference
    ArgumentException = ArgumentException
    s1 = s1  s2 = s2  d1 = d1  d2 = d2  f1 = f1  f2 = f2  b1 = b1  e1 = e1
    Decl <- MCDecl
    Obj = {b1, d1, e1, f1}
    ObjType <- BaseAndDerived
    Val = {0, 1}
SPECIFICATION Spec
INVARIANT EqualsSymmetric
