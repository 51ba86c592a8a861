\* Two objects each of struct S, class D extends B and exception F extends E,
\* values {0,1} and null; two IntSeq objects of up to three elements and two
\* Names objects: every property is about pairs, and any two reachable
\* values of one class are a reachable pair.
CONSTANTS
    Null = Null
    NullReference = NullReference
    ArgumentException = ArgumentException
    s1 = s1  s2 = s2  d1 = d1  d2 = d2  f1 = f1  f2 = f2  b1 = b1  e1 = e1
    Decl <- MCDecl
    Obj = {s1, s2, d1, d2, f1, f2}
    ObjType <- PairTypes
    Val = {0, 1}
    SeqObj = {q1, q2}
    DictObj = {m1, m2}
    Elem = {1, 2}
    MaxLen = 3
    Key = {1, 2}
    DictVal = {1, 2}
SPECIFICATION ValueSpec
SYMMETRY Symmetry
INVARIANT TypeOK
INVARIANT CompareIsRefOrder
INVARIANT EqualsHashConsistent
INVARIANT SeqCompareIsLexOrder
INVARIANT SeqEqualsHashConsistent
INVARIANT DictCompareAntisymmetric
INVARIANT DictPermutedAssociationsCompareEqual
