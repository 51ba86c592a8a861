----------------------------- MODULE GenSequence -----------------------------
(***************************************************************************)
(* The C# class that TypesVisitor::visitSequence (Gen.cpp) emits for a     *)
(* Slice sequence: a System.Collections.CollectionBase with an indexer,    *)
(* Add, Insert, Remove, and the generated CompareTo, Equals and            *)
(* GetHashCode.                                                            *)
(*                                                                         *)
(* The state is a heap of objects of the generated class, each holding its *)
(* inner list.  An action is one call of a generated mutator by client     *)
(* code; the generated queries are operators over the current heap, and    *)
(* the properties say what every pair or triple of reachable objects must  *)
(* satisfy.  CollectionBase.OnValidate rejects null with an                *)
(* ArgumentNullException before any change, so a null never enters the     *)
(* list: elements are drawn from Elem only.                                *)
(***************************************************************************)
EXTENDS CsValues, SequencesExt, FiniteSets

CONSTANTS
    Obj,         \* the objects of the generated sequence class
    Elem,        \* element values (see CsValues for the abstraction)
    ElemIsValue, \* isValueType(p->type()) for the element type
    MaxLen       \* bound on the length of a list

ASSUME Elem \subseteq Nat /\ Null \notin Elem
ASSUME ElemIsValue \in BOOLEAN /\ MaxLen \in Nat

VARIABLE list   \* list[o]: the inner list of object o, index 0 is list[o][1]

vars == <<list>>

Init == list = [o \in Obj |-> <<>>]

-----------------------------------------------------------------------------
(* The generated mutators (lines 573-613); an out-of-range index throws    *)
(* ArgumentOutOfRangeException and changes nothing.                        *)

\* set accessor of the indexer: List[index] = value
SetItem(o, i, v) ==
    /\ i \in 0..(Len(list[o]) - 1)
    /\ list' = [list EXCEPT ![o][i + 1] = v]

\* public int Add(s value) { return List.Add(value); }
Add(o, v) ==
    /\ Len(list[o]) < MaxLen
    /\ list' = [list EXCEPT ![o] = Append(@, v)]

\* public void Insert(int index, s value) { List.Insert(index, value); }
Insert(o, i, v) ==
    /\ Len(list[o]) < MaxLen
    /\ i \in 0..Len(list[o])
    /\ list' = [list EXCEPT ![o] = InsertAt(@, i + 1, v)]

\* public void Remove(s value) (named RemoveValue here, SequencesExt has a
\* Remove): removes the first equal element; a value
\* that is not there throws ArgumentException and changes nothing.
RemoveValue(o, v) ==
    /\ Contains(list[o], v)
    /\ list' = [list EXCEPT ![o] = RemoveFirst(@, v)]

Next ==
    \E o \in Obj, v \in Elem :
        \/ \E i \in 0..(MaxLen - 1) : SetItem(o, i, v)
        \/ Add(o, v)
        \/ \E i \in 0..MaxLen : Insert(o, i, v)
        \/ RemoveValue(o, v)

Spec == Init /\ [][Next]_vars

-----------------------------------------------------------------------------
(* The generated queries.  Objects are compared by identity first          *)
(* (object.ReferenceEquals), then by their lists.                          *)

\* The loop of CompareTo from index i on, and the length test after it.
RECURSIVE CompareFrom(_, _, _, _)
CompareFrom(x, y, i, limit) ==
    IF i > limit
    THEN IF Len(x) < Len(y) THEN -1 ELSE IF Len(x) > Len(y) THEN 1 ELSE 0
    ELSE IF ~ElemIsValue /\ x[i] = Null /\ y[i] # Null
    THEN -1
    ELSE LET r == MemberCompareTo(x[i], y[i])
         IN  IF r # 0 THEN r ELSE CompareFrom(x, y, i + 1, limit)

\* Mutant: the loop stops one element early.
CompareToShortLoop(a, b) ==
    IF b = Null THEN 1
    ELSE IF a = b THEN 0
    ELSE LET limit == IF Len(list[a]) < Len(list[b])
                      THEN Len(list[a]) ELSE Len(list[b])
         IN  CompareFrom(list[a], list[b], 1, limit - 1)

\* public int CompareTo(object __other), for __other an object of the class
\* or null.
CompareTo(a, b) ==
    IF b = Null THEN 1
    ELSE IF a = b THEN 0
    ELSE LET limit == IF Len(list[a]) < Len(list[b])
                      THEN Len(list[a]) ELSE Len(list[b])
         IN  CompareFrom(list[a], list[b], 1, limit)

\* Mutant: Equals tests the sign of CompareTo with <= instead of =.
EqualsLessOrEqual(a, b) ==
    IF b = Null THEN NullReference
    ELSE IF Len(list[a]) # Len(list[b]) THEN FALSE
    ELSE LET r == CompareTo(a, b)
         IN  IF r \in Exceptions THEN r ELSE r <= 0

\* public override bool Equals(object other): the cast of other is
\* dereferenced before anything else.
Equals(a, b) ==
    IF b = Null THEN NullReference
    ELSE IF Len(list[a]) # Len(list[b]) THEN FALSE
    ELSE LET r == CompareTo(a, b)
         IN  IF r \in Exceptions THEN r ELSE r = 0

\* public override int GetHashCode()
GetHashCode(a) ==
    LET Step(h, x) == IF ~ElemIsValue /\ x = Null THEN h ELSE HashStep(h, x)
    IN  FoldLeft(Step, 0, list[a])

-----------------------------------------------------------------------------
(* Reference definition: the order spec section 4.3 gives sequences.  The  *)
(* first differing element in the common prefix decides; if there is      *)
(* none, the shorter sequence sorts first.                                 *)
LexCompare(x, y) ==
    LET diff == {i \in 1..Len(x) : i <= Len(y) /\ x[i] # y[i]}
    IN  IF diff # {} THEN Sign(x[Min(diff)] - y[Min(diff)])
        ELSE Sign(Len(x) - Len(y))

(* The generated CompareTo orders any two objects, after any sequence of   *)
(* Add, Insert, Remove and indexer calls on them, exactly as the           *)
(* reference order: lexicographic, equal prefix shorter first.  Since that *)
(* order is total, this gives antisymmetry and transitivity of CompareTo.  *)
CompareIsLexOrder ==
    \A a, b \in Obj : CompareTo(a, b) = LexCompare(list[a], list[b])

(* Two objects the generated Equals calls equal have the same generated    *)
(* GetHashCode (the contract hash-based collections rely on).              *)
EqualsHashConsistent ==
    \A a, b \in Obj : Equals(a, b) = TRUE => GetHashCode(a) = GetHashCode(b)

=============================================================================
