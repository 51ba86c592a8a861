---------------------------- MODULE GenDictionary ----------------------------
(***************************************************************************)
(* The C# class that TypesVisitor::visitDictionary (Gen.cpp) emits for a   *)
(* Slice dictionary: a System.Collections.DictionaryBase with an indexer,  *)
(* Add, Remove, and the generated CompareTo, Equals and GetHashCode.       *)
(*                                                                         *)
(* The state is a heap of objects of the generated class, each holding its *)
(* Hashtable as a function from its keys to their values.  Keys are never  *)
(* null (Hashtable throws ArgumentNullException first); values may be null *)
(* when the value type is not a value type.                                *)
(***************************************************************************)
EXTENDS CsValues, SequencesExt, FiniteSets

CONSTANTS
    Obj,          \* the objects of the generated dictionary class
    Key,          \* key values (see CsValues for the abstraction)
    Val,          \* non-null values
    ValueIsValue  \* isValueType(p->valueType())

ASSUME Key \subseteq Nat /\ Val \subseteq Nat /\ Null \notin Val
ASSUME ValueIsValue \in BOOLEAN

\* What a value slot can hold: null too, unless the value type is a value type.
Value == IF ValueIsValue THEN Val ELSE Val \cup {Null}

VARIABLE dict   \* dict[o]: the Hashtable of object o, a function Keys -> Value

vars == <<dict>>

Init == dict = [o \in Obj |-> <<>>]

\* The function d with key k mapped to v, added or replaced.
Put(d, k, v) == [x \in DOMAIN d \cup {k} |-> IF x = k THEN v ELSE d[x]]

-----------------------------------------------------------------------------
(* The generated mutators (lines 1012-1060).                               *)

\* set accessor of the indexer: Dictionary[key] = value
SetItem(o, k, v) == dict' = [dict EXCEPT ![o] = Put(@, k, v)]

\* public void Add(ks key, vs value) { Dictionary[key] = value; }: an
\* existing key is overwritten, not rejected.
Add(o, k, v) == dict' = [dict EXCEPT ![o] = Put(@, k, v)]

\* public void Remove(ks key) { Dictionary.Remove(key); }: an absent key is
\* ignored by Hashtable.Remove.
RemoveKey(o, k) ==
    dict' = [dict EXCEPT ![o] = [x \in DOMAIN @ \ {k} |-> @[x]]]

Next ==
    \E o \in Obj, k \in Key :
        \/ \E v \in Value : SetItem(o, k, v)
        \/ \E v \in Value : Add(o, k, v)
        \/ RemoveKey(o, k)

Spec == Init /\ [][Next]_vars

-----------------------------------------------------------------------------
(* The generated queries.                                                  *)

(***************************************************************************)
(* The order in which foreach enumerates a Hashtable.  For small distinct  *)
(* int keys every key sits in bucket key mod size with no collision, and   *)
(* the enumerator walks the buckets from the last to the first: the keys   *)
(* in descending order, whatever the history of insertions and removals.   *)
(***************************************************************************)
EnumerationOrder(d) == SetToSortSeq(DOMAIN d, LAMBDA x, y : x > y)

\* Keys.CopyTo then System.Array.Sort: the keys in ascending order.
SortedKeys(d) == SetToSortSeq(DOMAIN d, LAMBDA x, y : x < y)

\* Mutant: the values copied out without the System.Array.Sort call.
ValuesUnsorted(d) ==
    [i \in 1..Cardinality(DOMAIN d) |-> d[EnumerationOrder(d)[i]]]

\* Values.CopyTo then System.Array.Sort: the multiset of values in the order
\* of Comparer.Default.
SortedValues(d) ==
    SortSeq([i \in 1..Cardinality(DOMAIN d) |-> d[SortedKeys(d)[i]]],
            SortsBefore)

\* The first loop of CompareTo, over the sorted keys up to __limit: the
\* first non-zero comparison, or 0.
RECURSIVE KeyLoop(_, _, _, _)
KeyLoop(kl, kr, i, limit) ==
    IF i > limit THEN 0
    ELSE LET r == MemberCompareTo(kl[i], kr[i])
         IN  IF r # 0 THEN r ELSE KeyLoop(kl, kr, i + 1, limit)

\* Mutant: the value loop without its null test.
RECURSIVE ValueLoopNoNullTest(_, _, _, _)
ValueLoopNoNullTest(vl, vr, i, limit) ==
    IF i > limit THEN 0
    ELSE LET r == MemberCompareTo(vl[i], vr[i])
         IN  IF r # 0 THEN r ELSE ValueLoopNoNullTest(vl, vr, i + 1, limit)

\* The second loop, over the sorted values up to the same __limit.
RECURSIVE ValueLoop(_, _, _, _)
ValueLoop(vl, vr, i, limit) ==
    IF i > limit THEN 0
    ELSE IF ~ValueIsValue /\ vl[i] = Null /\ vr[i] # Null THEN -1
    ELSE LET r == MemberCompareTo(vl[i], vr[i])
         IN  IF r # 0 THEN r ELSE ValueLoop(vl, vr, i + 1, limit)

\* public int CompareTo(object __other), for __other an object of the class
\* or null: keys, then values, each up to the shorter length, then the
\* lengths.
CompareTo(a, b) ==
    IF b = Null THEN 1
    ELSE IF a = b THEN 0
    ELSE LET kl == SortedKeys(dict[a])
             kr == SortedKeys(dict[b])
             limit == IF Len(kl) < Len(kr) THEN Len(kl) ELSE Len(kr)
             rk == KeyLoop(kl, kr, 1, limit)
             rv == ValueLoop(SortedValues(dict[a]), SortedValues(dict[b]),
                             1, limit)
         IN  IF rk # 0 THEN rk
             ELSE IF rv # 0 THEN rv
             ELSE Sign(Len(kl) - Len(kr))

\* public override bool Equals(object other)
Equals(a, b) ==
    IF b = Null THEN NullReference
    ELSE IF Cardinality(DOMAIN dict[a]) # Cardinality(DOMAIN dict[b]) THEN FALSE
    ELSE LET r == CompareTo(a, b)
         IN  IF r \in Exceptions THEN r ELSE r = 0

\* public override int GetHashCode(): key, then value unless it is null.
GetHashCode(a) ==
    LET d == dict[a]
        Step(h, k) ==
            LET hk == HashStep(h, k)
            IN  IF ~ValueIsValue /\ d[k] = Null THEN hk ELSE HashStep(hk, d[k])
    IN  FoldLeft(Step, 0, EnumerationOrder(d))

-----------------------------------------------------------------------------
(* CompareTo is antisymmetric wherever it returns: b.CompareTo(a) is the   *)
(* negation of a.CompareTo(b), for dictionaries whose values may be null.  *)
CompareAntisymmetric ==
    \A a, b \in Obj :
        CompareTo(a, b) \notin Exceptions => CompareTo(b, a) = -CompareTo(a, b)

(* Spec section 9: two dictionaries with the same sorted keys and the same *)
(* sorted values compare equal, even when the associations differ; the     *)
(* generated CompareTo must keep this (for values that are not null; two  *)
(* nulls are CompareNeverThrows' concern).                                 *)
PermutedAssociationsCompareEqual ==
    \A a, b \in Obj :
        /\ Null \notin Range(dict[a])
        /\ DOMAIN dict[a] = DOMAIN dict[b]
        /\ \A v \in Val : Cardinality({k \in DOMAIN dict[a] : dict[a][k] = v})
                        = Cardinality({k \in DOMAIN dict[b] : dict[b][k] = v})
        => CompareTo(a, b) = 0

(* Spec section 8: CompareTo is transitive.                                *)
CompareTransitive ==
    \A a, b, c \in Obj :
        CompareTo(a, b) = -1 /\ CompareTo(b, c) = -1 => CompareTo(a, c) = -1

(* Spec section 8: objects the generated Equals calls equal have equal     *)
(* generated hash codes.                                                   *)
EqualsHashConsistent ==
    \A a, b \in Obj : Equals(a, b) = TRUE => GetHashCode(a) = GetHashCode(b)

=============================================================================
