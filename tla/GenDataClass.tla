----------------------------- MODULE GenDataClass -----------------------------
(***************************************************************************)
(* The C# classes TypesVisitor (Gen.cpp) emits for the Slice types whose   *)
(* values are records of data members: structs (visitStructStart/End),     *)
(* classes (visitClassDefStart/End, lines 400-518) and exceptions          *)
(* (visitExceptionStart/End).  Each Slice data member is a public field    *)
(* (visitDataMember), and each level of the type writes its own CompareTo  *)
(* (structs and classes), Equals and GetHashCode.                          *)
(*                                                                         *)
(* Classes and exceptions form single-inheritance chains: a class derives  *)
(* from its concrete first base (line 315) or from Ice.ObjectImpl, an      *)
(* exception from its base exception (line 741) or Ice.UserException.  An  *)
(* object of a derived type holds the fields of every level of its chain.  *)
(*                                                                         *)
(* The state is a heap of objects, each of a fixed generated type.  No     *)
(* constructor sets a field, so a new object has every field at its C#     *)
(* default: 0 for a value type, null otherwise.  Client code then assigns   *)
(* the public fields, its own and inherited ones.                          *)
(***************************************************************************)
EXTENDS CsValues, FiniteSetsExt, SequencesExt

CONSTANTS
    Decl,              \* Decl[t]: kind, base (<<>> or <<parent>>) and the
                       \*   isValueType of each own data member, in order
    Obj,               \* the objects
    ObjType,           \* ObjType[o]: the generated type o was created as
    Val,               \* non-null member values, including the default 0
    ArgumentException  \* the outcome of a throw of System.ArgumentException

Type == DOMAIN Decl

ASSUME
    /\ \A t \in Type :
         /\ Decl[t].kind \in {"struct", "class", "exception"}
         /\ Decl[t].members \in Seq(BOOLEAN)
         /\ Decl[t].base \in Seq(Type) /\ Len(Decl[t].base) <= 1
         /\ Decl[t].kind = "struct" => Decl[t].base = <<>>
         /\ \A p \in ToSet(Decl[t].base) : Decl[p].kind = Decl[t].kind
    /\ ObjType \in [Obj -> Type]
    /\ Val \subseteq Nat /\ 0 \in Val /\ Null \notin Val

\* The levels of type t, root first: the base chain of lines 301-317 and
\* 738-746.
RECURSIVE Chain(_)
Chain(t) == IF Decl[t].base = <<>> THEN <<t>> ELSE Chain(Decl[t].base[1]) \o <<t>>

\* `x is t` for an object x: t is a level of x's type.
IsA(x, t) == t \in ToSet(Chain(ObjType[x]))

Thrown == Exceptions \cup {ArgumentException}

\* What member i of level t can hold.
FieldValues(t, i) == IF Decl[t].members[i] THEN Val ELSE Val \cup {Null}

\* The C# default of member i of level t.
Default(t, i) == IF Decl[t].members[i] THEN 0 ELSE Null

VARIABLE field   \* field[o][t][i]: data member i of level t of object o

vars == <<field>>

Init ==
    field = [o \in Obj |-> [t \in ToSet(Chain(ObjType[o])) |->
                              [i \in DOMAIN Decl[t].members |-> Default(t, i)]]]

\* Mutant: the field's type ignored, so a null lands in a value-type member.
AssignUnchecked(o, t, i, v) ==
    field' = [field EXCEPT ![o][t][i] = v]

\* Client code assigns public field i, declared at level t, of object o.
Assign(o, t, i, v) ==
    /\ v \in FieldValues(t, i)
    /\ field' = [field EXCEPT ![o][t][i] = v]

Next ==
    \E o \in Obj : \E t \in DOMAIN field[o] :
        \E i \in DOMAIN Decl[t].members, v \in Val \cup {Null} : Assign(o, t, i, v)

Spec == Init /\ [][Next]_vars

-----------------------------------------------------------------------------
(* The generated queries.                                                  *)

\* The member tests of CompareTo at level t, from member i on, in
\* declaration order: a null member sorts first, otherwise the member's
\* CompareTo decides.  Struct lines 899-913; the class loop (423-437) is the
\* same text.
RECURSIVE MemberLoop(_, _, _, _)
MemberLoop(t, x, y, i) ==
    IF i > Len(Decl[t].members) THEN 0
    ELSE IF ~Decl[t].members[i] /\ x[i] = Null /\ y[i] # Null THEN -1
    ELSE LET r == MemberCompareTo(x[i], y[i])
         IN  IF r # 0 THEN r ELSE MemberLoop(t, x, y, i + 1)

\* public int CompareTo(object __other) of struct t, __other an object or
\* null.
StructCompareTo(t, a, b) ==
    IF b = Null THEN 1
    ELSE IF a = b THEN 0
    ELSE IF ~IsA(b, t) THEN ArgumentException
    ELSE MemberLoop(t, field[a][t], field[b][t], 1)

\* Ice.ObjectImpl.CompareTo, the base.CompareTo of a root class: not part
\* of this repository; every test it could make has already passed in the
\* caller, and it orders no member, so it returns 0.
ObjectImplCompareTo(a, b) == 0

\* Mutant: a class compares its own members before calling base.CompareTo.
RECURSIVE ClassCompareToOwnFirst(_, _, _)
ClassCompareToOwnFirst(t, a, b) ==
    IF b = Null THEN 1
    ELSE IF a = b THEN 0
    ELSE IF ~IsA(b, t) THEN ArgumentException
    ELSE LET r == MemberLoop(t, field[a][t], field[b][t], 1)
         IN  IF r # 0 THEN r
             ELSE IF Decl[t].base = <<>> THEN ObjectImplCompareTo(a, b)
             ELSE ClassCompareToOwnFirst(Decl[t].base[1], a, b)

\* public override int CompareTo(object __other) of class t: the tests,
\* then base.CompareTo, then t's own members.
RECURSIVE ClassCompareTo(_, _, _)
ClassCompareTo(t, a, b) ==
    IF b = Null THEN 1
    ELSE IF a = b THEN 0
    ELSE IF ~IsA(b, t) THEN ArgumentException
    ELSE LET r == IF Decl[t].base = <<>> THEN ObjectImplCompareTo(a, b)
                  ELSE ClassCompareTo(Decl[t].base[1], a, b)
         IN  IF r # 0 THEN r ELSE MemberLoop(t, field[a][t], field[b][t], 1)

\* a.CompareTo(b): the method of a's own type runs.
CompareTo(a, b) ==
    IF Decl[ObjType[a]].kind = "struct" THEN StructCompareTo(ObjType[a], a, b)
    ELSE ClassCompareTo(ObjType[a], a, b)

\* The member tests of an exception's Equals at level t, from member i on:
\* if(!m.Equals(other.m)) return false; on a null m it throws.
RECURSIVE ExceptionMemberLoop(_, _, _, _)
ExceptionMemberLoop(t, x, y, i) ==
    IF i > Len(Decl[t].members) THEN TRUE
    ELSE IF x[i] = Null THEN NullReference
    ELSE IF x[i] # y[i] THEN FALSE
    ELSE ExceptionMemberLoop(t, x, y, i + 1)

\* public override bool Equals(object __other) of exception t.
ExceptionEquals(t, a, b) ==
    IF b = Null THEN FALSE
    ELSE IF a = b THEN TRUE
    ELSE IF ~IsA(b, t) THEN ArgumentException
    ELSE ExceptionMemberLoop(t, field[a][t], field[b][t], 1)

\* Mutant: a struct or class Equals tests CompareTo(other) <= 0.
EqualsLessOrEqual(a, b) ==
    IF Decl[ObjType[a]].kind = "exception" THEN ExceptionEquals(ObjType[a], a, b)
    ELSE LET r == CompareTo(a, b) IN IF r \in Thrown THEN r ELSE r <= 0

\* a.Equals(b): for a struct or class, return CompareTo(other) == 0.
Equals(a, b) ==
    IF Decl[ObjType[a]].kind = "exception" THEN ExceptionEquals(ObjType[a], a, b)
    ELSE LET r == CompareTo(a, b) IN IF r \in Thrown THEN r ELSE r = 0

\* public override int GetHashCode() of a's type: its own members in order,
\* null ones skipped.  The three kinds write the same loop.
GetHashCode(a) ==
    LET t == ObjType[a]
        x == field[a][t]
        Step(h, i) == IF x[i] = Null THEN h ELSE HashStep(h, x[i])
        RECURSIVE Fold(_, _)
        Fold(h, i) == IF i > Len(x) THEN h ELSE Fold(Step(h, i), i + 1)
    IN  Fold(0, 1)

-----------------------------------------------------------------------------
(* Reference definition (spec sections 4.3 and 4.5): the members of every  *)
(* level of the chain, root first and each level in declaration order,     *)
(* compared lexicographically, the first unequal member deciding, null     *)
(* before any value and equal to null.                                     *)

\* Object o's members, the base levels' first.
Flatten(o) == FlattenSeq([k \in 1..Len(Chain(ObjType[o])) |-> field[o][Chain(ObjType[o])[k]]])

RefCompare(x, y) ==
    LET Cmp(u, v) == IF u = v THEN 0 ELSE IF u = Null THEN -1
                     ELSE IF v = Null THEN 1 ELSE Sign(u - v)
        diff == {i \in DOMAIN x : x[i] # y[i]}
    IN  IF diff = {} THEN 0 ELSE Cmp(x[Min(diff)], y[Min(diff)])

\* Pairs of distinct objects of the same generated type.
SameType == {p \in Obj \X Obj : p[1] # p[2] /\ ObjType[p[1]] = ObjType[p[2]]}

TypeOK ==
    \A o \in Obj :
        /\ DOMAIN field[o] = ToSet(Chain(ObjType[o]))
        /\ \A t \in DOMAIN field[o] :
             /\ DOMAIN field[o][t] = DOMAIN Decl[t].members
             /\ \A i \in DOMAIN Decl[t].members : field[o][t][i] \in FieldValues(t, i)

(* Wherever CompareTo of a struct or class returns on two objects of its   *)
(* type, it is the reference order over all levels: base.CompareTo decides *)
(* before the derived class's own members, and a null member sorts first.  *)
CompareIsRefOrder ==
    \A p \in SameType :
        LET a == p[1]  b == p[2]
        IN  Decl[ObjType[a]].kind # "exception" /\ CompareTo(a, b) \notin Thrown
            => CompareTo(a, b) = RefCompare(Flatten(a), Flatten(b))

(* Two objects of one type that Equals calls equal have equal hash codes,  *)
(* though GetHashCode hashes only the most derived level's members and     *)
(* skips the null ones, while Equals also runs base.CompareTo.             *)
EqualsHashConsistent ==
    \A p \in SameType : Equals(p[1], p[2]) = TRUE => GetHashCode(p[1]) = GetHashCode(p[2])

(* Spec sections 4.3 and 8: null is a member value that sorts first, so    *)
(* Equals (and through it CompareTo) of two objects of one type returns,   *)
(* new objects with null members included.                                 *)
EqualsNeverThrows ==
    \A p \in SameType : Equals(p[1], p[2]) \notin Thrown

(* Spec section 8: Equals is symmetric.  The generated Equals tests that   *)
(* the argument `is` of the receiver's type, so it is asked of objects of  *)
(* a base type and of a derived type in both orders.                       *)
EqualsSymmetric ==
    \A a, b \in Obj : Equals(a, b) = Equals(b, a)

====
