------------------------------ MODULE SliceUnit ------------------------------
(***************************************************************************)
(* The Slice unit slice2cs generates from, as the parser hands it to the   *)
(* visitors of Gen.cpp, and the names of the C# types generated for it:   *)
(* shared by the generator (SliceGen) and the specification of its output *)
(* (SliceGenOutput).  The unit is chosen in the initial state and never   *)
(* changes.                                                                *)
(***************************************************************************)
EXTENDS Naturals, Sequences, FiniteSets, SequencesExt

CONSTANTS
    Names,     \* the class definitions of the unit, in declaration order
    Schemas    \* the Slice units to generate from (see WellFormed)

(***************************************************************************)
(* A unit maps each name to [intf: interface or class, local: a local      *)
(* definition, hasOp: it declares one operation (named after it), bases:   *)
(* its base list in order].  The Slice parser only hands over units in     *)
(* which an interface has interface bases only, a class has at most one    *)
(* class base and lists it first, bases are declared earlier and are       *)
(* distinct, and local definitions derive from local ones.                 *)
(***************************************************************************)
WellFormed(d) ==
    \A n \in ToSet(Names) :
        LET bs == d[n].bases IN
        /\ IsInjective(bs)
        /\ \A k \in DOMAIN bs :
              /\ \E j, l \in DOMAIN Names : Names[j] = bs[k] /\ Names[l] = n /\ j < l
              /\ d[bs[k]].local = d[n].local
              /\ (d[n].intf \/ k > 1) => d[bs[k]].intf

ASSUME \A d \in Schemas : WellFormed(d)

\* C# type names: the type a definition maps to and its generated
\* companions, and the Ice run-time types.
CsName(of, sfx) == [of |-> of, sfx |-> sfx]
Type(n) == CsName(n, "")
Ops(n) == CsName(n, "_Operations")
Prx(n) == CsName(n, "Prx")
IceType(s) == CsName("Ice", s)
IceTypes == {IceType(s) : s \in {"Object", "LocalObject", "ObjectImpl",
                                 "LocalObjectImpl", "ObjectPrx"}}

VARIABLE schema  \* the Slice unit

(* What the Slice parser answers about the unit, taken from the spec: the  *)
(* parser is not among this repository's sources.                        *)

\* ClassDef::isAbstract: an interface, a class with several bases, a class
\* whose first base is abstract, or a class with an operation.
RECURSIVE IsAbstract(_)
IsAbstract(n) ==
    LET bs == schema[n].bases IN
    \/ schema[n].intf \/ Len(bs) > 1 \/ schema[n].hasOp
    \/ (bs # <<>> /\ IsAbstract(bs[1]))

\* ClassDef::allOperations: its own operations and those of every base.
RECURSIVE AllOperations(_)
AllOperations(n) ==
    (IF schema[n].hasOp THEN {n} ELSE {})
    \cup UNION {AllOperations(b) : b \in ToSet(schema[n].bases)}

Method(o, cur, ctx) == [op |-> o, cur |-> cur, ctx |-> ctx]

=============================================================================
