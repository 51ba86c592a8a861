---------------------------- MODULE SliceGenOutput ----------------------------
(***************************************************************************)
(* What slice2cs promises to write for the classes and interfaces of a     *)
(* unit (spec sections 4.1, 4.2 and 4.4-4.6), with no traversal in it.     *)
(* Each of the three passes writes, for each definition, a fixed set of    *)
(* declarations that depends on the unit alone.  Within a pass the         *)
(* definitions are written in declaration order; the passes are            *)
(* independent and may be interleaved in any order.                        *)
(***************************************************************************)
EXTENDS SliceUnit

VARIABLES
    written, \* the <<pass, definition>> pairs whose output is written
    decl     \* the C# declarations written: CsName -> [kind, parents, methods]

vars == <<schema, written, decl>>

Passes == {"ops", "types", "proxy"}

Decl(kind, parents, methods) == [kind |-> kind, parents |-> parents, methods |-> methods]

\* Section 4.4: an abstract definition gets X_Operations, derived from the
\* _Operations of its abstract bases, in order, and declares a method for
\* its own operation, taking Ice.Current unless local.
OpsOutput(n) ==
    IF ~IsAbstract(n) THEN [x \in {} |-> {}]
    ELSE LET ab == SelectSeq(schema[n].bases, IsAbstract) IN
         Ops(n) :> Decl("interface", [k \in DOMAIN ab |-> Ops(ab[k])],
                        IF schema[n].hasOp THEN {Method(n, ~schema[n].local, FALSE)} ELSE {})

\* Section 4.5: an interface maps to a C# interface over Ice.Object and its
\* _Operations.  A class gets its concrete first base, or Ice.ObjectImpl,
\* as sole parent, implements its own and its other bases' _Operations,
\* and declares one abstract method for each of its own operations and of
\* the operations reachable from the bases it implements.
TypesOutput(n) ==
    LET bs == schema[n].bases
        loc == schema[n].local
        parent == bs # <<>> /\ ~schema[bs[1]].intf
        impl == IF parent THEN Tail(bs) ELSE bs
    IN  Type(n) :>
        IF schema[n].intf
        THEN Decl("interface",
                  <<IceType(IF loc THEN "LocalObject" ELSE "Object"), Ops(n)>>, {})
        ELSE Decl("class",
                  <<IF parent THEN Type(bs[1])
                    ELSE IceType(IF loc THEN "LocalObjectImpl" ELSE "ObjectImpl"),
                    Ops(n)>> \o [k \in DOMAIN impl |-> Ops(impl[k])],
                  {Method(o, ~loc, FALSE) :
                      o \in (IF schema[n].hasOp THEN {n} ELSE {})
                            \cup UNION {AllOperations(b) : b \in ToSet(impl)}})

\* Section 4.6: a non-local definition gets XPrx, whose base list mirrors
\* its base list (Ice.ObjectPrx for none), with two overloads per own
\* operation.
ProxyOutput(n) ==
    IF schema[n].local THEN [x \in {} |-> {}]
    ELSE LET bs == schema[n].bases IN
         Prx(n) :> Decl("interface",
                        IF bs = <<>> THEN <<IceType("ObjectPrx")>>
                        ELSE [k \in DOMAIN bs |-> Prx(bs[k])],
                        {Method(o, FALSE, c) : o \in (IF schema[n].hasOp THEN {n} ELSE {}),
                                               c \in BOOLEAN})

PassOutput(p, n) ==
    CASE p = "ops" -> OpsOutput(n)
      [] p = "types" -> TypesOutput(n)
      [] p = "proxy" -> ProxyOutput(n)

\* Any well-formed unit.
Init ==
    /\ WellFormed(schema)
    /\ written = {}
    /\ decl = [x \in {} |-> {}]

\* Pass p writes the output for definition Names[k], once every definition
\* declared before it has had its output from the same pass.
Write(p, k) ==
    /\ <<p, Names[k]>> \notin written
    /\ \A j \in 1..(k - 1) : <<p, Names[j]>> \in written
    /\ written' = written \cup {<<p, Names[k]>>}
    /\ decl' = decl @@ PassOutput(p, Names[k])
    /\ UNCHANGED schema

Next == \E p \in Passes, k \in DOMAIN Names : Write(p, k)

Spec == Init /\ [][Next]_vars

=============================================================================
