------------------------------ MODULE SliceGen ------------------------------
(***************************************************************************)
(* The C# type declarations slice2cs emits for the classes and interfaces  *)
(* of a Slice unit (Gen.cpp): Gen::generate runs OpsVisitor, then          *)
(* TypesVisitor, then ProxyVisitor over the unit, and each visitor, for    *)
(* every class definition in declaration order, gets visitClassDefStart,   *)
(* then (if that returned true) visitOperation for its operations, then    *)
(* visitClassDefEnd.                                                       *)
(*                                                                         *)
(* The state is the cursor of that traversal and the declarations written  *)
(* so far: for each C# type name, its kind, its base list in order, and    *)
(* the methods it declares.  Text layout (regions, namespaces, indents,    *)
(* parameter lists) is left out; a method is the Slice operation it        *)
(* stands for, whether it takes the trailing Ice.Current, and whether it   *)
(* is the proxy overload with an explicit context.  The Slice unit is      *)
(* chosen in the initial state among well-formed ones and never changes.   *)
(***************************************************************************)
EXTENDS SliceUnit

VARIABLES
    pass,    \* "open", then the visitor running: "ops", "types", "proxy",
             \*   then "done"; or "aborted"
    i,       \* the class definition visited: Names[i]
    at,      \* "start", "op" (visitOperation next) or "end"
    decl     \* the C# declarations written: CsName -> [kind, parents, methods]

vars == <<schema, pass, i, at, decl>>

\* Write declaration x, or add methods ms to it.
Declare(x, kind, parents) ==
    decl' = [y \in DOMAIN decl \cup {x} |->
                IF y = x THEN [kind |-> kind, parents |-> parents, methods |-> {}]
                ELSE decl[y]]
AddMethods(x, ms) == decl' = [decl EXCEPT ![x].methods = @ \cup ms]

\* Leave the current definition: the next one, or the next visitor.
Advance ==
    IF i < Len(Names)
    THEN i' = i + 1 /\ at' = "start" /\ UNCHANGED pass
    ELSE /\ i' = 1 /\ at' = "start"
         /\ pass' = CASE pass = "ops" -> "types"
                      [] pass = "types" -> "proxy"
                      [] OTHER -> "done"

Init ==
    /\ schema \in Schemas
    /\ pass = "open" /\ i = 1 /\ at = "start"
    /\ decl = [x \in {} |-> {}]

\* Gen::Gen opens base.cs.  On success it writes the header and the
\* `Generated from' line, and generate runs the passes; on failure it
\* reports the file and the error and returns, operator! then answers
\* true, and the unit is abandoned with nothing of it written.
Open ==
    /\ pass = "open"
    /\ pass' \in {"ops", "aborted"}
    /\ UNCHANGED <<schema, i, at, decl>>

-----------------------------------------------------------------------------
(* OpsVisitor (lines 155-237).                                             *)

\* Mutant: the base list kept only when there are several bases.
OpsBasesSeveralOnly(bs) ==
    IF Len(bs) > 1 THEN SelectSeq(bs, IsAbstract) ELSE <<>>

\* The base list of X_Operations: the abstract bases, in order.
OpsBases(bs) ==
    IF (Len(bs) = 1 /\ IsAbstract(bs[1])) \/ Len(bs) > 1
    THEN SelectSeq(bs, IsAbstract) ELSE <<>>

\* visitClassDefStart: no _Operations interface for a non-abstract class.
OpsStart ==
    LET n == Names[i] IN
    /\ pass = "ops" /\ at = "start"
    /\ IF IsAbstract(n)
       THEN /\ Declare(Ops(n), "interface",
                       [k \in DOMAIN OpsBases(schema[n].bases) |->
                           Ops(OpsBases(schema[n].bases)[k])])
            /\ at' = IF schema[n].hasOp THEN "op" ELSE "end"
       ELSE at' = "end" /\ UNCHANGED decl
    /\ UNCHANGED <<schema, pass, i>>

\* visitOperation: the method, with Ice.Current unless local.
OpsOperation ==
    LET n == Names[i] IN
    /\ pass = "ops" /\ at = "op"
    /\ AddMethods(Ops(n), {Method(n, ~schema[n].local, FALSE)})
    /\ at' = "end"
    /\ UNCHANGED <<schema, pass, i>>

-----------------------------------------------------------------------------
(* TypesVisitor (lines 262-556).                                           *)

\* The interface base list loop runs only `if(bases.empty())`: no base of
\* an interface is ever listed.
InterfaceBases(bs) == IF bs = <<>> THEN bs ELSE <<>>

\* A concrete first base is the parent class and leaves the base list.
HasParentClass(bs) == bs # <<>> /\ ~schema[bs[1]].intf
ImplementedBases(bs) == IF HasParentClass(bs) THEN Tail(bs) ELSE bs

\* visitClassDefStart.
TypesStart ==
    LET n == Names[i]
        bs == schema[n].bases
        loc == schema[n].local
    IN
    /\ pass = "types" /\ at = "start"
    /\ IF schema[n].intf
       THEN Declare(Type(n), "interface",
                    <<IceType(IF loc THEN "LocalObject" ELSE "Object"), Ops(n)>>
                    \o [k \in DOMAIN InterfaceBases(bs) |-> Type(InterfaceBases(bs)[k])])
       ELSE Declare(Type(n), "class",
                    <<IF HasParentClass(bs) THEN Type(bs[1])
                      ELSE IceType(IF loc THEN "LocalObjectImpl" ELSE "ObjectImpl"),
                      Ops(n)>>
                    \o [k \in DOMAIN ImplementedBases(bs) |-> Ops(ImplementedBases(bs)[k])])
    /\ at' = IF schema[n].hasOp THEN "op" ELSE "end"
    /\ UNCHANGED <<schema, pass, i>>

\* visitOperation: an abstract method of a class; nothing for an interface.
TypesOperation ==
    LET n == Names[i] IN
    /\ pass = "types" /\ at = "op"
    /\ IF schema[n].intf THEN UNCHANGED decl
       ELSE AddMethods(Type(n), {Method(n, ~schema[n].local, FALSE)})
    /\ at' = "end"
    /\ UNCHANGED <<schema, pass, i>>

\* Mutant: the inherited operations of the first implemented base only.
InheritedFirstOnly(bs) == IF bs = <<>> THEN {} ELSE AllOperations(bs[1])

\* allOperations of every implemented base, sorted and made unique.
Inherited(bs) == UNION {AllOperations(b) : b \in ToSet(bs)}

\* visitClassDefEnd: a class re-declares, as abstract methods, the
\* operations of every base other than its parent class; the comparison
\* and hash members it writes next are GenOperators' and GenDataClass's
\* concern.
TypesEnd ==
    LET n == Names[i] IN
    /\ pass = "types" /\ at = "end"
    /\ IF schema[n].intf THEN UNCHANGED decl
       ELSE AddMethods(Type(n),
                       {Method(o, ~schema[n].local, FALSE) :
                           o \in Inherited(ImplementedBases(schema[n].bases))})
    /\ Advance
    /\ UNCHANGED schema

-----------------------------------------------------------------------------
(* ProxyVisitor (lines 1298-1409).                                         *)

\* Mutant: the loop writes the first base only.
ProxyBasesFirstOnly(bs) ==
    IF bs = <<>> THEN <<IceType("ObjectPrx")>> ELSE <<Prx(bs[1])>>

\* Mutant: the loop walks the bases from the last one.
ProxyBasesReversed(bs) ==
    IF bs = <<>> THEN <<IceType("ObjectPrx")>>
    ELSE [k \in DOMAIN bs |-> Prx(bs[Len(bs) + 1 - k])]

\* The base list of XPrx: each base's Prx, or Ice.ObjectPrx.
ProxyBases(bs) ==
    IF bs = <<>> THEN <<IceType("ObjectPrx")>>
    ELSE [k \in DOMAIN bs |-> Prx(bs[k])]

\* visitClassDefStart: nothing for a local definition.
ProxyStart ==
    LET n == Names[i]
        bs == schema[n].bases
    IN
    /\ pass = "proxy" /\ at = "start"
    /\ IF schema[n].local
       THEN at' = "end" /\ UNCHANGED decl
       ELSE /\ Declare(Prx(n), "interface", ProxyBases(bs))
            /\ at' = IF schema[n].hasOp THEN "op" ELSE "end"
    /\ UNCHANGED <<schema, pass, i>>

\* visitOperation: two overloads, the second with an explicit context.
ProxyOperation ==
    LET n == Names[i] IN
    /\ pass = "proxy" /\ at = "op"
    /\ AddMethods(Prx(n), {Method(n, FALSE, c) : c \in BOOLEAN})
    /\ at' = "end"
    /\ UNCHANGED <<schema, pass, i>>

\* visitClassDefEnd of OpsVisitor and ProxyVisitor: only closing text.
Leave ==
    /\ pass \in {"ops", "proxy"} /\ at = "end"
    /\ Advance
    /\ UNCHANGED <<schema, decl>>

Next ==
    \/ Open
    \/ OpsStart \/ OpsOperation
    \/ TypesStart \/ TypesOperation \/ TypesEnd
    \/ ProxyStart \/ ProxyOperation
    \/ Leave

Spec == Init /\ [][Next]_vars

-----------------------------------------------------------------------------
(* What the C# compiler makes of the declarations.                         *)

\* The declared types among the bases of x.
DeclaredParents(x) == ToSet(decl[x].parents) \cap DOMAIN decl

\* x and every declared type it inherits from, directly or not.
RECURSIVE AncestorsUpTo(_, _)
AncestorsUpTo(x, k) ==
    {x} \cup IF k = 0 THEN {}
             ELSE UNION {AncestorsUpTo(y, k - 1) : y \in DeclaredParents(x)}
Ancestors(x) == AncestorsUpTo(x, Cardinality(DOMAIN decl))

\* The methods x has, declared by itself or inherited.
Members(x) == UNION {decl[y].methods : y \in Ancestors(x)}

\* The methods a class declares itself or along its parent classes.
ClassMembers(x) ==
    UNION {decl[y].methods : y \in {z \in Ancestors(x) : decl[z].kind = "class"}}

\* The definitions of the unit.
Defs == ToSet(Names)

-----------------------------------------------------------------------------
(* Spec section 4.4: for every abstract definition there is an             *)
(* X_Operations interface, and it has (declared or inherited through the   *)
(* _Operations of its abstract bases) exactly one method for each          *)
(* operation of the definition and of all its bases, with Ice.Current     *)
(* unless local.                                                           *)
OperationsInterfaceComplete ==
    pass = "done" =>
        \A n \in Defs : IsAbstract(n) =>
            /\ Ops(n) \in DOMAIN decl
            /\ Members(Ops(n)) =
                 {Method(o, ~schema[n].local, FALSE) : o \in AllOperations(n)}

(* Spec section 4.6: the XPrx interface of a non-local definition has,     *)
(* declared or through the Prx of its bases, the two overloads of every    *)
(* operation of the definition and of all its bases, and nothing else.     *)
ProxyOperationsComplete ==
    pass = "done" =>
        \A n \in Defs : ~schema[n].local =>
            /\ Prx(n) \in DOMAIN decl
            /\ Members(Prx(n)) =
                 {Method(o, FALSE, c) : o \in AllOperations(n), c \in BOOLEAN}

(* Spec section 4.5: a generated class is a valid implementation of every  *)
(* interface it inherits: each method of each of them is declared in the   *)
(* class or one of its parent classes, so that the servant class deriving  *)
(* from it has a method to override for every Slice operation.             *)
ClassImplementsInterfaces ==
    pass = "done" =>
        \A n \in Defs : ~schema[n].intf =>
            \A y \in Ancestors(Type(n)) :
                decl[y].kind = "interface" => decl[y].methods \subseteq ClassMembers(Type(n))

(* Spec section 4.5: flattening leaves exactly one override site per      *)
(* operation.  No abstract method a class declares, its own or re-declared *)
(* from an implemented base (visitClassDefEnd, lines 340-382), is declared *)
(* again by one of its parent classes: such a re-declaration hides the     *)
(* inherited abstract method, which the C# compiler rejects (CS0533).      *)
OneOverrideSite ==
    pass = "done" =>
        \A n \in Defs : ~schema[n].intf =>
            \A y \in Ancestors(Type(n)) \ {Type(n)} :
                decl[y].kind = "class" =>
                    decl[y].methods \cap decl[Type(n)].methods = {}

(* Spec section 6: the output is self-contained: every type a declaration  *)
(* names as a base is declared in it or is an Ice run-time type.           *)
EveryBaseDeclared ==
    pass = "done" =>
        \A x \in DOMAIN decl : ToSet(decl[x].parents) \subseteq DOMAIN decl \cup IceTypes

(* The interface visitClassDefStart writes (lines 269-290) lists, after  *)
(* Ice.Object and its _Operations interface, the C# interface of each      *)
(* Slice base (the loop of lines 282-289): every generated C# interface is *)
(* a subtype of the interfaces of its Slice bases, as in Slice.            *)
InterfaceExtendsBases ==
    pass = "done" =>
        \A n \in Defs : schema[n].intf =>
            \A b \in ToSet(schema[n].bases) : Type(b) \in Ancestors(Type(n))

-----------------------------------------------------------------------------
(* The generator implements the specification of its output.  A pass has   *)
(* finished with a definition once the cursor has moved past it; only the  *)
(* declarations of finished <<pass, definition>> pairs are mapped to the   *)
(* abstract output, and the one being written stays hidden until its       *)
(* visitClassDefEnd.                                                       *)

PassOrder == <<"ops", "types", "proxy">>

\* The pass that writes C# type x.
PassOf(x) == CASE x.sfx = "_Operations" -> "ops"
               [] x.sfx = "" -> "types"
               [] x.sfx = "Prx" -> "proxy"

\* Pass PassOrder[k] has left definition Names[j].
Left(k, j) ==
    \/ pass = "done"
    \/ \E c \in DOMAIN PassOrder :
          PassOrder[c] = pass /\ (k < c \/ (k = c /\ j < i))

Finished ==
    {<<PassOrder[kj[1]], Names[kj[2]]>> :
        kj \in {kj \in (DOMAIN PassOrder) \X (DOMAIN Names) : Left(kj[1], kj[2])}}

Output == INSTANCE SliceGenOutput
              WITH written <- Finished,
                   decl <- Restrict(decl, {x \in DOMAIN decl : <<PassOf(x), x.of>> \in Finished})

(* Spec sections 4.2 and 4.4-4.6: the three visitors, with their cursor,   *)
(* their declining to descend, and their writing one declaration across   *)
(* several visits, write for each definition exactly the declarations the  *)
(* output specification gives it, base lists in order, one definition and  *)
(* one pass at a time, in declaration order within the pass.               *)
ImplementsOutputSpec == Output!Spec

=============================================================================
