----------------------------- MODULE GenOperators -----------------------------
(***************************************************************************)
(* Which generated methods call which, for the C# classes TypesVisitor    *)
(* emits for structs, classes, sequences, dictionaries and exceptions      *)
(* (Gen.cpp), and whether a call made by client code returns.              *)
(*                                                                         *)
(* The point is C# overload resolution: in a test x == null or x != null,  *)
(* where the static type of x is a generated type T, the operator chosen   *)
(* is T's own user-defined operator==(T, T) / operator!=(T, T), not        *)
(* reference equality, because a user-defined operator that applies hides  *)
(* the predefined ones.  Only a cast to object, as in (object)x != null,   *)
(* gives reference equality.  The generated operator== calls the static    *)
(* Equals, whose first test is __lhs == null.                              *)
(*                                                                         *)
(* The state is the call stack.  A frame is a method of a type and the     *)
(* index of the next call site in its body.  Data is abstracted away: a    *)
(* call site guarded by a condition on values (a null test, a loop over    *)
(* elements, the branch of a ?:) is made or skipped nondeterministically;  *)
(* a call site every execution of the body reaches first is always made.   *)
(***************************************************************************)
EXTENDS Naturals, Sequences

CONSTANTS
    Def,         \* the schema: each generated type's kind and member types
    Entry,       \* the calls client code may make: <<method, type>>
    StackLimit,  \* frames the CLR stack holds before StackOverflowException
    MaxElems     \* bound on the elements of a sequence or dictionary

Builtins == {"int", "string"}

Generated == DOMAIN Def

\* isValueType(type): a Slice int is a C# value type; strings and every
\* generated type (all emitted as classes) may be null.
IsValueType(t) == t = "int"

ASSUME \A t \in Generated :
    /\ Def[t].kind \in {"struct", "class", "sequence", "dictionary", "exception"}
    /\ Def[t].members \in Seq(Builtins \cup Generated)
    /\ Def[t].kind = "class" =>
         /\ Def[t].parent \in Seq(Generated) /\ Len(Def[t].parent) <= 1
         /\ \A i \in DOMAIN Def[t].parent : Def[Def[t].parent[i]].kind = "class"

VARIABLE stack   \* the call stack, innermost frame last

vars == <<stack>>

-----------------------------------------------------------------------------
(* Call sites.  A site is [m |-> method, t |-> type, always |-> BOOLEAN].  *)

Site(m, t, always) == [m |-> m, t |-> t, always |-> always]

\* The sites of `x == null` and `x != null` for x of static type t: a call
\* of t's operator only when t is generated.
EqNull(t, always) == IF t \in Generated THEN <<Site("op==", t, always)>> ELSE <<>>
NeNull(t, always) == IF t \in Generated THEN <<Site("op!=", t, always)>> ELSE <<>>

\* x.M(...) for x of static type t: a call only of a generated method.
Call(m, t) == IF t \in Generated THEN <<Site(m, t, FALSE)>> ELSE <<>>

RECURSIVE Concat(_)
Concat(ss) == IF ss = <<>> THEN <<>> ELSE Head(ss) \o Concat(Tail(ss))

\* The sites of a loop body run once per element, up to MaxElems times.
PerElement(s) == Concat([i \in 1..MaxElems |-> s])

\* The sites of one member test of CompareTo (lines 427-437, 639-644, 902-913,
\* 1104-1111): the null tests for a nullable type, then x.CompareTo(y).
MemberCompare(mt) ==
    IF IsValueType(mt) THEN Call("CompareTo", mt)
    ELSE EqNull(mt, FALSE) \o NeNull(mt, FALSE) \o Call("CompareTo", mt)

\* The sites of one member of GetHashCode: struct members are tested with
\* `m != null` (line 965), sequence elements with `(object)this[i] != null`
\* (line 699), exception members with `(object)m != null` (line 808).
StructMemberHash(mt) ==
    IF IsValueType(mt) THEN Call("GetHashCode", mt)
    ELSE NeNull(mt, FALSE) \o Call("GetHashCode", mt)

CastMemberHash(mt) == Call("GetHashCode", mt)

\* The operators ==, !=, <, >, <=, >= (lines 445-475, and the same text for
\* every kind): == and != call the static Equals; the others test
\* __lhs == null first, then call CompareTo.
OperatorCalls(m, t) ==
    IF m \in {"op==", "op!="} THEN <<Site("Equals/2", t, TRUE)>>
    ELSE <<Site("op==", t, TRUE)>>
         \o (IF m = "op<" THEN <<Site("op!=", t, FALSE)>>
             ELSE IF m = "op>=" THEN <<Site("op==", t, FALSE)>> ELSE <<>>)
         \o <<Site("CompareTo", t, FALSE)>>

\* static Equals(__lhs, __rhs): __lhs == null ? __rhs == null : __lhs.M(__rhs)
\* (line 509; M is CompareTo for structs and classes, Equals otherwise).
StaticEquals(t, M) ==
    <<Site("op==", t, TRUE), Site("op==", t, FALSE), Site(M, t, FALSE)>>

\* The methods of a struct (visitStructEnd): CompareTo tests the members
\* in order, GetHashCode hashes them, Equals is CompareTo(other) == 0.
StructCalls(m, t) ==
    LET ms == Def[t].members IN
    CASE m = "CompareTo" -> Concat([i \in DOMAIN ms |-> MemberCompare(ms[i])])
      [] m = "GetHashCode" -> Concat([i \in DOMAIN ms |-> StructMemberHash(ms[i])])
      [] m = "Equals" -> <<Site("CompareTo", t, TRUE)>>
      [] m = "Equals/2" -> StaticEquals(t, "CompareTo")
      [] OTHER -> OperatorCalls(m, t)

\* The methods of a class (visitClassDefEnd): a struct's, except that
\* CompareTo calls base.CompareTo before its own members: the parent
\* class's method when the parent is generated, Ice.ObjectImpl's otherwise.
ClassCalls(m, t) ==
    LET ms == Def[t].members
        p == Def[t].parent
    IN  IF m = "CompareTo"
        THEN [i \in DOMAIN p |-> Site("CompareTo", p[i], FALSE)]
             \o Concat([i \in DOMAIN ms |-> MemberCompare(ms[i])])
        ELSE StructCalls(m, t)

\* The methods of a sequence (visitSequence): Equals tests the counts
\* before CompareTo, the static Equals calls Equals.
SequenceCalls(m, t) ==
    LET e == Def[t].members[1] IN
    CASE m = "CompareTo" -> PerElement(MemberCompare(e))
      [] m = "GetHashCode" -> PerElement(CastMemberHash(e))
      [] m = "Equals" -> <<Site("CompareTo", t, FALSE)>>
      [] m = "Equals/2" -> StaticEquals(t, "Equals")
      [] OTHER -> OperatorCalls(m, t)

\* The methods of a dictionary (visitDictionary): CompareTo sorts the keys
\* and the values (Array.Sort calls their CompareTo), then runs the key
\* loop and the value loop; GetHashCode hashes e.Key and, tested by
\* reference as an object, e.Value.
DictionaryCalls(m, t) ==
    LET k == Def[t].members[1]
        v == Def[t].members[2]
    IN
    CASE m = "CompareTo" ->
              PerElement(Call("CompareTo", k)) \o PerElement(Call("CompareTo", v))
              \o PerElement(Call("CompareTo", k)) \o PerElement(MemberCompare(v))
      [] m = "GetHashCode" -> PerElement(Call("GetHashCode", k) \o Call("GetHashCode", v))
      [] m = "Equals" -> <<Site("CompareTo", t, FALSE)>>
      [] m = "Equals/2" -> StaticEquals(t, "Equals")
      [] OTHER -> OperatorCalls(m, t)

\* The methods of an exception (visitExceptionEnd): no CompareTo and no
\* ordering operators; Equals calls m.Equals(other.m) for each member.
ExceptionCalls(m, t) ==
    LET ms == Def[t].members IN
    CASE m = "GetHashCode" -> Concat([i \in DOMAIN ms |-> CastMemberHash(ms[i])])
      [] m = "Equals" -> Concat([i \in DOMAIN ms |-> Call("Equals", ms[i])])
      [] m = "Equals/2" -> StaticEquals(t, "Equals")
      [] m \in {"op==", "op!="} -> OperatorCalls(m, t)

\* The methods each kind of generated type has.
Methods(k) ==
    {"op==", "op!=", "Equals/2", "Equals", "GetHashCode"}
    \cup IF k = "exception" THEN {}
         ELSE {"op<", "op>", "op<=", "op>=", "CompareTo"}

\* The body of method m of type t, as its sequence of call sites.
Calls(m, t) ==
    CASE Def[t].kind = "struct" -> StructCalls(m, t)
      [] Def[t].kind = "class" -> ClassCalls(m, t)
      [] Def[t].kind = "sequence" -> SequenceCalls(m, t)
      [] Def[t].kind = "dictionary" -> DictionaryCalls(m, t)
      [] Def[t].kind = "exception" -> ExceptionCalls(m, t)

-----------------------------------------------------------------------------
Init == \E e \in Entry : stack = <<[m |-> e[1], t |-> e[2], pc |-> 1]>>

Top == stack[Len(stack)]

\* The top frame makes the call at its current site.
MakeCall ==
    /\ stack # <<>>
    /\ Top.pc <= Len(Calls(Top.m, Top.t))
    /\ Len(stack) <= StackLimit
    /\ LET s == Calls(Top.m, Top.t)[Top.pc]
       IN  stack' = Append([stack EXCEPT ![Len(stack)].pc = @ + 1],
                           [m |-> s.m, t |-> s.t, pc |-> 1])

\* The top frame passes a site its data lets it skip.
SkipCall ==
    /\ stack # <<>>
    /\ Top.pc <= Len(Calls(Top.m, Top.t))
    /\ ~Calls(Top.m, Top.t)[Top.pc].always
    /\ stack' = [stack EXCEPT ![Len(stack)].pc = @ + 1]

\* The top frame has made its last call and returns.
Return ==
    /\ stack # <<>>
    /\ Top.pc > Len(Calls(Top.m, Top.t))
    /\ stack' = SubSeq(stack, 1, Len(stack) - 1)

\* The client call has returned.
Done == stack = <<>> /\ UNCHANGED stack

Next == MakeCall \/ SkipCall \/ Return \/ Done

Spec == Init /\ [][Next]_vars

-----------------------------------------------------------------------------
(* No client call nests deeper than the CLR stack: a generated method      *)
(* never recurses without bound through the generated operators.           *)
NoStackOverflow == Len(stack) <= StackLimit

=============================================================================
