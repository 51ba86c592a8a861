---------------------------- MODULE MCGenDataClass ----------------------------
(* A small Slice unit (object names are model values in the cfgs):         *)
(*   struct S { int i; string s; };                                        *)
(*   class B { string s; };            class D extends B { int i; };       *)
(*   exception E { string s; };        exception F extends E { int i; };   *)
(* and, with int members only,                                             *)
(*   class IB { int i; };              class ID extends IB { int j; };     *)
(*   exception IE { int i; };          exception IX extends IE { int j; }; *)
EXTENDS GenDataClass

MCDecl ==
    [S  |-> [kind |-> "struct",    base |-> <<>>,     members |-> <<TRUE, FALSE>>],
     B  |-> [kind |-> "class",     base |-> <<>>,     members |-> <<FALSE>>],
     D  |-> [kind |-> "class",     base |-> <<"B">>,  members |-> <<TRUE>>],
     E  |-> [kind |-> "exception", base |-> <<>>,     members |-> <<FALSE>>],
     F  |-> [kind |-> "exception", base |-> <<"E">>,  members |-> <<TRUE>>],
     IB |-> [kind |-> "class",     base |-> <<>>,     members |-> <<TRUE>>],
     ID |-> [kind |-> "class",     base |-> <<"IB">>, members |-> <<TRUE>>],
     IE |-> [kind |-> "exception", base |-> <<>>,     members |-> <<TRUE>>],
     IX |-> [kind |-> "exception", base |-> <<"IE">>, members |-> <<TRUE>>]]

CONSTANTS s1, s2, d1, d2, f1, f2, b1, e1

\* Two objects each of S, D and F: pairs of one type, at every depth.
PairTypes == (s1 :> "S") @@ (s2 :> "S") @@ (d1 :> "D") @@ (d2 :> "D")
             @@ (f1 :> "F") @@ (f2 :> "F")

\* A base and a derived object of the int-only class and exception chains.
BaseAndDerived == (b1 :> "IB") @@ (d1 :> "ID") @@ (e1 :> "IE") @@ (f1 :> "IX")
====
