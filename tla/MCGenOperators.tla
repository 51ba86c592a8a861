---------------------------- MODULE MCGenOperators ----------------------------
(* A small Slice unit:                                                     *)
(*   struct Point { int x; string label; };                                *)
(*   sequence<int> IntSeq;    sequence<Point> PointSeq;                    *)
(*   dictionary<int, string> Names;                                        *)
(*   struct Line { int id; IntSeq points; };                               *)
(*   exception Failed { string reason; Point where; };                     *)
(*   dictionary<Point, int> PointKeys;  sequence<PointSeq> PointSeqSeq;    *)
(*   exception Report { string text; IntSeq codes; Names names; };         *)
(*   class Shape { int id; };  class Circle extends Shape { Point center; };*)
EXTENDS GenOperators

MCDef ==
    [Point    |-> [kind |-> "struct",     members |-> <<"int", "string">>],
     IntSeq   |-> [kind |-> "sequence",   members |-> <<"int">>],
     PointSeq |-> [kind |-> "sequence",   members |-> <<"Point">>],
     Names    |-> [kind |-> "dictionary", members |-> <<"int", "string">>],
     Line     |-> [kind |-> "struct",     members |-> <<"int", "IntSeq">>],
     Failed   |-> [kind |-> "exception",  members |-> <<"string", "Point">>],
     PointKeys |-> [kind |-> "dictionary", members |-> <<"Point", "int">>],
     PointSeqSeq |-> [kind |-> "sequence", members |-> <<"PointSeq">>],
     Report   |-> [kind |-> "exception",  members |-> <<"string", "IntSeq", "Names">>],
     Shape    |-> [kind |-> "class", parent |-> <<>>, members |-> <<"int">>],
     Circle   |-> [kind |-> "class", parent |-> <<"Shape">>, members |-> <<"Point">>]]

\* The generated static operators and Equals(lhs, rhs) of every type.
StaticCalls ==
    {<<m, t>> \in {"op==", "op!=", "op<", "op>", "op<=", "op>=", "Equals/2"} \X DOMAIN MCDef :
        m \in Methods(MCDef[t].kind)}

\* The static operators, and CompareTo and GetHashCode of the types that
\* test a member or element of a generated type with == or != null.
RecursingCalls ==
    StaticCalls
    \cup {<<"CompareTo", "Line">>, <<"GetHashCode", "Line">>, <<"CompareTo", "PointSeq">>,
          <<"CompareTo", "Circle">>, <<"GetHashCode", "Circle">>}
=============================================================================
