----------------------------- MODULE ConstString -----------------------------
(***************************************************************************)
(* The C# constant TypesVisitor::visitConst (Gen.cpp lines 1219-1290)      *)
(* writes for a Slice constant, the C# enum visitEnum (lines 1199-1217)    *)
(* writes for the enum types constants may have, and what the C# compiler  *)
(* reads back from them.                                                   *)
(*                                                                         *)
(* String constants: a character is its code.  A Slice string is a         *)
(* sequence of bytes, the C# source text and the C# string value are       *)
(* sequences of code points.  The generator writes a byte of the basic     *)
(* source character set as it is and any other byte as \u and four         *)
(* lowercase hex digits (hex flag, width 4, fill '0').                     *)
(*                                                                         *)
(* Other constants: the parser's text of a number is abstracted to the     *)
(* number and whether it is a real literal; an enum constant's text is the *)
(* enum type and the enumerator.  The state is the constant's type and     *)
(* value, fixed for the behaviour.                                         *)
(***************************************************************************)
EXTENDS Integers, SequencesExt

CONSTANTS
    Bytes,    \* the bytes a string constant's value is made of
    MaxLen,   \* bound on the length of a string value
    Numbers,  \* the values given to numeric constants
    Enums,    \* Enums[e]: the enumerators of Slice enum e, in declaration order
    LexError  \* what the C# compiler makes of a constant it rejects

\* The builtin types a Slice constant may have; an enum type is a name in
\* DOMAIN Enums.
Builtins == {"string", "bool", "byte", "short", "int", "long", "float", "double"}

Quote == 34      \* "
Backslash == 92  \* \

\* basicSourceChars (lines 1232-1236): letters, digits, and
\* _{}[]#()<>%:;,?*+=/^&|~!=,\"' and the space and tab.
BasicSourceChars ==
    (65..90) \cup (97..122) \cup (48..57)
    \cup {95, 123, 125, 91, 93, 35, 40, 41, 60, 62, 37, 58, 59, 44, 63, 42,
          43, 61, 47, 94, 38, 124, 126, 33, 92, 34, 39, 32, 9}

\* One hex digit as ostream writes it with ios_base::hex: 0-9, a-f.
HexDigit(d) == IF d < 10 THEN 48 + d ELSE 87 + d

\* One byte of the value (lines 1245-1260).
EscapeChar(c) ==
    IF c \in BasicSourceChars THEN <<c>>
    ELSE <<Backslash, 117>> \o [k \in 1..4 |-> HexDigit((c \div (16 ^ (4 - k))) % 16)]

\* The literal written for value v, quotes included (lines 1238-1266).
ConstString(v) ==
    <<Quote>> \o FlattenSeq([k \in DOMAIN v |-> EscapeChar(v[k])]) \o <<Quote>>

\* The C# width of the integral types (C# specification, 4.1.5); the parser
\* accepts a value of a Slice integral type only within it.
InWidth(t, n) ==
    CASE t = "byte"  -> n \in 0..255
      [] t = "short" -> n \in -32768..32767
      [] t = "int"   -> n \in (-2147483647 - 1)..2147483647
      [] OTHER       -> TRUE

\* The values the parser gives a constant of type t.
SliceValues(t) ==
    CASE t = "string"        -> BoundedSeq(Bytes, MaxLen)
      [] t = "bool"          -> BOOLEAN
      [] t \in DOMAIN Enums  -> Range(Enums[t])
      [] OTHER               -> {n \in Numbers : InWidth(t, n)}

\* The parser's text of a number followed by the suffix sfx.
Number(t, n, sfx) == [n |-> n, real |-> t \in {"float", "double"}, suffix |-> sfx]

\* public enum e { n1, n2, ... } (lines 1199-1217): the enumerators in
\* declaration order, a comma after each but the last.
EnumDecl(e) == Enums[e]

\* What visitConst writes after "value = " (lines 1225-1288): the escaped
\* string, the number with L for a long and F for a float, e.enumerator for
\* an enum, and the parser's text for the rest.
Literal(t, v) ==
    CASE t = "string"        -> ConstString(v)
      [] t = "long"          -> Number(t, v, "L")
      [] t = "float"         -> Number(t, v, "F")
      [] t \in DOMAIN Enums  -> [enum |-> t, name |-> v]
      [] t = "bool"          -> [word |-> v]
      [] OTHER               -> Number(t, v, "")

VARIABLES
    type,   \* the Slice constant's type
    value   \* the Slice constant's value

Init ==
    /\ type \in Builtins \cup DOMAIN Enums
    /\ value \in SliceValues(type)

\* Nothing changes a constant once it is parsed.
Next == UNCHANGED <<type, value>>

Spec == Init /\ [][Next]_<<type, value>>

-----------------------------------------------------------------------------
(* Reference definition: the C# lexer on a regular string literal (C#      *)
(* specification, 2.4.4.5).  After the opening quote it reads characters   *)
(* up to the next quote that is not escaped; a backslash starts a simple   *)
(* escape (\' \" \\ \0 \a \b \f \n \r \t \v), \x with one to four hex       *)
(* digits, or \u with exactly four.  A line break may not occur in the     *)
(* literal.  The result is the string value, or LexError.                 *)

HexValue(c) ==
    IF c \in 48..57 THEN c - 48
    ELSE IF c \in 97..102 THEN c - 87
    ELSE IF c \in 65..70 THEN c - 55
    ELSE -1

SimpleEscapes ==
    (39 :> 39) @@ (34 :> 34) @@ (92 :> 92) @@ (48 :> 0) @@ (97 :> 7) @@ (98 :> 8)
    @@ (102 :> 12) @@ (110 :> 10) @@ (114 :> 13) @@ (116 :> 9) @@ (118 :> 11)

LineBreaks == {10, 13}

\* The number of hex digits at positions k .. k + n - 1 of s, up to n.
RECURSIVE HexRun(_, _, _)
HexRun(s, k, n) ==
    IF n = 0 \/ k > Len(s) \/ HexValue(s[k]) < 0 THEN 0 ELSE 1 + HexRun(s, k + 1, n - 1)

HexNumber(s, k, n) ==
    LET RECURSIVE Acc(_, _)
        Acc(j, a) == IF j = k + n THEN a ELSE Acc(j + 1, 16 * a + HexValue(s[j]))
    IN  Acc(k, 0)

\* The characters of the literal s from position k on, read into acc.
RECURSIVE Lex(_, _, _)
Lex(s, k, acc) ==
    IF k > Len(s) \/ s[k] \in LineBreaks THEN LexError
    ELSE IF s[k] = Quote THEN IF k = Len(s) THEN acc ELSE LexError
    ELSE IF s[k] # Backslash THEN Lex(s, k + 1, Append(acc, s[k]))
    ELSE IF k + 1 > Len(s) THEN LexError
    ELSE LET e == s[k + 1] IN
         IF e \in DOMAIN SimpleEscapes THEN Lex(s, k + 2, Append(acc, SimpleEscapes[e]))
         ELSE IF e = 117 /\ HexRun(s, k + 2, 4) = 4
              THEN Lex(s, k + 6, Append(acc, HexNumber(s, k + 2, 4)))
         ELSE IF e = 120 /\ HexRun(s, k + 2, 4) > 0
              THEN Lex(s, k + 2 + HexRun(s, k + 2, 4),
                       Append(acc, HexNumber(s, k + 2, HexRun(s, k + 2, 4))))
         ELSE LexError

\* The value the C# compiler gives the literal s.
ReadLiteral(s) ==
    IF s # <<>> /\ s[1] = Quote THEN Lex(s, 2, <<>>) ELSE LexError

\* The type of a C# number literal (C# specification, 2.4.4.2-3): a real is
\* double, float with F; an integer is int when it fits, long otherwise or
\* with L.
LiteralType(l) ==
    IF l.real THEN IF l.suffix = "F" THEN "float" ELSE "double"
    ELSE IF l.suffix = "L" \/ ~InWidth("int", l.n) THEN "long" ELSE "int"

\* The implicit conversions a constant initializer may use: identity,
\* numeric widening, and an int constant that fits a narrower type (C#
\* specification, 6.1.2 and 6.1.6).
Converts(from, n, to) ==
    \/ from = to
    \/ from = "int" /\ to \in {"byte", "short"} /\ InWidth(to, n)
    \/ from = "int" /\ to \in {"long", "float", "double"}
    \/ from = "long" /\ to \in {"float", "double"}
    \/ from = "float" /\ to = "double"

\* The C# value of an enumerator: its position in the enum declaration,
\* from 0.
CsOrdinal(e, name) == (CHOOSE k \in DOMAIN EnumDecl(e) : EnumDecl(e)[k] = name) - 1

\* What the C# compiler makes of "public const T value = l;" for the C#
\* type T of Slice type t.
ReadConst(t, l) ==
    CASE t = "string"        -> ReadLiteral(l)
      [] t \in DOMAIN Enums  -> IF l.enum = t /\ l.name \in Range(EnumDecl(t))
                                THEN CsOrdinal(t, l.name) ELSE LexError
      [] t = "bool"          -> l.word
      [] OTHER               -> IF Converts(LiteralType(l), l.n, t) THEN l.n ELSE LexError

\* The meaning of a Slice constant: an enumerator stands for its ordinal,
\* its declaration index from 0 (spec section 2); other values for
\* themselves.
SliceMeaning(t, v) ==
    IF t \in DOMAIN Enums
    THEN (CHOOSE k \in DOMAIN Enums[t] : Enums[t][k] = v) - 1
    ELSE v

(* Spec section 4.3 (a const renders its literal with the suffixes its    *)
(* type needs): the C# compiler accepts the constant visitConst writes and *)
(* reads back the value of the Slice constant: a string byte for code     *)
(* point, a number in its type, an enumerator as its ordinal.              *)
LiteralKeepsValue == ReadConst(type, Literal(type, value)) = SliceMeaning(type, value)

=============================================================================
