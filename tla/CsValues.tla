------------------------------ MODULE CsValues ------------------------------
(***************************************************************************)
(* The pieces of C# run-time behaviour that the code slice2cs emits relies *)
(* on, shared by the modules of the generated value types.                 *)
(*                                                                         *)
(* Data abstraction: a member, element, key or value of a generated type   *)
(* is a small natural number standing for an int or a string (its          *)
(* CompareTo is the order of the numbers, its GetHashCode the number), or  *)
(* the model value Null when the Slice type is not a value type            *)
(* (isValueType false: strings, sequences, dictionaries, structs,          *)
(* classes).  A call that throws yields an exception name instead of a     *)
(* result.                                                                 *)
(***************************************************************************)
EXTENDS Integers, Bitwise

CONSTANTS
    Null,          \* the null reference
    NullReference  \* the outcome of a call that throws NullReferenceException

(* The width of the hash accumulator.  A C# int has 32 bits; TLC's own    *)
(* integers are 32-bit signed, so the accumulator is kept to 28 bits.  The *)
(* wrap of << 3 at the top bit is kept; no property here depends on where  *)
(* the wrap happens, and the bounded inputs never reach it.               *)
IntWidth == 28

Exceptions == {NullReference}

\* The outcome of a CompareTo: a sign or an exception.
CompareOutcomes == {-1, 0, 1} \cup Exceptions

Sign(n) == IF n < 0 THEN -1 ELSE IF n > 0 THEN 1 ELSE 0

(***************************************************************************)
(* x.CompareTo(y) for x, y of a member or element type.  A null receiver   *)
(* is a NullReferenceException; a null argument sorts before any value     *)
(* (String.CompareTo and Int32.CompareTo return 1 for null, and so does    *)
(* every CompareTo slice2cs emits).                                        *)
(***************************************************************************)
MemberCompareTo(x, y) ==
    IF x = Null THEN NullReference
    ELSE IF y = Null THEN 1
    ELSE Sign(x - y)

(***************************************************************************)
(* One step of every generated GetHashCode: h = (h << 3) ^ x.GetHashCode() *)
(* in unchecked 32-bit arithmetic, on the two's-complement bit pattern.    *)
(***************************************************************************)
HashStep(h, x) == ((h * 8) % (2 ^ IntWidth)) ^^ x

\* The order Array.Sort uses (Comparer.Default): null first, then by value.
SortsBefore(x, y) == (x = Null /\ y # Null) \/ (x # Null /\ y # Null /\ x < y)

=============================================================================
