---------------------------- MODULE MCConstString ----------------------------
(* String constants of up to two bytes over: a, u, t (letters of the basic *)
(* set that also start escapes), the quote and the backslash (in the basic *)
(* set), a line feed, and the byte 0xC3 (outside it).  Numeric constants   *)
(* at the edges of the narrow types, and an enum Color { Red, Green,       *)
(* Blue }.                                                                 *)
EXTENDS ConstString

MCBytes == {97, 117, 116, Quote, Backslash, 10, 195}

MCNumbers == {-32768, -1, 0, 255, 256, 2147483647}

MCEnums == [Color |-> <<"Red", "Green", "Blue">>]
=============================================================================
