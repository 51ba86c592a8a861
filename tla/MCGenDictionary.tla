--------------------------- MODULE MCGenDictionary ---------------------------
(* Objects of a generated dictionary class (model values in the cfg) with  *)
(* int keys and int or string values.                                      *)
EXTENDS GenDictionary, TLC

Symmetry == Permutations(Obj)
=============================================================================
