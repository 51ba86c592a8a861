--------------------------- MODULE MCGenValueTypes ---------------------------
(* The value types generated for one Slice unit: the struct, classes and   *)
(* exceptions of MCGenDataClass, and                                       *)
(*   sequence<int> IntSeq;   dictionary<int, string> Names;                *)
(* with client code calling the mutators of objects of each, in any order. *)
(*                                                                         *)
(* The generated classes share no state, and every property below is      *)
(* about the objects of one class.  The reachable states of the classes    *)
(* run side by side therefore project onto exactly the reachable states of *)
(* each class run alone, so the run explores the data classes (part =      *)
(* "data") and the containers (part = "containers") one at a time, the     *)
(* others staying at their initial state, instead of their product.        *)
EXTENDS MCGenDataClass, TLC

CONSTANTS
    SeqObj,    \* the IntSeq objects
    DictObj,   \* the Names objects
    Elem, MaxLen, Key,
    DictVal    \* the string values of Names

VARIABLES list, dict, part

Sequence == INSTANCE GenSequence WITH Obj <- SeqObj, ElemIsValue <- TRUE
Dictionary == INSTANCE GenDictionary WITH Obj <- DictObj, Val <- DictVal,
                                          ValueIsValue <- FALSE

allVars == <<field, list, dict, part>>

ValueInit ==
    /\ Init /\ Sequence!Init /\ Dictionary!Init
    /\ part \in {"data", "containers"}

ValueNext ==
    \/ /\ part = "data" /\ Next
       /\ UNCHANGED <<list, dict, part>>
    \/ /\ part = "containers"
       /\ \/ Sequence!Next /\ UNCHANGED dict
          \/ Dictionary!Next /\ UNCHANGED list
       /\ UNCHANGED <<field, part>>

ValueSpec == ValueInit /\ [][ValueNext]_allVars

\* Objects of one container class are interchangeable.
Symmetry == {p @@ q : p \in Permutations(SeqObj), q \in Permutations(DictObj)}

(* IntSeq: wherever CompareTo returns, it is the lexicographic order of    *)
(* the lists, a proper prefix first.                                       *)
SeqCompareIsLexOrder == Sequence!CompareIsLexOrder

(* IntSeq: lists Equals calls equal hash equal.                            *)
SeqEqualsHashConsistent == Sequence!EqualsHashConsistent

(* Names: CompareTo is antisymmetric wherever it returns.                  *)
DictCompareAntisymmetric == Dictionary!CompareAntisymmetric

(* Names: dictionaries with the same keys and the same values, however     *)
(* they are paired, compare equal (the spec's approximation).              *)
DictPermutedAssociationsCompareEqual == Dictionary!PermutedAssociationsCompareEqual
=============================================================================
