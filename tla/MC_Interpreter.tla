--------------------------- MODULE MC_Interpreter ---------------------------
(***************************************************************************)
(* One rank and a copy of it, on pages of two words.                       *)
(***************************************************************************)
EXTENDS Interpreter, TLC

(* Call sites are only compared.                                           *)
Symmetry == Permutations(Sites)
=============================================================================
