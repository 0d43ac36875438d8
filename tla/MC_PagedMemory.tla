---------------------------- MODULE MC_PagedMemory --------------------------
(* Two processes, two page indices and two states at a time.               *)
EXTENDS PagedMemory, TLC

(* States and ranks are only compared.                                     *)
Symmetry == Permutations(States) \cup Permutations(Ranks)
=============================================================================
