--------------------------- MODULE MC_SharedObjects -------------------------
(* SharedObjects for TLC: addresses and names are only compared.           *)
EXTENDS SharedObjects, TLC

Symmetry == Permutations(States) \cup Permutations(MessageAddrs) \cup
            Permutations(RequestAddrs) \cup Permutations(Names)
=============================================================================
