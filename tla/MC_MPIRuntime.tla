---------------------------- MODULE MC_MPIRuntime ---------------------------
(* Small instances of MPIRuntime for TLC: a pair of ranks that talk both   *)
(* ways, and three ranks of which two send to the third.                   *)
EXTENDS CollectMessages, TLC

PairLinks == {<<0, 1>>, <<1, 0>>}
PairPosts == [r \in Ranks |-> IF r = 0 THEN 3 ELSE 2]

FanInLinks == {<<1, 0>>, <<2, 0>>}
FanInPosts == [r \in Ranks |-> IF r = 2 THEN 1 ELSE 2]

(* Tags are only compared with each other.                                 *)
TagSymmetry == Permutations(Tags)

=============================================================================
