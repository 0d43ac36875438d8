---------------------------- MODULE MC_Execution ----------------------------
(* Every instruction on small operands: two floats and a NaN, integers of  *)
(* up to five bits, addresses of four and short indices of two. Casts know *)
(* floats of two significant bits and doubles of three, so that integers   *)
(* of five bits are rounded, some of them twice.                           *)
EXTENDS Execution
=============================================================================
