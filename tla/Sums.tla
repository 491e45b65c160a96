-------------------------------- MODULE Sums --------------------------------
(***************************************************************************)
(* Sums of the values of a function over a set of its arguments, for the   *)
(* properties about balances.                                              *)
(***************************************************************************)
EXTENDS Integers, FiniteSets, FiniteSetsExt

Sum(f, S) == MapThenSumSet(LAMBDA x : f[x], S)
=============================================================================
