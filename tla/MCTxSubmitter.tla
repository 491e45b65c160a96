---------------------------- MODULE MCTxSubmitter ----------------------------
(* Instances of TxSubmitter for TLC. *)
EXTENDS TxSubmitter, TLC

CallSymmetry == Permutations(Call)
=============================================================================
