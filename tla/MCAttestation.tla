---------------------------- MODULE MCAttestation ----------------------------
(* Instances of Attestation for TLC. *)
EXTENDS Attestation, TLC

CallSymmetry == Permutations(Ver)
=============================================================================
