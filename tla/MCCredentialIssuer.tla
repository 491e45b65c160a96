-------------------------- MODULE MCCredentialIssuer --------------------------
(* Instances of CredentialIssuer for TLC. *)
EXTENDS CredentialIssuer, TLC

=============================================================================
