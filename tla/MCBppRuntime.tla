----------------------------- MODULE MCBppRuntime -----------------------------
(* An instance of BppRuntime for TLC: the cards and requirements. *)
EXTENDS BppRuntime

Cred(schema, issuer, from, until, fits) ==
  [schema |-> schema, issuer |-> issuer, validFrom |-> from, validUntil |-> until,
   revoked |-> FALSE, fits |-> fits]

Need(schema, issuers, active, margin) ==
  [schema |-> schema, issuerSet |-> issuers, mustBeActive |-> active, margin |-> margin]

\* Time runs from 1 to 2: the first is about to expire, the second is not
\* valid yet and of another issuer.
MCCards == {{Cred("human", "i1", 0, 2, FALSE)}, {Cred("human", "i2", 2, 2, TRUE)}}

MCReqs == {<<>>, <<Need("human", {"i1"}, TRUE, 0), Need("human", {}, FALSE, 1)>>}

MCSelf == [schema |-> "human", issuerSet |-> {"i1"}]
=============================================================================
