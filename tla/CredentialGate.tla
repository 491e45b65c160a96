---------------------------- MODULE CredentialGate ----------------------------
(***************************************************************************)
(* The credential gates of the keepers, as functions of an agent card (the *)
(* set of credentials it holds), a list of requirements and the time:      *)
(* defaultCredentialGate (templates/bpp/credential-gate.ts), the composed  *)
(* gate of requireCred and composeGates (lib/cred-gate.ts), and the check  *)
(* a provider makes of its own card (self-cred.ts).  The three were        *)
(* written separately and are meant to agree.                              *)
(*                                                                         *)
(* A credential is a record with fields schema, issuer, validFrom,         *)
(* validUntil (0 is no bound), revoked, and fits: whether it passes the    *)
(* predicate a caller of requireCred may give.  A requirement has fields   *)
(* schema, issuerSet (empty is any), mustBeActive and margin               *)
(* (notExpiredWithinSec, 0 is none).                                       *)
(***************************************************************************)
EXTENDS Naturals, Sequences, FiniteSetsExt

Credential ==
  [schema: STRING, issuer: STRING, validFrom: Nat, validUntil: Nat,
   revoked: BOOLEAN, fits: BOOLEAN]

Requirement ==
  [schema: STRING, issuerSet: SUBSET STRING, mustBeActive: BOOLEAN, margin: Nat]

IsActiveAt(cred, now) ==
  /\ ~cred.revoked
  /\ cred.validFrom = 0 \/ now >= cred.validFrom
  /\ cred.validUntil = 0 \/ now <= cred.validUntil

----------------------------------------------------------------------------
(* defaultCredentialGate *)

\* Mutant: the margin is taken to be exclusive.
FindMatchingCredentialStrict(card, req, now) ==
  \E cred \in card :
    /\ cred.schema = req.schema
    /\ req.issuerSet = {} \/ cred.issuer \in req.issuerSet
    /\ req.mustBeActive => IsActiveAt(cred, now)
    /\ (req.margin > 0 /\ cred.validUntil # 0) => cred.validUntil > now + req.margin

FindMatchingCredential(card, req, now) ==
  \E cred \in card :
    /\ cred.schema = req.schema
    /\ req.issuerSet = {} \/ cred.issuer \in req.issuerSet
    /\ req.mustBeActive => IsActiveAt(cred, now)
    /\ (req.margin > 0 /\ cred.validUntil # 0) => cred.validUntil >= now + req.margin

\* The requirements nothing on the card meets, by their place in the list; the
\* gate is open when there are none.
DefaultMissing(card, required, now) ==
  {i \in DOMAIN required : ~FindMatchingCredential(card, required[i], now)}

----------------------------------------------------------------------------
(* requireCred and composeGates *)

\* How far a credential of the right schema gets through the four stages:
\* the rank of the stage that turns it away (NEAR_MISS_RANK), 5 for none.
NearMissRank(cred, req, predicate, now) ==
  CASE req.issuerSet # {} /\ cred.issuer \notin req.issuerSet -> 1
    [] req.mustBeActive /\ ~IsActiveAt(cred, now) -> 2
    [] req.margin > 0 /\ cred.validUntil # 0 /\ cred.validUntil < now + req.margin -> 3
    [] predicate /\ ~cred.fits -> 4
    [] OTHER -> 5

\* 0 (not_found) to 4: why the card is turned away; 5: it is let through.
RequireCred(card, req, predicate, now) ==
  Max({0} \cup {NearMissRank(c, req, predicate, now) : c \in {d \in card : d.schema = req.schema}})

\* The requirements that denied, for the two modes.
ComposedMissing(card, required, predicate, now, mode) ==
  LET denied == {i \in DOMAIN required : RequireCred(card, required[i], predicate, now) < 5}
  IN  IF mode = "first-fail" /\ denied # {} THEN {Min(denied)} ELSE denied

----------------------------------------------------------------------------
(* assertSelfSkillCredential: the provider's own card, at start. *)

AssertSelfSkillCredential(card, schema, issuerSet, now) ==
  \E cred \in card :
    /\ cred.schema = schema
    /\ cred.issuer \in issuerSet
    /\ ~cred.revoked
    /\ ~(cred.validFrom # 0 /\ cred.validFrom > now)
    /\ ~(cred.validUntil # 0 /\ cred.validUntil < now)
=============================================================================
