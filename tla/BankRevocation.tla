---------------------------- MODULE BankRevocation ----------------------------
(***************************************************************************)
(* Revocation of bank credentials, composed with issuance: the functions   *)
(* revokeBankCredential (bank.ts) and revokeBankFiatRampTest (bank-mock.ts)*)
(* run beside the issue requests of CredentialIssuer, on the same store    *)
(* rows.  A revocation transaction is named by the call that sent it.      *)
(***************************************************************************)
EXTENDS CredentialIssuer

CONSTANT Rev    \* revoke calls, each made at most once

ASSUME RevAssumption == None \notin Rev

VARIABLES
  rvpc,        \* where each revoke call stands
  rvslot,      \* the slot it names
  rvpda,       \* the credential it read from the row before its await
  rvans,       \* how it was answered
  rowRevoked,  \* the revokeTxSignature recorded in a row
  revokeTxs,   \* revocations executed by the chain
  rvbefore     \* history: calls already answered "revoked" when a call starts

rvVars  == <<rvpc, rvslot, rvpda, rvans, rowRevoked, revokeTxs, rvbefore>>
allVars == <<vars, rvVars>>

RvAnswer == {"none", "revoked", "already_revoked", "not_found", "failed", "lost"}

RvTypeOK ==
  /\ rvpc \in [Rev -> {"idle", "revoking", "marking", "done"}]
  /\ rvslot \in [Rev -> Slot \cup {None}]
  /\ rvpda \in [Rev -> Req \cup {None}]
  /\ rvans \in [Rev -> RvAnswer]
  /\ rowRevoked \in [Slot -> Rev \cup {None}]
  /\ revokeTxs \in SUBSET Rev
  /\ rvbefore \in [Rev -> SUBSET Rev]

RvInit ==
  /\ Init
  /\ rvpc = [v \in Rev |-> "idle"]
  /\ rvslot = [v \in Rev |-> None]
  /\ rvpda = [v \in Rev |-> None]
  /\ rvans = [v \in Rev |-> "none"]
  /\ rowRevoked = [s \in Slot |-> None]
  /\ revokeTxs = {}
  /\ rvbefore = [v \in Rev |-> {}]

RvFinish(v, a) ==
  /\ rvpc' = [rvpc EXCEPT ![v] = "done"]
  /\ rvans' = [rvans EXCEPT ![v] = a]

\* Mutant: the revoked flag of the row is not looked at.
RevokeLookupBlind(v, s) ==
  /\ rvpc[v] = "idle"
  /\ rvslot' = [rvslot EXCEPT ![v] = s]
  /\ rvbefore' = [rvbefore EXCEPT ![v] = {w \in Rev : rvans[w] = "revoked"}]
  /\ \/ store[s] = None /\ RvFinish(v, "not_found") /\ UNCHANGED rvpda
     \/ /\ store[s] # None
        /\ rvpda' = [rvpda EXCEPT ![v] = store[s]]
        /\ rvpc' = [rvpc EXCEPT ![v] = "revoking"]
        /\ UNCHANGED rvans
  /\ UNCHANGED <<vars, rowRevoked, revokeTxs>>

\* store.get, then not_found, already_revoked, or the chain call.
RevokeLookup(v, s) ==
  /\ rvpc[v] = "idle"
  /\ rvslot' = [rvslot EXCEPT ![v] = s]
  /\ rvbefore' = [rvbefore EXCEPT ![v] = {w \in Rev : rvans[w] = "revoked"}]
  /\ \/ store[s] = None /\ RvFinish(v, "not_found") /\ UNCHANGED rvpda
     \/ /\ store[s] # None
        /\ rowRevoked[s] # None
        /\ RvFinish(v, "already_revoked")
        /\ UNCHANGED rvpda
     \/ /\ store[s] # None
        /\ rowRevoked[s] = None
        /\ rvpda' = [rvpda EXCEPT ![v] = store[s]]
        /\ rvpc' = [rvpc EXCEPT ![v] = "revoking"]
        /\ UNCHANGED rvans
  /\ UNCHANGED <<vars, rowRevoked, revokeTxs>>

\* revoker.revokeCredential: executed, refused, or executed with a lost reply.
RevokeSubmit(v) ==
  /\ rvpc[v] = "revoking"
  /\ \/ /\ revokeTxs' = revokeTxs \cup {v}
        /\ rvpc' = [rvpc EXCEPT ![v] = "marking"]
        /\ UNCHANGED rvans
     \/ "upstream" \in Fault /\ RvFinish(v, "failed") /\ UNCHANGED revokeTxs
     \/ /\ "lost_reply" \in Fault
        /\ revokeTxs' = revokeTxs \cup {v}
        /\ RvFinish(v, "failed")
  /\ UNCHANGED <<vars, rvslot, rvpda, rowRevoked, rvbefore>>

\* store.markRevoked: keeps the first revocation; a failing store fails the
\* call after the chain revoked the credential.
MarkRevoked(v) ==
  /\ rvpc[v] = "marking"
  /\ \/ /\ rowRevoked' = [rowRevoked EXCEPT ![rvslot[v]] = IF @ = None THEN v ELSE @]
        /\ RvFinish(v, "revoked")
     \/ "store" \in Fault /\ RvFinish(v, "failed") /\ UNCHANGED rowRevoked
  /\ UNCHANGED <<vars, rvslot, rvpda, revokeTxs, rvbefore>>

RevokeBankCredential(v) ==
  \E s \in Slot :
    /\ s[1] = "bank" /\ s[3] = None
    /\ \/ RevokeLookup(v, s)
       \/ rvslot[v] = s /\ RevokeSubmit(v)
       \/ rvslot[v] = s /\ MarkRevoked(v)

RevokeBankFiatRampTest(v) ==
  \E s \in Slot :
    /\ s[1] = "bankMock" /\ s[3] = None
    /\ \/ RevokeLookup(v, s)
       \/ rvslot[v] = s /\ RevokeSubmit(v)
       \/ rvslot[v] = s /\ MarkRevoked(v)

\* A crash loses revoke calls and issue requests alike.
CrashAll ==
  /\ "crash" \in Fault
  /\ \/ \E r \in Req : pc[r] \notin {"idle", "done"}
     \/ \E v \in Rev : rvpc[v] \in {"revoking", "marking"}
  /\ pc' = [r \in Req |-> IF pc[r] = "idle" THEN "idle" ELSE "done"]
  /\ verdict' = [r \in Req |->
       IF pc[r] \in {"idle", "done"} THEN verdict[r] ELSE "lost"]
  /\ rvpc' = [v \in Rev |-> IF rvpc[v] = "idle" THEN "idle" ELSE "done"]
  /\ rvans' = [v \in Rev |->
       IF rvpc[v] \in {"idle", "done"} THEN rvans[v] ELSE "lost"]
  /\ UNCHANGED <<askVars, got, store, minted,
                 rvslot, rvpda, rowRevoked, revokeTxs, rvbefore>>

RvNext ==
  \/ /\ \/ \E r \in Req, i \in Issuer, k \in Key, c \in Card, f \in Flaw \cup {"none"} :
             Arrive(r, i, k, c, f)
        \/ \E r \in Req : Issue(r)
     /\ UNCHANGED rvVars
  \/ \E v \in Rev : RevokeBankCredential(v) \/ RevokeBankFiatRampTest(v)
  \/ CrashAll

RvSpec == RvInit /\ [][RvNext]_allVars

-----------------------------------------------------------------------------
(* Properties *)

\* A row marked revoked records a revocation the chain executed, of the very
\* credential the row holds, although the call that marked it read the row
\* before its chain transaction.
RevokedRowOnChain ==
  \A s \in Slot : rowRevoked[s] # None =>
    /\ rowRevoked[s] \in revokeTxs
    /\ store[s] # None
    /\ rvpda[rowRevoked[s]] = store[s]

\* "A second call returns already_revoked and does not re-submit a chain tx"
\* (bank-mock.ts:229) when it starts after the first was answered.
SequentialRevokeOnce ==
  \A v \in revokeTxs : \A w \in rvbefore[v] : rvslot[w] # rvslot[v]

\* A caller told "revoked" or "already revoked" finds the row revoked from then
\* on: "Revocation is monotonic by construction" (bank-mock.ts:135), also for
\* the loser of two racing calls and through later issue requests.
AnsweredRevocationStands ==
  \A v \in Rev : rvans[v] \in {"revoked", "already_revoked"} => rowRevoked[rvslot[v]] # None

\* Revocation through the bank: rows tell the truth about the chain, a
\* repeated call does not revoke again, and an answered revocation stands.
RevocationSound ==
  RvTypeOK /\ RevokedRowOnChain /\ SequentialRevokeOnce /\ AnsweredRevocationStands
=============================================================================
