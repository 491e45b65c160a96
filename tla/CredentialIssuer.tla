--------------------------- MODULE CredentialIssuer ---------------------------
(***************************************************************************)
(* The credential issuers of src/issuers: worldcoin, civic, kyc-test,      *)
(* skill-cert, bank-mock and bank.  Each runs the same asynchronous flow   *)
(* for every request -- checks, lookup in the dedupe store, further checks,*)
(* pin the claim, send IssueCredential, write the dedupe row -- and any    *)
(* number of requests interleave at its awaits.  The issuers differ in     *)
(* which checks stand before and after the lookup and in how the store     *)
(* treats a row that is already there.                                     *)
(*                                                                         *)
(* A credential (its PDA) is named by the request whose transaction minted *)
(* it, and so is a row, which holds that request's card and PDA.  Upstream *)
(* verifiers, the pinner and the chain are external.                       *)
(***************************************************************************)
EXTENDS Naturals, FiniteSets

CONSTANTS
  Req,      \* issue requests, each made at most once
  Issuer,   \* the issuers that are deployed
  Key,      \* uniqueness keys: nullifiers, account ids, skills
  Card,     \* AgentCards
  Flaw,     \* what may be wrong with a request
  Fault,    \* environment faults that may happen
  None

AllIssuers == {"worldcoin", "civic", "kycTest", "skillCert", "bankMock", "bank"}
AllFlaws   == {"shape", "id_token", "signature", "proof", "level", "dwell", "whitelist", "caller"}
AllFaults  == {"crash", "lost_reply", "store", "upstream"}

ASSUME IssuerAssumption ==
  /\ Issuer \subseteq AllIssuers
  /\ Flaw \subseteq AllFlaws
  /\ Fault \subseteq AllFaults
  /\ None \notin Req
  /\ None \notin Card

Slot == Issuer \X Key \X (Card \cup {None})

ASSUME SlotAssumption == None \notin Slot /\ None \notin Slot \X Card

\* skill-cert keys its store by (skill, subject): the card is part of the key.
SlotOf(i, k, c) == IF i = "skillCert" THEN <<i, k, c>> ELSE <<i, k, None>>

VARIABLES
  pc,       \* where each request stands
  iss,      \* the issuer it was sent to
  slot,     \* the slot of the dedupe store it concerns
  card,     \* the card it names
  flaw,     \* what is wrong with it
  verdict,  \* how it was answered
  got,      \* the credential it was given; idempotent = (got[r] # r)
  store,    \* dedupe rows
  minted,   \* credentials on the chain
  before    \* history: requests already granted when a request arrived

vars == <<pc, iss, slot, card, flaw, verdict, got, store, minted, before>>

askVars == <<iss, slot, card, flaw, before>>

PC      == {"idle", "lookup", "verify", "pin", "submit", "persist", "reload", "done"}
Verdict == {"none", "granted", "conflict", "rejected", "failed", "lost"}

TypeOK ==
  /\ pc \in [Req -> PC]
  /\ iss \in [Req -> Issuer \cup {None}]
  /\ slot \in [Req -> Slot \cup {None}]
  /\ card \in [Req -> Card \cup {None}]
  /\ flaw \in [Req -> Flaw \cup {"none"}]
  /\ verdict \in [Req -> Verdict]
  /\ got \in [Req -> Req \cup {None}]
  /\ store \in [Slot -> Req \cup {None}]
  /\ minted \in SUBSET Req
  /\ before \in [Req -> SUBSET Req]

Init ==
  /\ pc = [r \in Req |-> "idle"]
  /\ iss = [r \in Req |-> None]
  /\ slot = [r \in Req |-> None]
  /\ card = [r \in Req |-> None]
  /\ flaw = [r \in Req |-> "none"]
  /\ verdict = [r \in Req |-> "none"]
  /\ got = [r \in Req |-> None]
  /\ store = [s \in Slot |-> None]
  /\ minted = {}
  /\ before = [r \in Req |-> {}]

-----------------------------------------------------------------------------
(* What is checked before the store is consulted, and what after *)

WorldcoinPre == {"id_token", "signature"}
WorldcoinPost == {"proof", "level"}
CivicPre     == {"shape", "signature"}
CivicPost    == {"proof"}
KycPre       == {"shape", "dwell", "signature"}
SkillPre     == {"shape", "signature"}
SkillPost    == {"whitelist"}
BankMockPre  == {"caller", "shape"}
BankPre      == {"shape"}

PreChecks(i) ==
  CASE i = "worldcoin" -> WorldcoinPre
    [] i = "civic"     -> CivicPre
    [] i = "kycTest"   -> KycPre
    [] i = "skillCert" -> SkillPre
    [] i = "bankMock"  -> BankMockPre
    [] i = "bank"      -> BankPre

PostChecks(i) ==
  CASE i = "worldcoin" -> WorldcoinPost
    [] i = "civic"     -> CivicPost
    [] i = "skillCert" -> SkillPost
    [] OTHER           -> {}

-----------------------------------------------------------------------------
(* The shared steps *)

Finish(r, v, g) ==
  /\ pc' = [pc EXCEPT ![r] = "done"]
  /\ verdict' = [verdict EXCEPT ![r] = v]
  /\ got' = [got EXCEPT ![r] = g]

Goto(r, l) ==
  /\ pc' = [pc EXCEPT ![r] = l]
  /\ UNCHANGED <<verdict, got>>

Fail(r) == Finish(r, "failed", None)

\* Answer r from the row w: the same card gets the recorded credential,
\* another card a conflict.
AnswerFrom(r, w) ==
  \/ card[w] = card[r] /\ Finish(r, "granted", w)
  \/ card[w] # card[r] /\ Finish(r, "conflict", None)

\* A request arrives and passes, or fails, the checks that precede the lookup.
Arrive(r, i, k, c, f) ==
  /\ pc[r] = "idle"
  /\ iss' = [iss EXCEPT ![r] = i]
  /\ slot' = [slot EXCEPT ![r] = SlotOf(i, k, c)]
  /\ card' = [card EXCEPT ![r] = c]
  /\ flaw' = [flaw EXCEPT ![r] = f]
  /\ before' = [before EXCEPT ![r] = {s \in Req : verdict[s] = "granted"}]
  /\ \/ f \in PreChecks(i) /\ Finish(r, "rejected", None)
     \/ f \notin PreChecks(i) /\ Goto(r, "lookup")
  /\ UNCHANGED <<store, minted>>

\* Mutant: the pre-check is skipped.
LookupSkipped(r) ==
  /\ pc[r] = "lookup"
  /\ Goto(r, IF PostChecks(iss[r]) = {} THEN "pin" ELSE "verify")
  /\ UNCHANGED <<askVars, store, minted>>

\* The idempotency pre-check.
Lookup(r) ==
  /\ pc[r] = "lookup"
  /\ \/ /\ store[slot[r]] # None
        /\ AnswerFrom(r, store[slot[r]])
     \/ /\ store[slot[r]] = None
        /\ Goto(r, IF PostChecks(iss[r]) = {} THEN "pin" ELSE "verify")
  /\ UNCHANGED <<askVars, store, minted>>

\* Checks that call out after the lookup: cloud verifier, gateway token,
\* whitelist; the upstream may be out of order.
Verify(r) ==
  /\ pc[r] = "verify"
  /\ \/ flaw[r] \in PostChecks(iss[r]) /\ Finish(r, "rejected", None)
     \/ flaw[r] \notin PostChecks(iss[r]) /\ Goto(r, "pin")
     \/ "upstream" \in Fault /\ Fail(r)
  /\ UNCHANGED <<askVars, store, minted>>

\* Build the claim and pin it.
Pin(r) ==
  /\ pc[r] = "pin"
  /\ \/ Goto(r, "submit")
     \/ "upstream" \in Fault /\ Fail(r)
  /\ UNCHANGED <<askVars, store, minted>>

\* chain.issueCredential: minted, refused, or minted with the reply lost.
Submit(r) ==
  /\ pc[r] = "submit"
  /\ \/ minted' = minted \cup {r} /\ Goto(r, "persist")
     \/ "upstream" \in Fault /\ UNCHANGED minted /\ Fail(r)
     \/ "lost_reply" \in Fault /\ minted' = minted \cup {r} /\ Fail(r)
  /\ UNCHANGED <<askVars, store>>

\* store.put of worldcoin and skill-cert: throws when the key is present (or
\* the store fails), and the canonical row is then read back.
PutOrThrow(r) ==
  /\ pc[r] = "persist"
  /\ \/ /\ store[slot[r]] = None
        /\ store' = [store EXCEPT ![slot[r]] = r]
        /\ Finish(r, "granted", r)
     \/ /\ store[slot[r]] # None \/ "store" \in Fault
        /\ Goto(r, "reload")
        /\ UNCHANGED store
  /\ UNCHANGED <<askVars, minted>>

\* Mutant: the write is tried again for ever when no row can be read back.
ReloadRetry(r) ==
  /\ pc[r] = "reload"
  /\ \/ store[slot[r]] = None /\ Goto(r, "persist")
     \/ store[slot[r]] # None /\ AnswerFrom(r, store[slot[r]])
  /\ UNCHANGED <<askVars, store, minted>>

\* Mutant: a failed write is swallowed, the credential is granted unrecorded.
ReloadGranted(r) ==
  /\ pc[r] = "reload"
  /\ \/ store[slot[r]] = None /\ Finish(r, "granted", r)
     \/ store[slot[r]] # None /\ AnswerFrom(r, store[slot[r]])
  /\ UNCHANGED <<askVars, store, minted>>

\* The canonical row after a failed put.
Reload(r) ==
  /\ pc[r] = "reload"
  /\ \/ store[slot[r]] = None /\ Fail(r)
     \/ store[slot[r]] # None /\ AnswerFrom(r, store[slot[r]])
  /\ UNCHANGED <<askVars, store, minted>>

\* Mutant: the row that is already there is not returned to the loser.
PutIfAbsentOwn(r) ==
  /\ pc[r] = "persist"
  /\ store' = [store EXCEPT ![slot[r]] = IF @ = None THEN r ELSE @]
  /\ Finish(r, "granted", r)
  /\ UNCHANGED <<askVars, minted>>

\* store.putIfAbsent of kyc-test, bank-mock and bank: the row that stands is
\* returned and decides the answer; a failing store fails the request.
PutIfAbsent(r) ==
  /\ pc[r] = "persist"
  /\ \/ /\ store[slot[r]] = None
        /\ store' = [store EXCEPT ![slot[r]] = r]
        /\ Finish(r, "granted", r)
     \/ /\ store[slot[r]] # None
        /\ AnswerFrom(r, store[slot[r]])
        /\ UNCHANGED store
     \/ "store" \in Fault /\ Fail(r) /\ UNCHANGED store
  /\ UNCHANGED <<askVars, minted>>

\* store.put of civic: throws for another card, overwrites the same card's row.
OverwriteOwn(r) ==
  /\ pc[r] = "persist"
  /\ \/ /\ store[slot[r]] # None => card[store[slot[r]]] = card[r]
        /\ store' = [store EXCEPT ![slot[r]] = r]
        /\ Finish(r, "granted", r)
     \/ /\ store[slot[r]] # None
        /\ card[store[slot[r]]] # card[r]
        /\ Finish(r, "conflict", None)
        /\ UNCHANGED store
     \/ "store" \in Fault /\ Fail(r) /\ UNCHANGED store
  /\ UNCHANGED <<askVars, minted>>

-----------------------------------------------------------------------------
(* The issue functions *)

WorldcoinIssue(r) ==
  /\ iss[r] = "worldcoin"
  /\ Lookup(r) \/ Verify(r) \/ Pin(r) \/ Submit(r) \/ PutOrThrow(r) \/ Reload(r)

SkillCertIssue(r) ==
  /\ iss[r] = "skillCert"
  /\ Lookup(r) \/ Verify(r) \/ Pin(r) \/ Submit(r) \/ PutOrThrow(r) \/ Reload(r)

CivicIssue(r) ==
  /\ iss[r] = "civic"
  /\ Lookup(r) \/ Verify(r) \/ Pin(r) \/ Submit(r) \/ OverwriteOwn(r)

KycTestIssue(r) ==
  /\ iss[r] = "kycTest"
  /\ Lookup(r) \/ Pin(r) \/ Submit(r) \/ PutIfAbsent(r)

BankMockIssue(r) ==
  /\ iss[r] = "bankMock"
  /\ Lookup(r) \/ Pin(r) \/ Submit(r) \/ PutIfAbsent(r)

BankIssue(r) ==
  /\ iss[r] = "bank"
  /\ Lookup(r) \/ Pin(r) \/ Submit(r) \/ PutIfAbsent(r)

Issue(r) ==
  \/ WorldcoinIssue(r) \/ SkillCertIssue(r) \/ CivicIssue(r)
  \/ KycTestIssue(r) \/ BankMockIssue(r) \/ BankIssue(r)

\* The process stops: requests under way are lost, the durable store and the
\* chain stay.
Crash ==
  /\ "crash" \in Fault
  /\ \E r \in Req : pc[r] \notin {"idle", "done"}
  /\ pc' = [r \in Req |-> IF pc[r] = "idle" THEN "idle" ELSE "done"]
  /\ verdict' = [r \in Req |->
       IF pc[r] \in {"idle", "done"} THEN verdict[r] ELSE "lost"]
  /\ UNCHANGED <<askVars, got, store, minted>>

Next ==
  \/ \E r \in Req, i \in Issuer, k \in Key, c \in Card, f \in Flaw \cup {"none"} :
       Arrive(r, i, k, c, f)
  \/ \E r \in Req : Issue(r)
  \/ Crash

Spec == Init /\ [][Next]_vars

\* Every await of a request is resolved or rejected in the end.
FairSpec == Spec /\ \A r \in Req : WF_vars(Issue(r))

-----------------------------------------------------------------------------
(* Properties *)

\* A dedupe row never stands for a credential that is not on the chain, and
\* sits in the slot of the request that minted it ("persist the row only after
\* a successful chain tx", bank.ts:330).
RowIsMinted ==
  \A s \in Slot : store[s] # None => store[s] \in minted /\ slot[store[s]] = s

\* A request is given a credential that exists, minted for the same slot and
\* for its own card, also when it lost a race.
GrantIsOwn ==
  \A r \in Req : verdict[r] = "granted" =>
    /\ got[r] \in minted
    /\ slot[got[r]] = slot[r]
    /\ card[got[r]] = card[r]

\* All callers converge on one credential per slot ("so all callers converge",
\* worldcoin.ts:417); civic's store may replace a credential, never the card.
CallersConverge ==
  \A r, s \in Req :
    (verdict[r] = "granted" /\ verdict[s] = "granted" /\ slot[r] = slot[s])
      => /\ card[r] = card[s]
         /\ iss[r] # "civic" => got[r] = got[s]

\* A request that starts after another was granted the same slot never sends
\* IssueCredential again ("does not call IssueCredential again", README.md:106).
SequentialNeverRemints ==
  \A r \in Req :
    r \in minted => \A s \in before[r] : slot[s] # slot[r]

\* A request that fails one of its issuer's checks mints nothing, and one that
\* fails a check made before the lookup learns nothing of the slot.
FlawedGetsNothing ==
  \A r \in Req :
    /\ flaw[r] # "none" /\ iss[r] # None /\ flaw[r] \in PreChecks(iss[r]) \cup PostChecks(iss[r])
         => r \notin minted
    /\ iss[r] # None /\ flaw[r] \in PreChecks(iss[r]) => verdict[r] = "rejected"

\* What reaches the chain is wanted: rows stand for minted credentials, a
\* binding that was granted is not minted again, a flawed request mints nothing.
MintingSound == RowIsMinted /\ SequentialNeverRemints /\ FlawedGetsNothing

\* Every request is answered.
EveryRequestAnswered == \A r \in Req : (pc[r] # "idle") ~> (pc[r] = "done")

\* "Reserve the nullifier *before* sending the chain tx, so a concurrent retry
\* can't double-issue" (worldcoin.ts:376): one IssueCredential per slot.
OneMintPerSlot ==
  \A r, s \in minted : slot[r] = slot[s] => r = s

\* The issuers implement the abstract binding register.
Reg == INSTANCE BindingRegister WITH
  binding <- [s \in Slot |-> IF store[s] = None THEN None ELSE card[store[s]]],
  ask <- [r \in Req |-> IF slot[r] = None THEN None ELSE <<slot[r], card[r]>>],
  verdict <- verdict

Refines == Reg!ASpec
=============================================================================
