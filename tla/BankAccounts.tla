---------------------------- MODULE BankAccounts ----------------------------
(***************************************************************************)
(* The handlers of the bank BPP that open an account or a card:            *)
(*   openChecking (keeper/bpps/bank/handlers/open-checking.ts),            *)
(*   openSavings  (open-savings.ts), issueCard (issue-card.ts).            *)
(* Each checks its caller and its inputs, awaits the holder's credentials  *)
(* (a card also its linked account, which it looks up in the mock ledger), *)
(* then writes the local ledger entry and only after that asks the issuer  *)
(* for the credential on chain.  The                                       *)
(* two writes are not one transaction: when the issuer throws, checking    *)
(* and card flag the entry for reconciliation and answer issue_failed;     *)
(* savings lets the error through.                                         *)
(*                                                                         *)
(* The dependencies (ledger, issuer, flagging) are interfaces: each may    *)
(* fail, and the issuer may fail after its transaction has landed.         *)
(***************************************************************************)
EXTENDS Naturals, FiniteSets

CONSTANTS
  Call,        \* handler invocations
  Subject,     \* agents, as subject of a request or as its caller
  Slot,        \* opened_slot / issued_slot values a request may carry
  MaxCrashes   \* bound: restarts of the BPP process

AccountsAssumption == MaxCrashes \in Nat

VARIABLES
  calls,       \* handler invocations
  ledger,      \* PDAs the in-memory BankCredentialLedger holds an entry for
  chain,       \* PDAs whose credential is on chain
  flagged,     \* PDAs flagReconciliation has reported
  unreported,  \* PDAs whose flagReconciliation threw and was swallowed
  crashes

vars == <<calls, ledger, chain, flagged, unreported, crashes>>

Kind == {"checking", "savings", "card"}

\* sha256 of the kind, the subject and the slot (and, for a card, of the
\* linked account, here the subject's account of the same slot).
PDA == Kind \X Subject \X Slot

Unsettled == "none"

Request == [kind : Kind, caller : Subject, subject : Subject, slot : Slot,
            valid : BOOLEAN]

pda(r) == <<r.kind, r.subject, r.slot>>

Idle == [pc |-> "idle"]

Outcome == {"ok", "unauthorized_caller", "invalid", "credentials_missing",
            "account_not_found", "ledger_failed", "issue_failed", "threw"}

TypeOK ==
  /\ \A c \in Call :
       \/ calls[c] = Idle
       \/ /\ calls[c].pc \in {"creds", "linked", "record", "issue", "flag", "done"}
          /\ calls[c].req \in Request
          /\ calls[c].result \in Outcome \cup {Unsettled}
  /\ ledger \subseteq PDA
  /\ chain \subseteq PDA
  /\ flagged \subseteq PDA
  /\ unreported \subseteq PDA
  /\ crashes \in 0 .. MaxCrashes

Init ==
  /\ calls = [c \in Call |-> Idle]
  /\ ledger = {}
  /\ chain = {}
  /\ flagged = {}
  /\ unreported = {}
  /\ crashes = 0

At(c, pc) == calls[c].pc = pc

To(c, pc) == calls' = [calls EXCEPT ![c].pc = pc]

\* The handler returns or throws: result is what the BAP is told.
Answer(c, result) == calls' = [calls EXCEPT ![c].pc = "done", ![c].result = result]

(***************************************************************************)
(* The synchronous prefix.  Checking and card compare caller and subject   *)
(* before they validate, savings after it: with both wrong the reason      *)
(* differs, the refusal does not.                                          *)
(***************************************************************************)
Refusal(r) ==
  IF r.kind = "savings"
    THEN IF ~r.valid THEN "invalid"
         ELSE IF r.caller # r.subject THEN "unauthorized_caller" ELSE Unsettled
    ELSE IF r.caller # r.subject THEN "unauthorized_caller"
         ELSE IF ~r.valid THEN "invalid" ELSE Unsettled

Start(c, r) ==
  /\ At(c, "idle")
  /\ calls' = [calls EXCEPT ![c] =
       [pc |-> IF Refusal(r) = Unsettled THEN "creds" ELSE "done",
        req |-> r, result |-> Refusal(r)]]
  /\ UNCHANGED <<ledger, chain, flagged, unreported, crashes>>

\* verifyHolderCredentials of checking and card.
HolderCredentials(c, ok) ==
  /\ At(c, "creds")
  /\ calls[c].req.kind # "savings"
  /\ IF ~ok THEN Answer(c, "credentials_missing")
     ELSE To(c, IF calls[c].req.kind = "card" THEN "linked" ELSE "record")
  /\ UNCHANGED <<ledger, chain, flagged, unreported, crashes>>

\* The checking account a savings account or a card is linked to.
Checking(r) == <<"checking", r.subject, r.slot>>

\* verifyCheckingCredential of savings: the credential must be on chain.
CheckingCredential(c) ==
  /\ At(c, "creds")
  /\ calls[c].req.kind = "savings"
  /\ IF Checking(calls[c].req) \in chain
       THEN To(c, "record")
       ELSE Answer(c, "credentials_missing")
  /\ UNCHANGED <<ledger, chain, flagged, unreported, crashes>>

\* verifyLinkedAccount of a card: the account must be in the mock ledger, where
\* an opening puts it before its credential is on chain.
LinkedAccount(c) ==
  /\ At(c, "linked")
  /\ IF Checking(calls[c].req) \in ledger
       THEN To(c, "record")
       ELSE Answer(c, "account_not_found")
  /\ UNCHANGED <<ledger, chain, flagged, unreported, crashes>>

\* recordCard / recordCheckingAccount / recordSavingsAccount: entries.set(pda)
\* replaces the body an earlier request with the same PDA recorded (bodies are
\* left out: the PDA does not depend on the opening deposit or the limits).
Record(c, ok) ==
  /\ At(c, "record")
  /\ LET r == calls[c].req
     IN  IF ok
           THEN /\ To(c, "issue")
                /\ ledger' = ledger \cup {pda(r)}
           ELSE /\ Answer(c, IF r.kind = "savings" THEN "threw" ELSE "ledger_failed")
                /\ UNCHANGED ledger
  /\ UNCHANGED <<chain, flagged, unreported, crashes>>

\* Mutant, the bug class FN-191 fixed: the error is answered, nobody is told.
IssueThrownUnflagged(c) ==
  IF calls[c].req.kind = "savings" THEN Answer(c, "threw") ELSE Answer(c, "issue_failed")

IssueThrown(c) == IF calls[c].req.kind = "savings" THEN Answer(c, "threw") ELSE To(c, "flag")

(***************************************************************************)
(* issue*Credential: the issuer answers "idempotent" for a slot it already *)
(* holds, else it mints.  It may throw before the transaction lands, or    *)
(* after (the reply is lost); an issuer authority that does not match is   *)
(* one of the failures that do not land.                                   *)
(***************************************************************************)
Issue(c, lands, replies) ==
  /\ At(c, "issue")
  /\ replies => lands
  /\ chain' = IF lands THEN chain \cup {pda(calls[c].req)} ELSE chain
  /\ IF replies THEN Answer(c, "ok") ELSE IssueThrown(c)
  /\ UNCHANGED <<ledger, flagged, unreported, crashes>>

\* flagReconciliation, whose own failure is swallowed; then issue_failed.
Flag(c, ok) ==
  /\ At(c, "flag")
  /\ Answer(c, "issue_failed")
  /\ IF ok THEN flagged' = flagged \cup {pda(calls[c].req)} /\ UNCHANGED unreported
     ELSE unreported' = unreported \cup {pda(calls[c].req)} /\ UNCHANGED flagged
  /\ UNCHANGED <<ledger, chain, crashes>>

\* The process restarts: running handlers are gone, and so is the ledger.
Crash ==
  /\ crashes < MaxCrashes
  /\ crashes' = crashes + 1
  /\ calls' = [c \in Call |-> IF At(c, "done") THEN calls[c]
                              ELSE IF At(c, "idle") THEN Idle
                              ELSE [calls[c] EXCEPT !.pc = "done", !.result = "threw"]]
  /\ ledger' = {}
  /\ UNCHANGED <<chain, flagged, unreported>>

Next ==
  \/ \E c \in Call :
       \/ \E r \in Request : Start(c, r)
       \/ \E ok \in BOOLEAN : HolderCredentials(c, ok) \/ Record(c, ok) \/ Flag(c, ok)
       \/ CheckingCredential(c) \/ LinkedAccount(c)
       \/ \E lands, replies \in BOOLEAN : Issue(c, lands, replies)
  \/ Crash

Spec == Init /\ [][Next]_vars

-----------------------------------------------------------------------------
\* A request for p is between its ledger write and its answer.
Opening(p) ==
  \E c \in Call : /\ calls[c].pc \in {"issue", "flag"}
                  /\ pda(calls[c].req) = p

\* An opening of p ended without an answer: the process restarted under it.
Abandoned(p) ==
  \E c \in Call : /\ At(c, "done")
                  /\ calls[c].result = "threw"
                  /\ pda(calls[c].req) = p

\* What the bank can say of an entry its ledger once held.
Accounted(p) ==
  p \in chain \cup flagged \cup unreported \/ Opening(p) \/ Abandoned(p)

(***************************************************************************)
(* The reconciliation promise of FN-191, over every interleaving of        *)
(* requests, failures and restarts.  A checking or card entry of the       *)
(* ledger is backed by a credential on chain, or a request is still at     *)
(* work on it, or operations has been told (or the telling itself failed). *)
(* A request answered ok has its credential on chain.  A savings account   *)
(* answered ok is linked to a checking account that is on chain too; a     *)
(* card is not, for verifyLinkedAccount looks at the mock ledger: its      *)
(* account may be on chain, still be opening, have been reported as an     *)
(* orphan (or the report failed), or have lost its opening in a restart,   *)
(* and nothing else.                                                       *)
(***************************************************************************)
NoSilentOrphan ==
  /\ \A p \in ledger \ chain :
       p[1] # "savings" => Opening(p) \/ p \in flagged \cup unreported
  /\ \A c \in Call :
       At(c, "done") /\ calls[c].result = "ok" =>
         /\ pda(calls[c].req) \in chain
         /\ IF calls[c].req.kind = "card" THEN Accounted(Checking(calls[c].req))
                                          ELSE Checking(calls[c].req) \in chain
=============================================================================
