---------------------------- MODULE Books_proofs ----------------------------
(***************************************************************************)
(* Proofs about the components of Books.  Each section takes one of them:  *)
(* the inductive invariant, the lemma that a step of the component keeps   *)
(* it, the theorem for the component by itself, and the property of the    *)
(* run, which follows because a behaviour of Books is one of a component.  *)
(***************************************************************************)
EXTENDS Books, CredentialIssuer_proofs, Sums_proofs, Sequences, TLAPS

(***************************************************************************)
(* A step of Books is a step of the component it is a behaviour of.        *)
(***************************************************************************)
LEMMA PartStep ==
  ASSUME [BooksNext]_all
  PROVE  /\ part' = part
         /\ part = "revocation" => [RvNext]_allVars
         /\ part = "usd" => [Usd!Next]_Usd!vars
         /\ part = "money" => [Money!Next]_Money!vars
         /\ part = "accounts" => [Accounts!Next]_Accounts!vars
         /\ part = "yield" => [Yield!Next]_Yield!vars
         /\ part = "audit" => [Audit!Next]_Audit!vars
         /\ part = "bridge" => [Bridge!Next]_Bridge!vars
<1>1. CASE BooksNext
  BY <1>1 DEF BooksNext
<1>2. CASE UNCHANGED all
  BY <1>2 DEF all, u_vars, m_vars, a_vars, y_vars, d_vars, e_vars,
       Usd!vars, Money!vars, Accounts!vars, Yield!vars, Audit!vars, Bridge!vars
<1> QED
  BY <1>1, <1>2

-----------------------------------------------------------------------------
(* The bridge contract.                                                    *)

(***************************************************************************)
(* What holds of the storage of the contract at any time, and therefore of *)
(* the storage a revert brings back.                                       *)
(***************************************************************************)
SoundStorage(s) ==
  /\ s[1] \in 0 .. MaxBalance
  /\ s[2] \in Nat
  /\ s[3] \in Nat
  /\ s[4] \subseteq Attestation
  /\ s[5] \in {"NOT_ENTERED", "ENTERED"}
  /\ s[1] >= s[2]
  /\ \A p \in s[6] : p[1] \in s[4]
  /\ \A p, q \in s[6] : p[1] = q[1] => p = q

BridgeInv ==
  /\ SoundStorage(Bridge!storage)
  /\ e_outer # Bridge!NoRelease => SoundStorage(e_outer)

(* The bridge contract starts in the invariant. *)
LEMMA BridgeInit == Bridge!Init => BridgeInv
BY BridgeAssumption
DEF Bridge!Init, Bridge!BridgeAssumption, BridgeInv, SoundStorage, Bridge!storage

(* Locks, releases, reverts and forced ether keep the invariant. *)
LEMMA BridgeStep == BridgeInv /\ [Bridge!Next]_Bridge!vars => BridgeInv'
<1> SUFFICES ASSUME BridgeInv, [Bridge!Next]_Bridge!vars
             PROVE  BridgeInv'
  OBVIOUS
<1> USE BridgeAssumption
    DEF Bridge!BridgeAssumption, BridgeInv, SoundStorage, Bridge!storage, Bridge!MayEnter
<1>1. ASSUME NEW w \in Wei, Bridge!lock(w) PROVE BridgeInv'
  BY <1>1 DEF Bridge!lock
<1>2. ASSUME NEW w \in Wei, Bridge!ForceSend(w) PROVE BridgeInv'
  BY <1>2 DEF Bridge!ForceSend
<1>3. ASSUME NEW w \in Wei, NEW id \in Attestation, Bridge!release(w, id) PROVE BridgeInv'
  BY <1>3 DEF Bridge!release
<1>4. CASE Bridge!Returned
  BY <1>4 DEF Bridge!Returned
<1>5. CASE Bridge!Reverted
  BY <1>5 DEF Bridge!Reverted, Bridge!NoRelease
<1>6. CASE UNCHANGED Bridge!vars
  BY <1>6 DEF Bridge!vars
<1> QED
  BY <1>1, <1>2, <1>3, <1>4, <1>5, <1>6 DEF Bridge!Next

(* The invariant gives the types and that the contract is solvent. *)
LEMMA BridgeInvImplies == BridgeInv => Bridge!TypeOK /\ Bridge!BridgeSound
BY DEF BridgeInv, SoundStorage, Bridge!TypeOK, Bridge!BridgeSound, Bridge!storage

(***************************************************************************)
(* The contract stays solvent and pays an attestation once, for any        *)
(* attestations and amounts (EtoMeshBridge.sol lock, release).             *)
(***************************************************************************)
THEOREM BridgeSolvent == Bridge!Spec => [](Bridge!TypeOK /\ Bridge!BridgeSound)
BY BridgeInit, BridgeStep, BridgeInvImplies, PTL DEF Bridge!Spec

(***************************************************************************)
(* The same, as the run of Books states it.                                *)
(***************************************************************************)
THEOREM BooksBridgeSound == BooksSpec => []BridgeSound
<1> DEFINE Inv == part = "bridge" => BridgeInv
<1>1. BooksInit => Inv
  BY BridgeInit DEF BooksInit
<1>2. Inv /\ [BooksNext]_all => Inv'
  BY PartStep, BridgeStep
<1>3. Inv => BridgeSound
  BY BridgeInvImplies DEF BridgeSound
<1> QED
  BY <1>1, <1>2, <1>3, PTL DEF BooksSpec

-----------------------------------------------------------------------------
(* Accounts and cards.                                                     *)

Stage == {"creds", "linked", "record", "issue", "flag", "done"}

Started == [pc : Stage, req : Accounts!Request,
            result : Accounts!Outcome \cup {Accounts!Unsettled}]

AccountsType ==
  /\ a_calls \in [Job -> {Accounts!Idle} \cup Started]
  /\ a_ledger \in SUBSET Accounts!PDA
  /\ a_chain \in SUBSET Accounts!PDA
  /\ a_flagged \in SUBSET Accounts!PDA
  /\ a_unreported \in SUBSET Accounts!PDA
  /\ a_crashes \in 0 .. MaxCrashes

(* The entries of checking accounts and cards that are accounted for. *)
Recorded == {p \in Accounts!PDA : p[1] # "savings" /\ Accounts!Accounted(p)}

(***************************************************************************)
(* A savings request that got past its await has seen the checking         *)
(* credential on chain, which forgets nothing; a card has seen the ledger  *)
(* entry of its checking account, and what is known of it stays known.     *)
(***************************************************************************)
Linked ==
  \A c \in Job :
    LET r == a_calls[c].req IN
    /\ a_calls[c].pc = "linked" => r.kind = "card"
    /\ \/ a_calls[c].pc \in {"record", "issue"}
       \/ a_calls[c].pc = "done" /\ a_calls[c].result = "ok"
       =>
         /\ r.kind = "savings" => Accounts!Checking(r) \in a_chain
         /\ r.kind = "card" => Accounts!Checking(r) \in Recorded
    /\ a_calls[c].pc = "done" /\ a_calls[c].result = "ok" => Accounts!pda(r) \in a_chain

(* An entry without its credential is being opened or has been reported. *)
OrphansTold ==
  \A p \in a_ledger \ a_chain :
    p[1] # "savings" => Accounts!Opening(p) \/ p \in a_flagged \cup a_unreported

AccountsInv == AccountsType /\ Linked /\ OrphansTold

(* The accounts service starts in the invariant. *)
LEMMA AccountsInit == Accounts!Init => AccountsInv
BY AccountsAssumption
DEF Accounts!AccountsAssumption, Accounts!Init, AccountsInv, AccountsType, Linked,
    OrphansTold, Accounts!Idle

(***************************************************************************)
(* Answering leaves the request of a call and the other calls alone.       *)
(***************************************************************************)
LEMMA AnswerKeepsRequest ==
  ASSUME NEW r \in Started, NEW o \in Accounts!Outcome
  PROVE  LET d == [r EXCEPT !.pc = "done", !.result = o]
         IN  d \in Started /\ d.pc = "done" /\ d.req = r.req /\ d.result = o
BY DEF Started, Stage

(* The shape of the account store and of the calls is kept by every step. *)
LEMMA AccountsTypeStep ==
  AccountsType /\ [Accounts!Next]_Accounts!vars => AccountsType'
<1> SUFFICES ASSUME AccountsType, [Accounts!Next]_Accounts!vars
             PROVE  AccountsType'
  OBVIOUS
<1> USE AccountsAssumption
    DEF Accounts!AccountsAssumption, AccountsType, Started, Stage, Accounts!Idle,
        Accounts!At, Accounts!To, Accounts!Answer, Accounts!Outcome, Accounts!Unsettled
<1>1. ASSUME NEW c \in Job, NEW r \in Accounts!Request, Accounts!Start(c, r)
      PROVE  AccountsType'
  BY <1>1 DEF Accounts!Start, Accounts!Refusal
<1>2. ASSUME NEW c \in Job, NEW ok \in BOOLEAN, Accounts!HolderCredentials(c, ok)
      PROVE  AccountsType'
  BY <1>2 DEF Accounts!HolderCredentials
<1>3. ASSUME NEW c \in Job, NEW ok \in BOOLEAN, Accounts!Record(c, ok)
      PROVE  AccountsType'
  <2>1. Accounts!pda(a_calls[c].req) \in Accounts!PDA
    BY <1>3 DEF Accounts!Record, Accounts!pda, Accounts!PDA, Accounts!Request
  <2> QED
    BY <1>3, <2>1 DEF Accounts!Record
<1>4. ASSUME NEW c \in Job, NEW ok \in BOOLEAN, Accounts!Flag(c, ok)
      PROVE  AccountsType'
  <2>1. Accounts!pda(a_calls[c].req) \in Accounts!PDA
    BY <1>4 DEF Accounts!Flag, Accounts!pda, Accounts!PDA, Accounts!Request
  <2>2. a_calls' \in [Job -> {Accounts!Idle} \cup Started]
    <3>1. a_calls[c] \in Started
      BY <1>4 DEF Accounts!Flag
    <3>2. [a_calls[c] EXCEPT !.pc = "done", !.result = "issue_failed"] \in Started
      BY <3>1, AnswerKeepsRequest
    <3> HIDE DEF Started, Accounts!Idle
    <3> QED
      BY <1>4, <3>2 DEF Accounts!Flag
  <2>3. a_flagged' \in SUBSET Accounts!PDA /\ a_unreported' \in SUBSET Accounts!PDA
    BY <1>4, <2>1 DEF Accounts!Flag
  <2> QED
    BY <1>4, <2>2, <2>3 DEF Accounts!Flag
<1>5. ASSUME NEW c \in Job, Accounts!CheckingCredential(c) \/ Accounts!LinkedAccount(c)
      PROVE  AccountsType'
  BY <1>5 DEF Accounts!CheckingCredential, Accounts!LinkedAccount
<1>6. ASSUME NEW c \in Job, NEW lands \in BOOLEAN, NEW replies \in BOOLEAN,
             Accounts!Issue(c, lands, replies)
      PROVE  AccountsType'
  <2>1. Accounts!pda(a_calls[c].req) \in Accounts!PDA
    BY <1>6 DEF Accounts!Issue, Accounts!pda, Accounts!PDA, Accounts!Request
  <2> QED
    BY <1>6, <2>1 DEF Accounts!Issue, Accounts!IssueThrown
<1>7. CASE Accounts!Crash
  <2>1. ASSUME NEW c \in Job
        PROVE  a_calls'[c] \in {Accounts!Idle} \cup Started
    <3>1. CASE a_calls[c].pc \in {"idle", "done"}
      BY <1>7, <3>1 DEF Accounts!Crash
    <3>2. CASE a_calls[c].pc \notin {"idle", "done"}
      <4>1. a_calls[c] \in Started
        BY <3>2
      <4>2. a_calls'[c] = [a_calls[c] EXCEPT !.pc = "done", !.result = "threw"]
        BY <1>7, <3>2 DEF Accounts!Crash
      <4> QED
        BY <4>1, <4>2, AnswerKeepsRequest
    <3> QED
      BY <3>1, <3>2
  <2>2. /\ a_ledger' = {} /\ a_crashes < MaxCrashes /\ a_crashes' = a_crashes + 1
        /\ UNCHANGED <<a_chain, a_flagged, a_unreported>>
    BY <1>7, Zenon DEF Accounts!Crash
  <2>3. a_calls' \in [Job -> {Accounts!Idle} \cup Started]
    <3> HIDE DEF Started, Accounts!Idle, Accounts!At
    <3> QED
      BY <1>7, <2>1 DEF Accounts!Crash
  <2> QED
    BY <2>2, <2>3
<1>8. CASE UNCHANGED Accounts!vars
  BY <1>8 DEF Accounts!vars
<1> QED
  BY <1>1, <1>2, <1>3, <1>4, <1>5, <1>6, <1>7, <1>8 DEF Accounts!Next

(***************************************************************************)
(* The entry of a checking account or a card that is accounted for stays   *)
(* so: an opening ends on chain, with a report, or in a restart.           *)
(***************************************************************************)
LEMMA AccountedKept ==
  ASSUME AccountsType, [Accounts!Next]_Accounts!vars, NEW p \in Accounts!PDA,
         p[1] # "savings", Accounts!Accounted(p)
  PROVE  Accounts!Accounted(p)'
<1> USE DEF AccountsType, Started, Stage, Accounts!Accounted, Accounts!Opening,
        Accounts!Abandoned, Accounts!Idle, Accounts!At, Accounts!To, Accounts!Answer,
        Accounts!pda
<1>1. ASSUME NEW c \in Job, NEW r \in Accounts!Request, Accounts!Start(c, r)
      PROVE  Accounts!Accounted(p)'
  BY <1>1 DEF Accounts!Start
<1>2. ASSUME NEW c \in Job, NEW ok \in BOOLEAN, Accounts!HolderCredentials(c, ok)
      PROVE  Accounts!Accounted(p)'
  BY <1>2 DEF Accounts!HolderCredentials
<1>3. ASSUME NEW c \in Job, NEW ok \in BOOLEAN, Accounts!Record(c, ok)
      PROVE  Accounts!Accounted(p)'
  BY <1>3 DEF Accounts!Record
<1>4. ASSUME NEW c \in Job, NEW ok \in BOOLEAN, Accounts!Flag(c, ok)
      PROVE  Accounts!Accounted(p)'
  BY <1>4 DEF Accounts!Flag
<1>5. ASSUME NEW c \in Job, Accounts!CheckingCredential(c) \/ Accounts!LinkedAccount(c)
      PROVE  Accounts!Accounted(p)'
  BY <1>5 DEF Accounts!CheckingCredential, Accounts!LinkedAccount
<1>6. ASSUME NEW c \in Job, NEW lands \in BOOLEAN, NEW replies \in BOOLEAN,
             Accounts!Issue(c, lands, replies)
      PROVE  Accounts!Accounted(p)'
  BY <1>6 DEF Accounts!Issue, Accounts!IssueThrown, Accounts!Request, Accounts!Kind
<1>7. CASE Accounts!Crash
  <2>1. CASE p \in a_chain \cup a_flagged \cup a_unreported
    BY <1>7, <2>1 DEF Accounts!Crash
  <2>2. ASSUME NEW c \in Job, a_calls[c].pc \in {"issue", "flag"},
               Accounts!pda(a_calls[c].req) = p
        PROVE  Accounts!Accounted(p)'
    <3>1. a_calls[c] \in Started
      BY <2>2
    <3>2. a_calls'[c] = [a_calls[c] EXCEPT !.pc = "done", !.result = "threw"]
      BY <1>7, <2>2 DEF Accounts!Crash
    <3> QED
      BY <2>2, <3>1, <3>2
  <2>3. ASSUME NEW c \in Job, a_calls[c].pc = "done"
        PROVE  a_calls'[c] = a_calls[c]
    BY <1>7, <2>3 DEF Accounts!Crash
  <2> QED
    BY <2>1, <2>2, <2>3
<1>8. CASE UNCHANGED Accounts!vars
  BY <1>8 DEF Accounts!vars
<1> QED
  BY <1>1, <1>2, <1>3, <1>4, <1>5, <1>6, <1>7, <1>8 DEF Accounts!Next

(* Nothing is taken from the chain, and no entry ceases to be known. *)
LEMMA KnownGrows ==
  AccountsType /\ [Accounts!Next]_Accounts!vars => Recorded \subseteq Recorded' /\ a_chain \subseteq a_chain'
<1> SUFFICES ASSUME AccountsType, [Accounts!Next]_Accounts!vars
             PROVE  Recorded \subseteq Recorded' /\ a_chain \subseteq a_chain'
  OBVIOUS
<1>1. a_chain \subseteq a_chain'
  BY DEF Accounts!Next, Accounts!vars, Accounts!Start, Accounts!HolderCredentials,
         Accounts!Record, Accounts!Flag, Accounts!CheckingCredential,
         Accounts!LinkedAccount, Accounts!Issue, Accounts!Crash
<1>2. ASSUME NEW p \in Recorded
      PROVE  p \in Recorded'
  BY <1>2, AccountedKept DEF Recorded
<1> QED
  BY <1>1, <1>2

(* What a request is linked to is the PDA of a checking account. *)
LEMMA CheckingIsPDA ==
  ASSUME NEW r \in Accounts!Request
  PROVE  /\ Accounts!Checking(r) \in Accounts!PDA /\ Accounts!pda(r) \in Accounts!PDA
         /\ Accounts!Checking(r)[1] # "savings" /\ r.kind \in Accounts!Kind
         /\ Accounts!pda(r)[1] = r.kind
         /\ r.kind = "checking" => Accounts!Checking(r) = Accounts!pda(r)
BY DEF Accounts!Checking, Accounts!PDA, Accounts!pda, Accounts!Request, Accounts!Kind

(***************************************************************************)
(* Only a look-up takes a savings or card request to its ledger write, and *)
(* only a reply of the issuer to the answer ok.                            *)
(***************************************************************************)
LEMMA LinkedStep ==
  AccountsType /\ Linked /\ OrphansTold /\ [Accounts!Next]_Accounts!vars => Linked'
<1> SUFFICES ASSUME AccountsType, Linked, OrphansTold, [Accounts!Next]_Accounts!vars
             PROVE  Linked'
  OBVIOUS
<1>0. Recorded \subseteq Recorded' /\ a_chain \subseteq a_chain'
  BY KnownGrows
<1> USE <1>0 DEF Linked, AccountsType, Started, Stage, Accounts!Idle, Accounts!At,
        Accounts!To, Accounts!Answer
<1>1. ASSUME NEW c \in Job, NEW r \in Accounts!Request, Accounts!Start(c, r)
      PROVE  Linked'
  BY <1>1 DEF Accounts!Start, Accounts!Refusal, Accounts!Unsettled
<1>2. ASSUME NEW c \in Job, NEW ok \in BOOLEAN, Accounts!HolderCredentials(c, ok)
      PROVE  Linked'
  BY <1>2 DEF Accounts!HolderCredentials
<1>3. ASSUME NEW c \in Job, NEW ok \in BOOLEAN, Accounts!Record(c, ok)
      PROVE  Linked'
  BY <1>3 DEF Accounts!Record
<1>4. ASSUME NEW c \in Job, NEW ok \in BOOLEAN, Accounts!Flag(c, ok)
      PROVE  Linked'
  BY <1>4 DEF Accounts!Flag
<1>5. ASSUME NEW c \in Job, Accounts!CheckingCredential(c)
      PROVE  Linked'
  BY <1>5 DEF Accounts!CheckingCredential
<1>6. ASSUME NEW c \in Job, Accounts!LinkedAccount(c)
      PROVE  Linked'
  <2>1. a_calls[c].req \in Accounts!Request
    BY <1>6 DEF Accounts!LinkedAccount
  <2>2. Accounts!Checking(a_calls[c].req) \in a_ledger =>
          Accounts!Checking(a_calls[c].req) \in Recorded
    BY <2>1, CheckingIsPDA DEF OrphansTold, Recorded, Accounts!Accounted
  <2> QED
    BY <1>6, <2>2 DEF Accounts!LinkedAccount
<1>7. ASSUME NEW c \in Job, NEW lands \in BOOLEAN, NEW replies \in BOOLEAN,
             Accounts!Issue(c, lands, replies)
      PROVE  Linked'
  <2>1. CASE replies
    BY <1>7, <2>1 DEF Accounts!Issue
  <2>2. CASE ~replies
    BY <1>7, <2>2 DEF Accounts!Issue, Accounts!IssueThrown
  <2> QED
    BY <2>1, <2>2
<1>8. CASE Accounts!Crash
  <2>1. ASSUME NEW c \in Job
        PROVE  /\ a_calls'[c].pc \notin {"linked", "record", "issue"}
               /\ a_calls'[c].pc = "done" /\ a_calls'[c].result = "ok" =>
                    a_calls[c].pc = "done" /\ a_calls[c] = a_calls'[c]
    <3>1. CASE a_calls[c].pc \in {"idle", "done"}
      BY <1>8, <3>1 DEF Accounts!Crash
    <3>2. CASE a_calls[c].pc \notin {"idle", "done"}
      <4>1. a_calls[c] \in Started
        BY <3>2
      <4>2. a_calls'[c] = [a_calls[c] EXCEPT !.pc = "done", !.result = "threw"]
        BY <1>8, <3>2 DEF Accounts!Crash
      <4> QED
        BY <4>1, <4>2
    <3> QED
      BY <3>1, <3>2
  <2> QED
    BY <2>1
<1>9. CASE UNCHANGED Accounts!vars
  BY <1>9 DEF Accounts!vars
<1> QED
  BY <1>1, <1>2, <1>3, <1>4, <1>5, <1>6, <1>7, <1>8, <1>9 DEF Accounts!Next

(* An entry without a credential is being opened or has been reported. *)
LEMMA ReportedStep ==
  AccountsType /\ OrphansTold /\ [Accounts!Next]_Accounts!vars => OrphansTold'
<1> SUFFICES ASSUME AccountsType, OrphansTold, [Accounts!Next]_Accounts!vars
             PROVE  OrphansTold'
  OBVIOUS
<1> USE DEF OrphansTold, Accounts!Opening, AccountsType, Started, Stage, Accounts!Idle,
        Accounts!At, Accounts!To, Accounts!Answer, Accounts!pda
<1>1. ASSUME NEW c \in Job, NEW r \in Accounts!Request, Accounts!Start(c, r)
      PROVE  OrphansTold'
  BY <1>1 DEF Accounts!Start
<1>2. ASSUME NEW c \in Job, NEW ok \in BOOLEAN, Accounts!HolderCredentials(c, ok)
      PROVE  OrphansTold'
  BY <1>2 DEF Accounts!HolderCredentials
<1>3. ASSUME NEW c \in Job, NEW ok \in BOOLEAN, Accounts!Record(c, ok)
      PROVE  OrphansTold'
  <2>1. CASE ok
    BY <1>3, <2>1 DEF Accounts!Record
  <2>2. CASE ~ok
    BY <1>3, <2>2 DEF Accounts!Record
  <2> QED
    BY <2>1, <2>2
<1>4. ASSUME NEW c \in Job, NEW ok \in BOOLEAN, Accounts!Flag(c, ok)
      PROVE  OrphansTold'
  BY <1>4 DEF Accounts!Flag
<1>5. ASSUME NEW c \in Job, Accounts!CheckingCredential(c) \/ Accounts!LinkedAccount(c)
      PROVE  OrphansTold'
  BY <1>5 DEF Accounts!CheckingCredential, Accounts!LinkedAccount
<1>6. ASSUME NEW c \in Job, NEW lands \in BOOLEAN, NEW replies \in BOOLEAN,
             Accounts!Issue(c, lands, replies)
      PROVE  OrphansTold'
  BY <1>6 DEF Accounts!Issue, Accounts!IssueThrown, Accounts!Request, Accounts!Kind
<1>7. CASE Accounts!Crash
  BY <1>7 DEF Accounts!Crash
<1>8. CASE UNCHANGED Accounts!vars
  BY <1>8 DEF Accounts!vars
<1> QED
  BY <1>1, <1>2, <1>3, <1>4, <1>5, <1>6, <1>7, <1>8 DEF Accounts!Next

(* Every step of an account or card request, and every crash, keeps what the *)
(* ledger says of the chain.                                                 *)
LEMMA AccountsStep == AccountsInv /\ [Accounts!Next]_Accounts!vars => AccountsInv'
BY AccountsTypeStep, LinkedStep, ReportedStep DEF AccountsInv

(* The invariant gives the types and that no account is orphaned unnoticed. *)
LEMMA AccountsInvImplies == AccountsInv => Accounts!TypeOK /\ Accounts!NoSilentOrphan
<1> SUFFICES ASSUME AccountsInv
             PROVE  Accounts!TypeOK /\ Accounts!NoSilentOrphan
  OBVIOUS
<1>1. Accounts!TypeOK
  BY DEF AccountsInv, AccountsType, Started, Stage, Accounts!TypeOK
<1>2. ASSUME NEW c \in Job, a_calls[c].pc = "done", a_calls[c].result = "ok"
      PROVE  /\ Accounts!pda(a_calls[c].req) \in a_chain
             /\ IF a_calls[c].req.kind = "card"
                  THEN Accounts!Accounted(Accounts!Checking(a_calls[c].req))
                  ELSE Accounts!Checking(a_calls[c].req) \in a_chain
  <2>1. a_calls[c].req \in Accounts!Request
    BY <1>2 DEF AccountsInv, AccountsType, Started, Accounts!Idle
  <2>2. /\ a_calls[c].req.kind \in {"checking", "savings", "card"}
        /\ a_calls[c].req.kind = "checking" =>
             Accounts!Checking(a_calls[c].req) = Accounts!pda(a_calls[c].req)
    BY <2>1, CheckingIsPDA DEF Accounts!Kind
  <2> QED
    BY <1>2, <2>2 DEF AccountsInv, Linked, Recorded
<1> QED
  BY <1>1, <1>2 DEF AccountsInv, OrphansTold, Accounts!NoSilentOrphan, Accounts!At

(***************************************************************************)
(* No ledger entry of a checking account or a card is left without its     *)
(* credential and without a report, and an answer of ok is backed on chain *)
(* (open-checking.ts, open-savings.ts, issue-card.ts).                     *)
(***************************************************************************)
THEOREM AccountsReconciled ==
  Accounts!Spec => [](Accounts!TypeOK /\ Accounts!NoSilentOrphan)
BY AccountsInit, AccountsStep, AccountsInvImplies, PTL DEF Accounts!Spec

(***************************************************************************)
(* The same, as the run of Books states it.                                *)
(***************************************************************************)
THEOREM BooksNoSilentOrphan == BooksSpec => []NoSilentOrphan
<1> DEFINE Inv == part = "accounts" => AccountsInv
<1>1. BooksInit => Inv
  BY AccountsInit DEF BooksInit
<1>2. Inv /\ [BooksNext]_all => Inv'
  BY PartStep, AccountsStep
<1>3. Inv => NoSilentOrphan
  BY AccountsInvImplies DEF NoSilentOrphan
<1> QED
  BY <1>1, <1>2, <1>3, PTL DEF BooksSpec

-----------------------------------------------------------------------------
(* The money handlers.                                                     *)

MoneyType ==
  /\ m_pc \in [Job -> Money!PC]
  /\ m_kind \in [Job -> Money!Kind \cup {None}]
  /\ m_eff \in [Job -> SUBSET Money!Effect]
  /\ m_unsure \in [Job -> SUBSET Money!Effect]
  /\ m_res \in [Job -> Money!Result]

(***************************************************************************)
(* What an operation has done when it is about to make the call pc names:  *)
(* nothing is in doubt, except the call whose failure led to flag, refund. *)
(***************************************************************************)
Progress(o, k, done) ==
  m_kind[o] = k /\ m_eff[o] = done /\ m_unsure[o] = {}

Doubtful(o, k, done, e) ==
  /\ m_kind[o] = k
  /\ m_eff[o] \ m_unsure[o] = done
  /\ m_eff[o] \subseteq done \cup {e}

MoneyStage(o) ==
  /\ m_pc[o] = "idle" => m_eff[o] = {} /\ m_unsure[o] = {}
  /\ m_pc[o] \in {"pull", "mint"} => Progress(o, "onramp", {})
  /\ m_pc[o] = "burn" => Progress(o, "offramp", {})
  /\ m_pc[o] = "push" => Progress(o, "offramp", {"burn"})
  /\ m_pc[o] = "flag" => Doubtful(o, "offramp", {"burn"}, "push")
  /\ m_pc[o] = "remit" => \/ Progress(o, "onramp", {"mint"})
                          \/ Progress(o, "offramp", {"burn", "push"})
  /\ m_pc[o] = "lock" => Progress(o, "wire", {})
  /\ m_pc[o] = "release" => Progress(o, "wire", {"lock"})
  /\ m_pc[o] = "refund" => Doubtful(o, "wire", {"lock"}, "release")
  /\ m_pc[o] # "done" => m_res[o] = "none"

AnswerTrueOf(o) ==
  m_res[o] \notin {"none", "lost"} =>
    /\ Money!Claimed(o) \subseteq m_eff[o]
    /\ m_eff[o] \ m_unsure[o] \subseteq Money!Claimed(o) \cup {"refund"}

FeeEarnedOf(o) ==
  "remit" \in m_eff[o] =>
    \/ m_kind[o] = "onramp" /\ "mint" \in m_eff[o] \ m_unsure[o]
    \/ m_kind[o] = "offramp" /\ {"burn", "push"} \subseteq m_eff[o] \ m_unsure[o]

OpInv(o) == MoneyStage(o) /\ AnswerTrueOf(o) /\ FeeEarnedOf(o)

MoneyInv == MoneyType /\ \A o \in Job : OpInv(o)

(* No handler has started: the invariant holds. *)
LEMMA MoneyInit == Money!Init => MoneyInv
<1> SUFFICES ASSUME Money!Init PROVE MoneyInv
  OBVIOUS
<1>1. MoneyType
  BY DEF Money!Init, MoneyType, Money!PC, Money!Kind, Money!Effect, Money!Result
<1>2. \A o \in Job : OpInv(o)
  BY DEF Money!Init, OpInv, MoneyStage, AnswerTrueOf, FeeEarnedOf
<1> QED
  BY <1>1, <1>2 DEF MoneyInv

(***************************************************************************)
(* A handler touches its own operation only.                               *)
(***************************************************************************)
LEMMA OpInvFrame ==
  ASSUME NEW p \in Job, OpInv(p),
         m_pc'[p] = m_pc[p], m_kind'[p] = m_kind[p], m_eff'[p] = m_eff[p],
         m_unsure'[p] = m_unsure[p], m_res'[p] = m_res[p]
  PROVE  OpInv(p)'
BY DEF OpInv, MoneyStage, Progress, Doubtful, AnswerTrueOf, FeeEarnedOf, Money!Claimed

(* A handler changes the state of its own operation only. *)
LEMMA HandlerFrame ==
  ASSUME MoneyType, NEW o \in Job,
         Money!Onramp(o) \/ Money!Offramp(o) \/ Money!Wire(o) \/ Money!RemitToTreasury(o)
  PROVE  /\ MoneyType'
         /\ \A p \in Job \ {o} :
              /\ m_pc'[p] = m_pc[p] /\ m_kind'[p] = m_kind[p] /\ m_eff'[p] = m_eff[p]
              /\ m_unsure'[p] = m_unsure[p] /\ m_res'[p] = m_res[p]
<1> USE DEF MoneyType, Money!Goto, Money!Finish, Money!reqVars, Money!PC, Money!Result,
        Money!Kind
<1>0. ASSUME NEW e \in Money!Effect, NEW y, Money!Effected(o, e, y)
      PROVE  /\ m_eff' \in [Job -> SUBSET Money!Effect]
             /\ m_unsure' \in [Job -> SUBSET Money!Effect]
             /\ \A p \in Job \ {o} : m_eff'[p] = m_eff[p] /\ m_unsure'[p] = m_unsure[p]
  BY <1>0 DEF Money!Effected
<1>1. ASSUME NEW k \in Money!Kind, NEW a, NEW f, NEW v, Money!Arrive(o, k, a, f, v)
      PROVE  /\ MoneyType'
             /\ \A p \in Job \ {o} :
                  /\ m_pc'[p] = m_pc[p] /\ m_kind'[p] = m_kind[p] /\ m_eff'[p] = m_eff[p]
                  /\ m_unsure'[p] = m_unsure[p] /\ m_res'[p] = m_res[p]
  BY <1>1 DEF Money!Arrive
<1>2. CASE Money!ArriveOnramp(o) \/ Money!ArriveOfframp(o) \/ Money!ArriveWire(o)
  BY <1>1, <1>2 DEF Money!ArriveOnramp, Money!ArriveOfframp, Money!ArriveWire
<1>3. CASE Money!VerifyUsdPull(o)
  BY <1>3 DEF Money!VerifyUsdPull
<1>4. CASE Money!MintOnChain(o)
  BY <1>0, <1>4 DEF Money!MintOnChain, Money!Effect
<1>5. CASE Money!BurnOnChain(o)
  BY <1>0, <1>5 DEF Money!BurnOnChain, Money!Effect
<1>6. CASE Money!PushUsd(o)
  BY <1>0, <1>6 DEF Money!PushUsd, Money!Effect
<1>7. CASE Money!FlagReconciliation(o)
  BY <1>0, <1>7 DEF Money!FlagReconciliation, Money!Effect
<1>8. CASE Money!LockEscrow(o)
  BY <1>0, <1>8 DEF Money!LockEscrow, Money!Effect
<1>9. CASE Money!ReleaseEscrow(o)
  BY <1>0, <1>9 DEF Money!ReleaseEscrow, Money!Effect
<1>10. CASE Money!RefundEscrow(o)
  BY <1>0, <1>10 DEF Money!RefundEscrow, Money!Effect
<1>11. CASE Money!RemitToTreasury(o)
  BY <1>0, <1>11 DEF Money!RemitToTreasury, Money!Effect
<1> QED
  BY <1>2, <1>3, <1>4, <1>5, <1>6, <1>7, <1>8, <1>9, <1>10, <1>11
  DEF Money!Onramp, Money!Offramp, Money!Wire

(***************************************************************************)
(* The three ways an external call ends.                                   *)
(***************************************************************************)
LEMMA EffectedAt ==
  ASSUME MoneyType, NEW o \in Job, NEW e \in Money!Effect,
         NEW y \in Money!Reply \cup {"refused"}, Money!Effected(o, e, y)
  PROVE  \/ /\ y = "ok"
            /\ m_eff'[o] = m_eff[o] \cup {e} /\ m_unsure'[o] = m_unsure[o]
         \/ /\ y = "refused"
            /\ m_eff'[o] = m_eff[o] /\ m_unsure'[o] = m_unsure[o]
         \/ /\ y = "lost_reply"
            /\ m_eff'[o] = m_eff[o] \cup {e} /\ m_unsure'[o] = m_unsure[o] \cup {e}
BY DEF MoneyType, Money!Effected, Money!Reply

(* A step of an operation keeps what its answer and its effects say of each *)
(* other.                                                                   *)
LEMMA HandlerKeepsOpInv ==
  ASSUME MoneyType, NEW o \in Job, OpInv(o),
         Money!Onramp(o) \/ Money!Offramp(o) \/ Money!Wire(o) \/ Money!RemitToTreasury(o)
  PROVE  OpInv(o)'
<1> USE DEF MoneyType, OpInv, MoneyStage, Progress, Doubtful, AnswerTrueOf, FeeEarnedOf,
        Money!Claimed, Money!Goto, Money!Finish, Money!Effect
<1>1. ASSUME NEW k \in Money!Kind, NEW a, NEW f, NEW v, Money!Arrive(o, k, a, f, v)
      PROVE  OpInv(o)'
  BY <1>1 DEF Money!Arrive, Money!Kind
<1>2. CASE Money!ArriveOnramp(o) \/ Money!ArriveOfframp(o) \/ Money!ArriveWire(o)
  BY <1>1, <1>2 DEF Money!ArriveOnramp, Money!ArriveOfframp, Money!ArriveWire, Money!Kind
<1>3. CASE Money!VerifyUsdPull(o)
  BY <1>3 DEF Money!VerifyUsdPull, Money!reqVars
<1>4. CASE Money!MintOnChain(o)
  <2>1. PICK y \in Money!Reply :
          /\ Money!Effected(o, "mint", y)
          /\ \/ y = "ok" /\ Money!Goto(o, "remit")
             \/ y # "ok" /\ Money!Finish(o, "mint_failed")
    BY <1>4 DEF Money!MintOnChain
  <2>2. m_kind'[o] = m_kind[o]
    BY <1>4 DEF Money!MintOnChain, Money!reqVars
  <2>3. m_pc[o] = "mint"
    BY <1>4 DEF Money!MintOnChain
  <2>4. CASE y = "ok"
    BY <2>1, <2>2, <2>3, <2>4, EffectedAt
  <2>5. CASE y # "ok"
    BY <2>1, <2>2, <2>3, <2>5, EffectedAt
  <2> QED
    BY <2>4, <2>5
<1>5. CASE Money!BurnOnChain(o)
  <2>1. PICK y \in Money!Reply \cup {"refused"} :
          /\ Money!Effected(o, "burn", y)
          /\ \/ y = "ok" /\ Money!Goto(o, "push")
             \/ y # "ok" /\ Money!Finish(o, "burn_failed")
    BY <1>5 DEF Money!BurnOnChain
  <2>2. m_kind'[o] = m_kind[o]
    BY <1>5 DEF Money!BurnOnChain, Money!reqVars
  <2>3. m_pc[o] = "burn"
    BY <1>5 DEF Money!BurnOnChain
  <2>4. CASE y = "ok"
    BY <2>1, <2>2, <2>3, <2>4, EffectedAt
  <2>5. CASE y # "ok"
    BY <2>1, <2>2, <2>3, <2>5, EffectedAt
  <2> QED
    BY <2>4, <2>5
<1>6. CASE Money!PushUsd(o)
  <2>1. PICK y \in Money!Reply :
          /\ Money!Effected(o, "push", y)
          /\ Money!Goto(o, IF y = "ok" THEN "remit" ELSE "flag")
    BY <1>6 DEF Money!PushUsd
  <2>2. m_kind'[o] = m_kind[o]
    BY <1>6 DEF Money!PushUsd, Money!reqVars
  <2>3. m_pc[o] = "push"
    BY <1>6 DEF Money!PushUsd
  <2>4. CASE y = "ok"
    BY <2>1, <2>2, <2>3, <2>4, EffectedAt
  <2>5. CASE y # "ok"
    BY <2>1, <2>2, <2>3, <2>5, EffectedAt
  <2> QED
    BY <2>4, <2>5
<1>7. CASE Money!FlagReconciliation(o)
  <2>1. PICK y \in Money!Reply :
          /\ Money!Effected(o, "flag", y)
          /\ Money!Finish(o, IF y = "ok" THEN "push_failed_post_burn" ELSE "flag_error")
    BY <1>7 DEF Money!FlagReconciliation
  <2>2. m_kind'[o] = m_kind[o]
    BY <1>7 DEF Money!FlagReconciliation, Money!reqVars
  <2>3. m_pc[o] = "flag"
    BY <1>7 DEF Money!FlagReconciliation
  <2>4. CASE y = "ok"
    BY <2>1, <2>2, <2>3, <2>4, EffectedAt
  <2>5. CASE y # "ok"
    BY <2>1, <2>2, <2>3, <2>5, EffectedAt
  <2> QED
    BY <2>4, <2>5
<1>8. CASE Money!LockEscrow(o)
  <2>1. PICK y \in Money!Reply \cup {"refused"} :
          /\ Money!Effected(o, "lock", y)
          /\ \/ y = "ok" /\ Money!Goto(o, "release")
             \/ y # "ok" /\ Money!Finish(o, "lock_failed")
    BY <1>8 DEF Money!LockEscrow
  <2>2. m_kind'[o] = m_kind[o]
    BY <1>8 DEF Money!LockEscrow, Money!reqVars
  <2>3. m_pc[o] = "lock"
    BY <1>8 DEF Money!LockEscrow
  <2>4. CASE y = "ok"
    BY <2>1, <2>2, <2>3, <2>4, EffectedAt
  <2>5. CASE y # "ok"
    BY <2>1, <2>2, <2>3, <2>5, EffectedAt
  <2> QED
    BY <2>4, <2>5
<1>9. CASE Money!ReleaseEscrow(o)
  <2>1. PICK y \in Money!Reply :
          /\ Money!Effected(o, "release", y)
          /\ \/ y = "ok" /\ Money!Finish(o, "completed")
             \/ y # "ok" /\ Money!Goto(o, "refund")
    BY <1>9 DEF Money!ReleaseEscrow
  <2>2. m_kind'[o] = m_kind[o]
    BY <1>9 DEF Money!ReleaseEscrow, Money!reqVars
  <2>3. m_pc[o] = "release"
    BY <1>9 DEF Money!ReleaseEscrow
  <2>4. CASE y = "ok"
    BY <2>1, <2>2, <2>3, <2>4, EffectedAt
  <2>5. CASE y # "ok"
    BY <2>1, <2>2, <2>3, <2>5, EffectedAt
  <2> QED
    BY <2>4, <2>5
<1>10. CASE Money!RefundEscrow(o)
  BY <1>10 DEF Money!RefundEscrow, Money!Effected, Money!reqVars
<1>11. CASE Money!RemitToTreasury(o)
  <2>1. PICK y \in Money!Reply :
          /\ Money!Effected(o, "remit", y)
          /\ Money!Finish(o, IF y = "ok" THEN "completed" ELSE "remit_error")
    BY <1>11 DEF Money!RemitToTreasury
  <2>2. m_kind'[o] = m_kind[o]
    BY <1>11 DEF Money!RemitToTreasury, Money!reqVars
  <2>3. m_pc[o] = "remit"
    BY <1>11 DEF Money!RemitToTreasury
  <2>4. CASE y = "ok"
    BY <2>1, <2>2, <2>3, <2>4, EffectedAt
  <2>5. CASE y # "ok"
    BY <2>1, <2>2, <2>3, <2>5, EffectedAt
  <2> QED
    BY <2>4, <2>5
<1> QED
  BY <1>2, <1>3, <1>4, <1>5, <1>6, <1>7, <1>8, <1>9, <1>10, <1>11
  DEF Money!Onramp, Money!Offramp, Money!Wire

(* Every step of the money handlers keeps the invariant of the answers. *)
LEMMA MoneyStep == MoneyInv /\ [Money!Next]_Money!vars => MoneyInv'
<1> SUFFICES ASSUME MoneyInv, [Money!Next]_Money!vars
             PROVE  MoneyInv'
  OBVIOUS
<1> USE DEF MoneyInv
<1>1. ASSUME NEW o \in Job,
             Money!Onramp(o) \/ Money!Offramp(o) \/ Money!Wire(o) \/ Money!RemitToTreasury(o)
      PROVE  MoneyInv'
  BY <1>1, HandlerFrame, HandlerKeepsOpInv, OpInvFrame
<1>2. CASE Money!Crash
  <2>1. MoneyType'
    BY <1>2 DEF Money!Crash, Money!reqVars, MoneyType, Money!PC, Money!Result
  <2>2. ASSUME NEW p \in Job PROVE OpInv(p)'
    BY <1>2, <2>2 DEF Money!Crash, Money!reqVars, MoneyType, OpInv, MoneyStage,
         AnswerTrueOf, FeeEarnedOf, Money!Claimed
  <2> QED
    BY <2>1, <2>2
<1>3. CASE UNCHANGED Money!vars
  BY <1>3, OpInvFrame DEF Money!vars, MoneyType
<1> QED
  BY <1>1, <1>2, <1>3 DEF Money!Next

(* The invariant gives that answers are true and that fees are taken for *)
(* wires that happened.                                                  *)
LEMMA MoneyInvImplies == MoneyInv => Money!AnswerTrue /\ Money!FeeEarned
BY DEF MoneyInv, OpInv, AnswerTrueOf, FeeEarnedOf, Money!AnswerTrue, Money!FeeEarned,
       Money!Had

(***************************************************************************)
(* What a money handler answers is what it did, and no fee is taken from an*)
(* operation that failed, whatever call fails or loses its reply, for any  *)
(* operations and amounts (onramp.ts, offramp.ts, wire.ts).                *)
(***************************************************************************)
THEOREM MoneyAnswersTrue == Money!Spec => [](Money!AnswerTrue /\ Money!FeeEarned)
BY MoneyInit, MoneyStep, MoneyInvImplies, PTL DEF Money!Spec

(***************************************************************************)
(* The same, as the run of Books states it.                                *)
(***************************************************************************)
THEOREM BooksAnswerTrue == BooksSpec => []AnswerTrue
<1> DEFINE Inv == part = "money" => MoneyInv
<1>1. BooksInit => Inv
  BY MoneyInit DEF BooksInit
<1>2. Inv /\ [BooksNext]_all => Inv'
  BY PartStep, MoneyStep
<1>3. Inv => AnswerTrue
  BY MoneyInvImplies DEF AnswerTrue
<1> QED
  BY <1>1, <1>2, <1>3, PTL DEF BooksSpec

-----------------------------------------------------------------------------
(* What the bank owes and what it holds.                                   *)

BackingType ==
  /\ m_amount \in [Job -> Int]
  /\ m_ref \in [Job -> Ref \cup {None}]
  /\ m_cleared \in [Ref -> Nat]

(***************************************************************************)
(* The order of effects within an operation, whatever became of it.        *)
(***************************************************************************)
EffectOrder(o) ==
  /\ m_kind[o] = None => m_eff[o] = {}
  /\ m_kind[o] = "onramp" =>
       /\ m_eff[o] \subseteq {"mint", "remit"}
       /\ "remit" \in m_eff[o] => "mint" \in m_eff[o]
  /\ m_kind[o] = "offramp" =>
       /\ m_eff[o] \subseteq {"burn", "push", "flag", "remit"}
       /\ "push" \in m_eff[o] => "burn" \in m_eff[o]
       /\ "remit" \in m_eff[o] => "push" \in m_eff[o]
  /\ m_kind[o] = "wire" =>
       /\ m_eff[o] \subseteq {"lock", "release", "refund"}
       /\ "release" \in m_eff[o] \/ "refund" \in m_eff[o] => "lock" \in m_eff[o]

(***************************************************************************)
(* Amounts are positive before anything happens, and eUSD is minted only   *)
(* for the cents that cleared under the reference of the operation.        *)
(***************************************************************************)
Backing(o) ==
  /\ m_pc[o] \notin {"idle", "done"} \/ m_eff[o] # {} => m_amount[o] > 0
  /\ m_kind[o] = "onramp" => m_ref[o] \in Ref
  /\ m_pc[o] = "mint" \/ "mint" \in m_eff[o] =>
       m_amount[o] = m_cleared[m_ref[o]] * CentSize

BackingInv ==
  /\ MoneyInv
  /\ BackingType
  /\ \A o \in Job : EffectOrder(o) /\ Backing(o) /\ (m_pc[o] = "idle" => m_kind[o] = None)

(* With nothing minted and nothing cleared the books are backed. *)
LEMMA BackingInit == Money!Init => BackingInv
<1> SUFFICES ASSUME Money!Init PROVE BackingInv
  OBVIOUS
<1>1. BackingType
  <2>1. ASSUME NEW c \in {x \in Cents : x > 0} \cup {0} PROVE c \in Nat
    <3>1. Cents \subseteq Int
      BY MoneyAssumption DEF Money!MoneyAssumption
    <3> QED
      BY <3>1
  <2>2. m_cleared \in [Ref -> {c \in Cents : c > 0} \cup {0}]
    BY DEF Money!Init
  <2>3. m_cleared \in [Ref -> Nat]
    BY <2>1, <2>2
  <2> QED
    BY <2>3 DEF Money!Init, BackingType
<1>2. ASSUME NEW o \in Job PROVE EffectOrder(o) /\ Backing(o) /\ m_kind[o] = None
  <2>1. m_pc[o] = "idle" /\ m_kind[o] = None /\ m_eff[o] = {} /\ m_kind[o] # "onramp"
    BY <1>2, MoneyAssumption DEF Money!Init, Money!MoneyAssumption, Money!Kind
  <2> QED
    BY <2>1 DEF EffectOrder, Backing
<1> QED
  BY <1>1, <1>2, MoneyInit DEF BackingInv

(* An operation that is not touched keeps the order of its effects and its *)
(* backing.                                                                *)
LEMMA BackingFrame ==
  ASSUME NEW p \in Job, EffectOrder(p), Backing(p),
         m_pc'[p] = m_pc[p], m_kind'[p] = m_kind[p], m_eff'[p] = m_eff[p],
         m_amount'[p] = m_amount[p], m_ref'[p] = m_ref[p], m_cleared' = m_cleared
  PROVE  EffectOrder(p)' /\ Backing(p)'
BY DEF EffectOrder, Backing

(* A new request has no effect yet, and changes no other operation. *)
LEMMA ArriveKeepsBacking ==
  ASSUME BackingInv, NEW o \in Job,
         Money!ArriveOnramp(o) \/ Money!ArriveOfframp(o) \/ Money!ArriveWire(o)
  PROVE  /\ BackingType'
         /\ EffectOrder(o)' /\ Backing(o)' /\ m_pc'[o] # "idle"
         /\ m_cleared' = m_cleared
         /\ \A p \in Job \ {o} : m_amount'[p] = m_amount[p] /\ m_ref'[p] = m_ref[p]
<1> USE DEF BackingInv, MoneyInv, MoneyType, BackingType
<1>1. PICK k \in Money!Kind, a \in Int, f \in Ref \cup {None}, v \in BOOLEAN :
        Money!Arrive(o, k, a, f, v) /\ (k = "onramp" => f \in Ref)
  <2>1. \A c \in Cents : c * CentSize \in Int
    BY MoneyAssumption DEF Money!MoneyAssumption
  <2>2. Atomic \subseteq Int
    BY MoneyAssumption DEF Money!MoneyAssumption
  <2> USE DEF Money!Kind
  <2>3. CASE Money!ArriveOnramp(o)
    BY <2>1, <2>3 DEF Money!ArriveOnramp
  <2>4. CASE Money!ArriveOfframp(o)
    BY <2>2, <2>4 DEF Money!ArriveOfframp
  <2>5. CASE Money!ArriveWire(o)
    BY <2>2, <2>5 DEF Money!ArriveWire
  <2> QED
    BY <2>3, <2>4, <2>5
<1>2. /\ m_pc[o] = "idle" /\ m_eff[o] = {} /\ m_eff' = m_eff /\ m_cleared' = m_cleared
      /\ m_kind' = [m_kind EXCEPT ![o] = k]
      /\ m_amount' = [m_amount EXCEPT ![o] = a]
      /\ m_ref' = [m_ref EXCEPT ![o] = f]
  BY <1>1 DEF Money!Arrive, OpInv, MoneyStage
<1>3. m_pc'[o] = "done" \/ (a > 0 /\ m_pc'[o] \in {"pull", "burn", "lock"})
  BY <1>1 DEF Money!Arrive, Money!Goto, Money!Finish, Money!Kind
<1>4. BackingType'
  BY <1>2
<1>5. EffectOrder(o)'
  BY <1>1, <1>2 DEF EffectOrder, Money!Kind
<1>6. Backing(o)'
  BY <1>1, <1>2, <1>3 DEF Backing
<1> QED
  BY <1>2, <1>3, <1>4, <1>5, <1>6

(* Each leg of onramp, offramp and wire comes in the order that keeps the *)
(* operation backed.                                                      *)
LEMMA HandlerKeepsBacking ==
  ASSUME BackingInv, NEW o \in Job,
         \/ Money!VerifyUsdPull(o) \/ Money!MintOnChain(o) \/ Money!BurnOnChain(o)
         \/ Money!PushUsd(o) \/ Money!FlagReconciliation(o) \/ Money!LockEscrow(o)
         \/ Money!ReleaseEscrow(o) \/ Money!RefundEscrow(o) \/ Money!RemitToTreasury(o)
  PROVE  /\ UNCHANGED <<m_kind, m_amount, m_ref, m_cleared>>
         /\ EffectOrder(o)' /\ Backing(o)' /\ m_pc'[o] # "idle"
<1> USE DEF BackingInv, MoneyInv, MoneyType
<1>1. UNCHANGED <<m_kind, m_amount, m_ref, m_cleared>>
  BY DEF Money!VerifyUsdPull, Money!MintOnChain, Money!BurnOnChain, Money!PushUsd,
         Money!FlagReconciliation, Money!LockEscrow, Money!ReleaseEscrow,
         Money!RefundEscrow, Money!RemitToTreasury, Money!reqVars
<1>2. /\ m_pc[o] \notin {"idle", "done"}
      /\ m_pc'[o] # "idle"
      /\ m_pc'[o] = "mint" => m_pc[o] = "pull" /\ m_amount[o] = m_cleared[m_ref[o]] * CentSize
  BY DEF Money!VerifyUsdPull, Money!MintOnChain, Money!BurnOnChain, Money!PushUsd,
         Money!FlagReconciliation, Money!LockEscrow, Money!ReleaseEscrow,
         Money!RefundEscrow, Money!RemitToTreasury, Money!Goto, Money!Finish
<1>3. \/ m_eff'[o] = m_eff[o]
      \/ m_pc[o] = "mint" /\ m_eff'[o] = m_eff[o] \cup {"mint"}
      \/ m_pc[o] = "burn" /\ m_eff'[o] = m_eff[o] \cup {"burn"}
      \/ m_pc[o] = "push" /\ m_eff'[o] = m_eff[o] \cup {"push"}
      \/ m_pc[o] = "flag" /\ m_eff'[o] = m_eff[o] \cup {"flag"}
      \/ m_pc[o] = "remit" /\ m_eff'[o] = m_eff[o] \cup {"remit"}
      \/ m_pc[o] = "lock" /\ m_eff'[o] = m_eff[o] \cup {"lock"}
      \/ m_pc[o] = "release" /\ m_eff'[o] = m_eff[o] \cup {"release"}
      \/ m_pc[o] = "refund" /\ m_eff'[o] = m_eff[o] \cup {"refund"}
  BY DEF Money!VerifyUsdPull, Money!MintOnChain, Money!BurnOnChain, Money!PushUsd,
         Money!FlagReconciliation, Money!LockEscrow, Money!ReleaseEscrow,
         Money!RefundEscrow, Money!RemitToTreasury, Money!Effected
<1>4. EffectOrder(o)'
  <2>1. MoneyStage(o) /\ EffectOrder(o) /\ m_kind'[o] = m_kind[o]
    BY <1>1 DEF OpInv
  <2>2. None \notin {"onramp", "offramp", "wire"}
    BY MoneyAssumption DEF Money!MoneyAssumption, Money!Kind
  <2> USE DEF EffectOrder, MoneyStage, Progress, Doubtful
  <2>3. CASE m_eff'[o] = m_eff[o]
    BY <2>1, <2>3
  <2>4. CASE m_pc[o] = "mint" /\ m_eff'[o] = m_eff[o] \cup {"mint"}
    BY <2>1, <2>2, <2>4
  <2>5. CASE m_pc[o] = "burn" /\ m_eff'[o] = m_eff[o] \cup {"burn"}
    BY <2>1, <2>2, <2>5
  <2>6. CASE m_pc[o] = "push" /\ m_eff'[o] = m_eff[o] \cup {"push"}
    BY <2>1, <2>2, <2>6
  <2>7. CASE m_pc[o] = "flag" /\ m_eff'[o] = m_eff[o] \cup {"flag"}
    BY <2>1, <2>2, <2>7
  <2>8. CASE m_pc[o] = "remit" /\ m_eff'[o] = m_eff[o] \cup {"remit"}
    BY <2>1, <2>2, <2>8
  <2>9. CASE m_pc[o] = "lock" /\ m_eff'[o] = m_eff[o] \cup {"lock"}
    BY <2>1, <2>2, <2>9
  <2>10. CASE m_pc[o] = "release" /\ m_eff'[o] = m_eff[o] \cup {"release"}
    BY <2>1, <2>2, <2>10
  <2>11. CASE m_pc[o] = "refund" /\ m_eff'[o] = m_eff[o] \cup {"refund"}
    BY <2>1, <2>2, <2>11
  <2> QED
    BY <1>3, <2>3, <2>4, <2>5, <2>6, <2>7, <2>8, <2>9, <2>10, <2>11
<1>5. Backing(o)'
  BY <1>1, <1>2, <1>3 DEF Backing, OpInv, MoneyStage, Progress, Doubtful
<1> QED
  BY <1>1, <1>2, <1>4, <1>5

(* Every step of the money handlers keeps the invariant of the books. *)
LEMMA BackingStep == BackingInv /\ [Money!Next]_Money!vars => BackingInv'
<1> SUFFICES ASSUME BackingInv, [Money!Next]_Money!vars
             PROVE  BackingInv'
  OBVIOUS
<1> USE DEF BackingInv
<1>1. MoneyInv'
  BY MoneyStep
<1>2. ASSUME NEW o \in Job,
             Money!Onramp(o) \/ Money!Offramp(o) \/ Money!Wire(o) \/ Money!RemitToTreasury(o)
      PROVE  BackingInv'
  <2>1. \A p \in Job \ {o} :
          m_pc'[p] = m_pc[p] /\ m_kind'[p] = m_kind[p] /\ m_eff'[p] = m_eff[p]
    BY <1>2, HandlerFrame DEF MoneyInv
  <2>2. CASE Money!ArriveOnramp(o) \/ Money!ArriveOfframp(o) \/ Money!ArriveWire(o)
    BY <1>1, <2>1, <2>2, ArriveKeepsBacking, BackingFrame
  <2>3. CASE ~(Money!ArriveOnramp(o) \/ Money!ArriveOfframp(o) \/ Money!ArriveWire(o))
    <3>1. /\ UNCHANGED <<m_kind, m_amount, m_ref, m_cleared>>
          /\ EffectOrder(o)' /\ Backing(o)' /\ m_pc'[o] # "idle"
      BY <1>2, <2>3, HandlerKeepsBacking DEF Money!Onramp, Money!Offramp, Money!Wire
    <3>2. BackingType'
      BY <3>1 DEF BackingType
    <3> QED
      BY <1>1, <2>1, <3>1, <3>2, BackingFrame
  <2> QED
    BY <2>2, <2>3
<1>3. CASE Money!Crash
  <2>1. /\ UNCHANGED <<m_kind, m_amount, m_ref, m_cleared, m_eff>>
        /\ \A p \in Job : m_pc'[p] = "done" \/ (m_pc[p] = "idle" /\ m_pc'[p] = "idle")
    BY <1>3 DEF Money!Crash, Money!reqVars
  <2>2. \A p \in Job : EffectOrder(p)' /\ Backing(p)' /\ (m_pc'[p] = "idle" => m_kind'[p] = None)
    BY <2>1 DEF EffectOrder, Backing
  <2> QED
    BY <1>1, <2>1, <2>2 DEF BackingType
<1>4. CASE UNCHANGED Money!vars
  <2>1. UNCHANGED <<m_pc, m_kind, m_amount, m_ref, m_cleared, m_eff>>
    BY <1>4 DEF Money!vars
  <2> QED
    BY <1>1, <2>1, BackingFrame DEF BackingType
<1> QED
  BY <1>2, <1>3, <1>4 DEF Money!Next


(***************************************************************************)
(* The sums BankMoney writes are those of Sums.                            *)
(***************************************************************************)
LEMMA MoneySum == \A f, S : Money!Sum(f, S) = Sum(f, S)
BY DEF Money!Sum, Money!MapThenSumSet, Money!MapThenFoldSet, Sum, MapThenSumSet, MapThenFoldSet

(***************************************************************************)
(* Six columns of a ledger are covered by three when they are in each row. *)
(***************************************************************************)
LEMMA SumCovered ==
  ASSUME NEW S, IsFiniteSet(S),
         NEW a \in [S -> Int], NEW b \in [S -> Int], NEW c \in [S -> Int],
         NEW d \in [S -> Int], NEW e \in [S -> Int], NEW f \in [S -> Int],
         NEW x \in [S -> Int], NEW y \in [S -> Int], NEW z \in [S -> Int],
         \A o \in S : a[o] + b[o] + c[o] + d[o] + e[o] + f[o] <= x[o] + y[o] + z[o]
  PROVE  Sum(a, S) + Sum(b, S) + Sum(c, S) + Sum(d, S) + Sum(e, S) + Sum(f, S)
           <= Sum(x, S) + Sum(y, S) + Sum(z, S)
<1> DEFINE ab     == [o \in S |-> a[o] + b[o]]
           abc    == [o \in S |-> ab[o] + c[o]]
           abcd   == [o \in S |-> abc[o] + d[o]]
           abcde  == [o \in S |-> abcd[o] + e[o]]
           abcdef == [o \in S |-> abcde[o] + f[o]]
           xy     == [o \in S |-> x[o] + y[o]]
           xyz    == [o \in S |-> xy[o] + z[o]]
<1>1. ab \in [S -> Int] /\ Sum(ab, S) = Sum(a, S) + Sum(b, S)
  BY SumPlus
<1>2. abc \in [S -> Int] /\ Sum(abc, S) = Sum(ab, S) + Sum(c, S)
  <2> HIDE DEF ab
  <2> QED BY <1>1, SumPlus
<1>3. abcd \in [S -> Int] /\ Sum(abcd, S) = Sum(abc, S) + Sum(d, S)
  <2> HIDE DEF abc
  <2> QED BY <1>2, SumPlus
<1>4. abcde \in [S -> Int] /\ Sum(abcde, S) = Sum(abcd, S) + Sum(e, S)
  <2> HIDE DEF abcd
  <2> QED BY <1>3, SumPlus
<1>5. abcdef \in [S -> Int] /\ Sum(abcdef, S) = Sum(abcde, S) + Sum(f, S)
  <2> HIDE DEF abcde
  <2> QED BY <1>4, SumPlus
<1>6. xy \in [S -> Int] /\ Sum(xy, S) = Sum(x, S) + Sum(y, S)
  BY SumPlus
<1>7. xyz \in [S -> Int] /\ Sum(xyz, S) = Sum(xy, S) + Sum(z, S)
  <2> HIDE DEF xy
  <2> QED BY <1>6, SumPlus
<1>8. \A o \in S : abcdef[o] <= xyz[o]
  OBVIOUS
<1>9. Sum(abcdef, S) <= Sum(xyz, S)
  <2> HIDE DEF abcdef, xyz
  <2> QED BY <1>5, <1>7, <1>8, SumMonotone
<1>10. /\ Sum(a, S) \in Int /\ Sum(b, S) \in Int /\ Sum(c, S) \in Int /\ Sum(d, S) \in Int
       /\ Sum(e, S) \in Int /\ Sum(f, S) \in Int /\ Sum(x, S) \in Int /\ Sum(y, S) \in Int
       /\ Sum(z, S) \in Int
  BY SumInt
<1> HIDE DEF ab, abc, abcd, abcde, abcdef, xy, xyz
<1> QED
  BY <1>1, <1>2, <1>3, <1>4, <1>5, <1>6, <1>7, <1>9, <1>10

(***************************************************************************)
(* Fees and rounding: fee and net are the amount, and a push, rounded down *)
(* to the cent, is worth at most the net.                                  *)
(***************************************************************************)
LEMMA FeeSplits ==
  ASSUME NEW a \in Int, a > 0
  PROVE  /\ Money!OneBipFee(a) \in Int /\ Money!Net(a) \in Int /\ Money!PushValue(a) \in Int
         /\ Money!OneBipFee(a) >= 0
         /\ Money!Net(a) + Money!OneBipFee(a) = a
         /\ Money!PushValue(a) <= Money!Net(a)
<1>1. FeeDivisor \in Nat \ {0} /\ CentSize \in Nat \ {0}
  BY MoneyAssumption DEF Money!MoneyAssumption
<1>2. \A n \in Int, k \in Nat \ {0} : n \div k \in Int /\ k * (n \div k) <= n
  OBVIOUS
<1>3. \A n \in Nat, k \in Nat \ {0} : n \div k \in Nat
  OBVIOUS
<1>4. Money!OneBipFee(a) = a \div FeeDivisor /\ Money!OneBipFee(a) \in Nat
  BY <1>1, <1>3 DEF Money!OneBipFee
<1>5. Money!Net(a) = a - Money!OneBipFee(a) /\ Money!Net(a) \in Int
  BY <1>4 DEF Money!Net
<1>6. Money!PushValue(a) \in Int /\ Money!PushValue(a) <= Money!Net(a)
  <2>1. \A n \in Int : n \div CentSize \in Int /\ (n \div CentSize) * CentSize <= n
    BY <1>1, <1>2
  <2> QED
    BY <1>1, <1>5, <2>1 DEF Money!PushValue
<1> QED
  BY <1>4, <1>5, <1>6


(***************************************************************************)
(* The rows of the bank's books, one per operation.                        *)
(***************************************************************************)
Row(e, f) == [o \in Job |-> IF o \in Money!Had(e) THEN f[o] ELSE 0]
Fees      == [o \in Job |-> Money!OneBipFee(m_amount[o])]
Pushes    == [o \in Job |-> Money!PushValue(m_amount[o])]
Open      == Money!Had("lock") \ (Money!Had("release") \cup Money!Had("refund"))
OpenRow   == [o \in Job |-> IF o \in Open THEN Money!Wired[o] ELSE 0]
ClearedOf == [f \in Ref |-> m_cleared[f] * CentSize]
MintedFor == [o \in Job |-> IF o \in Money!Had("mint") THEN ClearedOf[m_ref[o]] ELSE 0]

(* There are finitely many operations and references: the sums are over *)
(* finite sets.                                                         *)
LEMMA FiniteBooks == IsFiniteSet(Job) /\ IsFiniteSet(Ref)
BY MoneyAssumption DEF Money!MoneyAssumption, Money!IsFiniteSet, IsFiniteSet

(* A sum over the operations that had an effect is a sum over all *)
(* operations.                                                    *)
LEMMA RowSum ==
  ASSUME BackingInv, NEW e, NEW f \in [Job -> Int]
  PROVE  Row(e, f) \in [Job -> Int] /\ Sum(f, Money!Had(e)) = Sum(Row(e, f), Job)
<1>1. IsFiniteSet(Job)
  BY FiniteBooks
<1>2. Money!Had(e) \in SUBSET Job
  BY DEF Money!Had
<1>3. Sum(f, Money!Had(e)) = Sum([o \in Job |-> IF o \in Money!Had(e) THEN f[o] ELSE 0], Job)
  BY <1>1, <1>2, SumRestrict
<1> QED
  BY <1>3 DEF Row

(* The columns of the books are functions to the integers. *)
LEMMA BookTypes ==
  ASSUME BackingInv
  PROVE  /\ IsFiniteSet(Job) /\ IsFiniteSet(Ref)
         /\ m_amount \in [Job -> Int] /\ WireFee \in Nat
         /\ Money!Nets \in [Job -> Int] /\ Money!Wired \in [Job -> Int]
         /\ Fees \in [Job -> Int] /\ Pushes \in [Job -> Int]
         /\ ClearedOf \in [Ref -> Nat]
<1>1. /\ IsFiniteSet(Job) /\ IsFiniteSet(Ref) /\ WireFee \in Nat
      /\ FeeDivisor \in Nat \ {0} /\ CentSize \in Nat \ {0}
  BY FiniteBooks, MoneyAssumption DEF Money!MoneyAssumption
<1>2. m_amount \in [Job -> Int] /\ m_cleared \in [Ref -> Nat]
  BY DEF BackingInv, BackingType
<1>3. \A a \in Int : /\ Money!OneBipFee(a) \in Int /\ Money!Net(a) \in Int
                     /\ Money!PushValue(a) \in Int
  <2> TAKE a \in Int
  <2>1. Money!OneBipFee(a) \in Int
    BY <1>1 DEF Money!OneBipFee
  <2>2. Money!Net(a) \in Int
    BY <2>1 DEF Money!Net
  <2>3. Money!PushValue(a) \in Int
    BY <1>1, <2>2 DEF Money!PushValue
  <2> QED
    BY <2>1, <2>2, <2>3
<1>4. Money!Nets \in [Job -> Int] /\ Fees \in [Job -> Int] /\ Pushes \in [Job -> Int]
  BY <1>2, <1>3 DEF Money!Nets, Fees, Pushes
<1>5. Money!Wired \in [Job -> Int]
  BY <1>1, <1>2 DEF Money!Wired
<1>6. ClearedOf \in [Ref -> Nat]
  BY <1>1, <1>2 DEF ClearedOf
<1> QED
  BY <1>1, <1>2, <1>4, <1>5, <1>6

(***************************************************************************)
(* One operation never leaves the bank owing more than it brought in.      *)
(***************************************************************************)
LEMMA RowCovered ==
  ASSUME BackingInv, Money!Had("release") \cap Money!Had("refund") = {}, NEW o \in Job
  PROVE  Row("mint", Money!Nets)[o] + Row("refund", Money!Wired)[o] + Row("remit", Fees)[o]
           + OpenRow[o] + Row("push", Pushes)[o] + Row("release", m_amount)[o]
         <= MintedFor[o] + Row("burn", m_amount)[o] + Row("lock", Money!Wired)[o]
<1> DEFINE a == m_amount[o]
<1>1. /\ Money!Nets[o] = Money!Net(a) /\ Fees[o] = Money!OneBipFee(a)
      /\ Pushes[o] = Money!PushValue(a) /\ Money!Wired[o] = a + WireFee
      /\ a \in Int /\ WireFee \in Nat
  BY BookTypes DEF Money!Nets, Fees, Pushes, Money!Wired
<1>2. EffectOrder(o) /\ Backing(o) /\ m_kind[o] \in Money!Kind \cup {None}
  BY DEF BackingInv, MoneyInv, MoneyType
<1>3. \A e : o \in Money!Had(e) <=> e \in m_eff[o]
  BY DEF Money!Had
<1>4. ~("release" \in m_eff[o] /\ "refund" \in m_eff[o])
  BY <1>3
<1>5. \A e, f : Row(e, f)[o] = IF e \in m_eff[o] THEN f[o] ELSE 0
  BY <1>3 DEF Row
<1>6. OpenRow[o] = IF /\ "lock" \in m_eff[o] /\ "release" \notin m_eff[o]
                      /\ "refund" \notin m_eff[o]
                   THEN a + WireFee ELSE 0
  BY <1>1, <1>3 DEF OpenRow, Open
<1>7. CASE m_eff[o] = {}
  <2>1. MintedFor[o] = 0
    BY <1>3, <1>7 DEF MintedFor
  <2> QED
    BY <1>5, <1>6, <1>7, <2>1
<1>8. CASE m_eff[o] # {}
  <2>1. a > 0
    BY <1>2, <1>8 DEF Backing
  <2>2. /\ Money!OneBipFee(a) \in Int /\ Money!Net(a) \in Int /\ Money!PushValue(a) \in Int
        /\ Money!OneBipFee(a) >= 0
        /\ Money!Net(a) + Money!OneBipFee(a) = a
        /\ Money!PushValue(a) <= Money!Net(a)
    BY <1>1, <2>1, FeeSplits
  <2>3. CASE m_kind[o] = "onramp"
    <3>1. m_eff[o] \subseteq {"mint", "remit"} /\ "mint" \in m_eff[o]
      BY <1>2, <1>8, <2>3 DEF EffectOrder
    <3>2. MintedFor[o] = a
      BY <1>2, <1>3, <2>3, <3>1 DEF MintedFor, Backing, ClearedOf
    <3>3. /\ Row("mint", Money!Nets)[o] = Money!Net(a)
          /\ Row("remit", Fees)[o] \in {0, Money!OneBipFee(a)}
      BY <1>1, <1>5, <3>1
    <3>4. /\ Row("refund", Money!Wired)[o] = 0 /\ OpenRow[o] = 0
          /\ Row("push", Pushes)[o] = 0 /\ Row("release", m_amount)[o] = 0
          /\ Row("burn", m_amount)[o] = 0 /\ Row("lock", Money!Wired)[o] = 0
      BY <1>5, <1>6, <3>1
    <3> QED
      BY <1>1, <2>2, <3>2, <3>3, <3>4
  <2>4. CASE m_kind[o] = "offramp"
    <3>1. /\ m_eff[o] \subseteq {"burn", "push", "flag", "remit"}
          /\ "push" \in m_eff[o] => "burn" \in m_eff[o]
          /\ "remit" \in m_eff[o] => "push" \in m_eff[o]
      BY <1>2, <2>4 DEF EffectOrder
    <3>2. /\ Row("mint", Money!Nets)[o] = 0 /\ Row("refund", Money!Wired)[o] = 0
          /\ OpenRow[o] = 0 /\ Row("release", m_amount)[o] = 0
          /\ Row("lock", Money!Wired)[o] = 0 /\ MintedFor[o] = 0
      BY <1>3, <1>5, <1>6, <3>1 DEF MintedFor
    <3>3. Row("remit", Fees)[o] + Row("push", Pushes)[o] <= Row("burn", m_amount)[o]
      BY <1>1, <1>5, <2>1, <2>2, <3>1
    <3>4. /\ Row("remit", Fees)[o] \in Int /\ Row("push", Pushes)[o] \in Int
          /\ Row("burn", m_amount)[o] \in Int
      BY <1>1, <1>5, <2>2
    <3> QED
      BY <3>2, <3>3, <3>4
  <2>5. CASE m_kind[o] = "wire"
    <3>1. /\ m_eff[o] \subseteq {"lock", "release", "refund"}
          /\ "release" \in m_eff[o] \/ "refund" \in m_eff[o] => "lock" \in m_eff[o]
      BY <1>2, <2>5 DEF EffectOrder
    <3>2. /\ Row("mint", Money!Nets)[o] = 0 /\ Row("remit", Fees)[o] = 0
          /\ Row("push", Pushes)[o] = 0 /\ Row("burn", m_amount)[o] = 0 /\ MintedFor[o] = 0
      BY <1>3, <1>5, <3>1 DEF MintedFor
    <3>3. Row("refund", Money!Wired)[o] + OpenRow[o] + Row("release", m_amount)[o]
            <= Row("lock", Money!Wired)[o]
      BY <1>1, <1>4, <1>5, <1>6, <2>1, <3>1
    <3>4. /\ Row("refund", Money!Wired)[o] \in Int /\ OpenRow[o] \in Int
          /\ Row("release", m_amount)[o] \in Int /\ Row("lock", Money!Wired)[o] \in Int
      BY <1>1, <1>5, <1>6
    <3> QED
      BY <3>2, <3>3, <3>4
  <2> QED
    BY <1>2, <1>8, <2>3, <2>4, <2>5 DEF Money!Kind, EffectOrder
<1> QED
  BY <1>7, <1>8

(***************************************************************************)
(* Every mint has cleared funds of its own when no reference serves twice. *)
(***************************************************************************)
LEMMA MintsCleared ==
  ASSUME BackingInv, Money!RefUsedOnce
  PROVE  MintedFor \in [Job -> Int] /\ Sum(MintedFor, Job) <= Sum(ClearedOf, Ref)
<1> DEFINE M == Money!Had("mint")
           g == [o \in M |-> ClearedOf[m_ref[o]]]
<1>1. IsFiniteSet(Job) /\ IsFiniteSet(Ref) /\ ClearedOf \in [Ref -> Nat]
  BY BookTypes
<1>2. M \in SUBSET Job /\ IsFiniteSet(M)
  BY <1>1, FS_Subset DEF Money!Had
<1>3. \A o \in M : m_ref[o] \in Ref
  <2> TAKE o \in M
  <2>1. EffectOrder(o) /\ Backing(o) /\ m_kind[o] \in Money!Kind \cup {None} /\ "mint" \in m_eff[o]
    BY <1>2 DEF BackingInv, MoneyInv, MoneyType, Money!Had
  <2>2. m_kind[o] = "onramp"
    BY <2>1 DEF EffectOrder, Money!Kind
  <2> QED
    BY <2>1, <2>2 DEF Backing
<1>4. \A o, p \in M : m_ref[o] = m_ref[p] => o = p
  BY DEF Money!RefUsedOnce
<1>5. Sum(g, M) <= Sum(ClearedOf, Ref)
  <2> HIDE DEF M
  <2> QED
    BY <1>1, <1>2, <1>3, <1>4, SumReindex
<1>6. \A o \in M : g[o] \in Int /\ g[o] = ClearedOf[m_ref[o]]
  BY <1>1, <1>3
<1>7. MintedFor = [o \in Job |-> IF o \in M THEN g[o] ELSE 0]
  BY DEF MintedFor
<1>8. Sum(g, M) = Sum([o \in Job |-> IF o \in M THEN g[o] ELSE 0], Job)
  <2> HIDE DEF M, g
  <2> QED
    BY <1>1, <1>2, <1>6, SumRestrict
<1>9. MintedFor \in [Job -> Int]
  BY <1>6, <1>7
<1> QED
  BY <1>5, <1>7, <1>8, <1>9

(* Operation by operation backing adds up to sound books. *)
LEMMA BackingImplies == BackingInv => Money!BooksSound
<1> SUFFICES ASSUME BackingInv, Money!RefUsedOnce,
                    Money!Had("release") \cap Money!Had("refund") = {}
             PROVE  Money!Owed <= Money!Reserve
  BY MoneyInvImplies DEF BackingInv, Money!BooksSound, Money!Backed
<1>1. /\ IsFiniteSet(Job) /\ IsFiniteSet(Ref) /\ ClearedOf \in [Ref -> Nat]
      /\ m_amount \in [Job -> Int] /\ Money!Nets \in [Job -> Int]
      /\ Money!Wired \in [Job -> Int] /\ Fees \in [Job -> Int] /\ Pushes \in [Job -> Int]
  BY BookTypes
<1>2. MintedFor \in [Job -> Int] /\ Sum(MintedFor, Job) <= Sum(ClearedOf, Ref)
  BY MintsCleared
<1>3. OpenRow \in [Job -> Int] /\ Sum(Money!Wired, Open) = Sum(OpenRow, Job)
  <2>1. Open \in SUBSET Job
    BY DEF Open, Money!Had
  <2>2. Sum(Money!Wired, Open) = Sum([o \in Job |-> IF o \in Open THEN Money!Wired[o] ELSE 0], Job)
    BY <1>1, <2>1, SumRestrict
  <2> QED
    BY <1>1, <2>2 DEF OpenRow
<1>4. \A e : \A f \in [Job -> Int] :
        Row(e, f) \in [Job -> Int] /\ Sum(f, Money!Had(e)) = Sum(Row(e, f), Job)
  BY RowSum
<1>5. Sum(Row("mint", Money!Nets), Job) + Sum(Row("refund", Money!Wired), Job)
        + Sum(Row("remit", Fees), Job) + Sum(OpenRow, Job)
        + Sum(Row("push", Pushes), Job) + Sum(Row("release", m_amount), Job)
      <= Sum(MintedFor, Job) + Sum(Row("burn", m_amount), Job)
           + Sum(Row("lock", Money!Wired), Job)
  <2> DEFINE a == Row("mint", Money!Nets)
             b == Row("refund", Money!Wired)
             c == Row("remit", Fees)
             d == OpenRow
             e == Row("push", Pushes)
             f == Row("release", m_amount)
             x == MintedFor
             y == Row("burn", m_amount)
             z == Row("lock", Money!Wired)
  <2>1. /\ a \in [Job -> Int] /\ b \in [Job -> Int] /\ c \in [Job -> Int]
        /\ d \in [Job -> Int] /\ e \in [Job -> Int] /\ f \in [Job -> Int]
        /\ x \in [Job -> Int] /\ y \in [Job -> Int] /\ z \in [Job -> Int]
    BY <1>1, <1>2, <1>3, <1>4
  <2>2. \A o \in Job : a[o] + b[o] + c[o] + d[o] + e[o] + f[o] <= x[o] + y[o] + z[o]
    BY RowCovered
  <2> HIDE DEF a, b, c, d, e, f, x, y, z
  <2>3. Sum(a, Job) + Sum(b, Job) + Sum(c, Job) + Sum(d, Job) + Sum(e, Job) + Sum(f, Job)
          <= Sum(x, Job) + Sum(y, Job) + Sum(z, Job)
    BY <1>1, <2>1, <2>2, SumCovered
  <2> QED
    BY <2>3 DEF a, b, c, d, e, f, x, y, z
<1>6. \A f \in [Job -> Int] : Sum(f, Job) \in Int
  BY <1>1, SumInt
<1>7. Sum(ClearedOf, Ref) \in Int
  BY <1>1, SumInt
<1>8. /\ Money!Owed = Sum(Row("mint", Money!Nets), Job) - Sum(Row("burn", m_amount), Job)
           - Sum(Row("lock", Money!Wired), Job) + Sum(Row("refund", Money!Wired), Job)
           + Sum(Row("remit", Fees), Job) + Sum(OpenRow, Job)
      /\ Money!Reserve = Sum(ClearedOf, Ref) - Sum(Row("push", Pushes), Job)
           - Sum(Row("release", m_amount), Job)
  BY <1>1, <1>3, <1>4, MoneySum
  DEF Money!Owed, Money!Circulating, Money!Reserve, Fees, Pushes, ClearedOf, Open
<1> QED
  BY <1>1, <1>2, <1>3, <1>4, <1>5, <1>6, <1>7, <1>8

(***************************************************************************)
(* The bank never owes more than it holds, for any operations, amounts,    *)
(* fees and cent size, whichever calls fail, lose their reply or are cut   *)
(* short: provided no payment reference is confirmed twice and no wire is  *)
(* refunded after a release whose reply was lost (onramp.ts, offramp.ts,   *)
(* wire.ts).                                                               *)
(***************************************************************************)
THEOREM MoneyBacked == Money!Spec => []Money!BooksSound
BY BackingInit, BackingStep, BackingImplies, PTL DEF Money!Spec

(***************************************************************************)
(* The same, as the run of Books states it.                                *)
(***************************************************************************)
THEOREM BooksBacked == BooksSpec => []BooksSound
<1> DEFINE Inv == part = "money" => BackingInv
<1>1. BooksInit => Inv
  BY BackingInit DEF BooksInit
<1>2. Inv /\ [BooksNext]_all => Inv'
  BY PartStep, BackingStep
<1>3. Inv => BooksSound
  BY BackingImplies DEF BooksSound
<1> QED
  BY <1>1, <1>2, <1>3, PTL DEF BooksSpec


-----------------------------------------------------------------------------
(* The USD ledger.                                                         *)

(***************************************************************************)
(* A snapshot adds up to the operations in its log, which c were called    *)
(* with (what Conserved says of memory and of the file).                   *)
(***************************************************************************)
Moved(s, c, a)  == Sum([o \in s.log |-> Usd!Delta(c[o])], {o \in s.log : c[o].acct = a})
PaidIn(k) == IF Usd!Adds(k.kind) THEN k.amt ELSE 0
Paid(s, c, a) == Sum([o \in s.log |-> PaidIn(c[o])], {o \in s.log : c[o].acct = a})
AddsUp(s, c) ==
  /\ \A o \in s.log : c[o] \in Usd!Call
  /\ s.ramps = {o \in s.log : Usd!Ramps(c[o].kind)}
  /\ \A a \in Acct : /\ s.bal[a] >= 0
                     /\ Paid(s, c, a) <= SafeMax + 1 => s.bal[a] = Moved(s, c, a)

(* The sum the ledger module uses is the one of Sums. *)
LEMMA UsdSum == \A f, S : Usd!Sum(f, S) = Sum(f, S)
BY DEF Usd!Sum, Usd!MapThenSumSet, Usd!MapThenFoldSet, Sum, MapThenSumSet, MapThenFoldSet

(* A set of positive numbers up to k has a largest one. *)
LEMMA LargestExists ==
  ASSUME NEW k \in Nat, NEW S \in SUBSET (1..k), S # {}
  PROVE  \E x \in S : \A y \in S : x >= y
<1> DEFINE P == {n \in Nat : \A T \in SUBSET (1..n) : T # {} => \E x \in T : \A y \in T : x >= y}
<1>1. 0 \in P
  <2>1. 1..0 = {}
    OBVIOUS
  <2> QED
    BY <2>1
<1>2. ASSUME NEW n \in P, NEW T \in SUBSET (1..(n + 1)), T # {}
      PROVE  \E x \in T : \A y \in T : x >= y
  <2>1. CASE n + 1 \in T
    BY <2>1
  <2>2. CASE n + 1 \notin T
    <3>1. T \in SUBSET (1..n)
      BY <2>2
    <3> QED
      BY <1>2, <3>1
  <2> QED
    BY <2>1, <2>2
<1>3. P \in SUBSET Nat /\ \A n \in P : n + 1 \in P
  BY <1>2
<1>4. P = Nat
  <2> HIDE DEF P
  <2> QED
    BY <1>1, <1>3, NatInduct
<1> QED
  BY <1>4

(* Rounding to a multiple of a gap gives a natural number. *)
LEMMA NearestNat ==
  ASSUME NEW n \in Nat, NEW g \in Nat \ {0}
  PROVE  Usd!Nearest(n, g) \in Nat
<1>1. n \div g \in Nat
  OBVIOUS
<1>2. PICK q \in Nat : q = n \div g
  BY <1>1
<1>3. q * g \in Nat /\ (q + 1) * g \in Nat
  OBVIOUS
<1> QED
  BY <1>2, <1>3 DEF Usd!Nearest

(* A sum held as a double is a natural number, the exact one up to 2^53. *)
LEMMA DoubleExact ==
  ASSUME NEW n \in Nat
  PROVE  Usd!Double(n) \in Nat /\ (n <= SafeMax + 1 => Usd!Double(n) = n)
<1>1. SafeMax \in Nat
  BY UsdAssumption DEF Usd!LedgerAssumption
<1>2. CASE n <= SafeMax + 1
  BY <1>2 DEF Usd!Double
<1>3. CASE n > SafeMax + 1
  <2> DEFINE S == {u \in 1..n : /\ \E k \in 0..n : u = 2^k
                                /\ u * (SafeMax + 1) < n}
  <2>1. 1 \in S
    <3>1. 1 = 2^0 /\ 0 \in 0..n /\ 1 \in 1..n
      BY <1>1, <1>3
    <3>2. 1 * (SafeMax + 1) < n
      BY <1>1, <1>3
    <3>3. \E k \in 0..n : 1 = 2^k
      BY <3>1
    <3> QED
      BY <3>1, <3>2, <3>3
  <2>2. S \in SUBSET (1..n) /\ S # {}
    BY <2>1
  <2>3. PICK x \in S : \A y \in S : x >= y
    <3> HIDE DEF S
    <3> QED
      BY <2>2, LargestExists
  <2>4. Usd!Max(S) \in S
    BY <2>3 DEF Usd!Max
  <2>5. Usd!Gap(n) = 2 * Usd!Max(S)
    BY DEF Usd!Gap
  <2>6. Usd!Gap(n) \in Nat \ {0}
    BY <2>4, <2>5
  <2> QED
    BY <1>1, <1>3, <2>6, NearestNat DEF Usd!Double
<1> QED
  BY <1>1, <1>2, <1>3

(* What a ledger call pays in is a natural number, and moves no more. *)
LEMMA PaidInNat == \A c \in Usd!Call : PaidIn(c) \in Nat /\ Usd!Delta(c) <= PaidIn(c)
<1>1. Amounts \subseteq Nat
  BY UsdAssumption DEF Usd!LedgerAssumption
<1> TAKE c \in Usd!Call
<1>2. c.amt \in Nat
  BY <1>1 DEF Usd!Call
<1> QED
  BY <1>2 DEF Usd!Delta, PaidIn

(* What a ledger call moves is an integer. *)
LEMMA DeltaInt == \A c \in Usd!Call : Usd!Delta(c) \in Int
<1>1. Amounts \subseteq Nat
  BY UsdAssumption DEF Usd!LedgerAssumption
<1> TAKE c \in Usd!Call
<1>2. c.amt \in Nat
  BY <1>1 DEF Usd!Call
<1>3. c.amt \in Int /\ -c.amt \in Int
  BY <1>2
<1> QED
  BY <1>3 DEF Usd!Delta

(* The log of a ledger snapshot, and every part of it, is finite. *)
LEMMA FiniteLog ==
  ASSUME NEW s \in Usd!Snapshot
  PROVE  IsFiniteSet(s.log) /\ \A T \in SUBSET s.log : IsFiniteSet(T)
<1>1. IsFiniteSet(Job)
  BY UsdAssumption DEF Usd!LedgerAssumption, Usd!IsFiniteSet, IsFiniteSet
<1>2. s.log \subseteq Job
  BY DEF Usd!Snapshot
<1> QED
  BY <1>1, <1>2, FS_Subset

(* The ledger of a first start adds up. *)
LEMMA EmptyAddsUp ==
  ASSUME NEW c
  PROVE  Usd!emptySnapshot \in Usd!Snapshot /\ AddsUp(Usd!emptySnapshot, c)
<1>1. /\ Usd!emptySnapshot.log = {} /\ Usd!emptySnapshot.ramps = {}
      /\ \A a \in Acct : Usd!emptySnapshot.bal[a] = 0
  BY DEF Usd!emptySnapshot
<1>2. ASSUME NEW a \in Acct PROVE Moved(Usd!emptySnapshot, c, a) = 0
  <2>1. {o \in Usd!emptySnapshot.log : c[o].acct = a} = {}
    BY <1>1
  <2> QED
    BY <2>1, SumEmpty DEF Moved
<1>3. Usd!emptySnapshot \in Usd!Snapshot
  BY DEF Usd!emptySnapshot, Usd!Snapshot
<1> QED
  BY <1>1, <1>2, <1>3 DEF AddsUp

(***************************************************************************)
(* New calls do not touch what a snapshot adds up to.                      *)
(***************************************************************************)
LEMMA AddsUpFrame ==
  ASSUME NEW s \in Usd!Snapshot, NEW c, NEW d, AddsUp(s, c), \A o \in s.log : d[o] = c[o]
  PROVE  AddsUp(s, d)
<1>1. ASSUME NEW a \in Acct PROVE Moved(s, d, a) = Moved(s, c, a) /\ Paid(s, d, a) = Paid(s, c, a)
  <2>1. /\ [o \in s.log |-> Usd!Delta(d[o])] = [o \in s.log |-> Usd!Delta(c[o])]
        /\ [o \in s.log |-> PaidIn(d[o])] = [o \in s.log |-> PaidIn(c[o])]
    OBVIOUS
  <2>2. {o \in s.log : d[o].acct = a} = {o \in s.log : c[o].acct = a}
    OBVIOUS
  <2> QED
    BY <2>1, <2>2 DEF Moved, Paid
<1>2. {o \in s.log : Usd!Ramps(d[o].kind)} = {o \in s.log : Usd!Ramps(c[o].kind)}
  OBVIOUS
<1>3. \A o \in s.log : d[o] \in Usd!Call
  BY DEF AddsUp
<1> QED
  BY <1>1, <1>2, <1>3 DEF AddsUp

(***************************************************************************)
(* The log of a snapshot moves no more than it pays in.                    *)
(***************************************************************************)
LEMMA PaidCovers ==
  ASSUME NEW s \in Usd!Snapshot, NEW c, \A p \in s.log : c[p] \in Usd!Call, NEW a \in Acct
  PROVE  /\ Paid(s, c, a) \in Int /\ Moved(s, c, a) \in Int
         /\ Moved(s, c, a) <= Paid(s, c, a)
<1> DEFINE f == [p \in s.log |-> Usd!Delta(c[p])]
           h == [p \in s.log |-> PaidIn(c[p])]
           S == {p \in s.log : c[p].acct = a}
<1>1. IsFiniteSet(S)
  BY FiniteLog
<1>2. \A p \in S : f[p] \in Int /\ h[p] \in Int /\ f[p] <= h[p]
  BY DeltaInt, PaidInNat
<1>3. Moved(s, c, a) = Sum(f, S) /\ Paid(s, c, a) = Sum(h, S)
  BY DEF Moved, Paid
<1> HIDE DEF f, h, S
<1> QED
  BY <1>1, <1>2, <1>3, SumMonotone, SumInt

(***************************************************************************)
(* One more operation in the log: what is paid in and moved, per account.  *)
(***************************************************************************)
LEMMA LogGrows ==
  ASSUME NEW s \in Usd!Snapshot, NEW t \in Usd!Snapshot, NEW c,
         NEW o \in Job, o \notin s.log, t.log = s.log \cup {o},
         \A p \in t.log : c[p] \in Usd!Call, NEW a \in Acct
  PROVE  /\ Paid(s, c, a) \in Int /\ Moved(s, c, a) \in Int
         /\ Moved(s, c, a) <= Paid(s, c, a)
         /\ Paid(s, c, a) <= Paid(t, c, a)
         /\ c[o].acct = a => /\ Moved(t, c, a) = Usd!Delta(c[o]) + Moved(s, c, a)
                             /\ Paid(t, c, a) = PaidIn(c[o]) + Paid(s, c, a)
         /\ c[o].acct # a => Moved(t, c, a) = Moved(s, c, a) /\ Paid(t, c, a) = Paid(s, c, a)
<1> DEFINE f == [p \in s.log |-> Usd!Delta(c[p])]
           g == [p \in t.log |-> Usd!Delta(c[p])]
           h == [p \in s.log |-> PaidIn(c[p])]
           k == [p \in t.log |-> PaidIn(c[p])]
           S == {p \in s.log : c[p].acct = a}
<1>1. S \in SUBSET s.log /\ IsFiniteSet(S) /\ o \notin S
  BY FiniteLog
<1>2. \A p \in S : /\ f[p] \in Int /\ f[p] = g[p] /\ h[p] \in Int /\ h[p] = k[p]
                   /\ f[p] <= h[p]
  BY DeltaInt, PaidInNat
<1>3. /\ g[o] = Usd!Delta(c[o]) /\ g[o] \in Int /\ k[o] = PaidIn(c[o]) /\ k[o] \in Nat
  BY DeltaInt, PaidInNat
<1>4. Moved(s, c, a) = Sum(f, S) /\ Paid(s, c, a) = Sum(h, S)
  BY DEF Moved, Paid
<1>5. /\ c[o].acct = a => Moved(t, c, a) = Sum(g, S \cup {o}) /\ Paid(t, c, a) = Sum(k, S \cup {o})
      /\ c[o].acct # a => Moved(t, c, a) = Sum(g, S) /\ Paid(t, c, a) = Sum(k, S)
  <2>1. {p \in t.log : c[p].acct = a} = IF c[o].acct = a THEN S \cup {o} ELSE S
    OBVIOUS
  <2> QED
    BY <2>1 DEF Moved, Paid
<1>6. ASSUME NEW p \in S \cup {o} PROVE g[p] \in Int /\ k[p] \in Int
  <2> HIDE DEF f, g, h, k, S
  <2>1. CASE p \in S
    BY <1>2, <2>1
  <2>2. CASE p = o
    BY <1>3, <2>2
  <2> QED
    BY <2>1, <2>2
<1> HIDE DEF f, g, h, k, S
<1>7. Sum(g, S) = Sum(f, S) /\ Sum(k, S) = Sum(h, S)
  BY <1>1, <1>2, SumSame
<1>8. Sum(f, S) <= Sum(h, S)
  BY <1>1, <1>2, SumMonotone
<1>9. Sum(f, S) \in Int /\ Sum(h, S) \in Int
  BY <1>1, <1>2, SumInt
<1>10. Sum(g, S \cup {o}) = g[o] + Sum(g, S) /\ Sum(k, S \cup {o}) = k[o] + Sum(k, S)
  BY <1>1, <1>6, SumAdd
<1> QED
  BY <1>3, <1>4, <1>5, <1>7, <1>8, <1>9, <1>10

(***************************************************************************)
(* credit, debit and recordRamp keep the sums, and overdraw nothing.       *)
(***************************************************************************)
LEMMA MutateAddsUp ==
  ASSUME NEW s \in Usd!Snapshot, NEW c, AddsUp(s, c),
         NEW o \in Job, o \notin s.log, c[o] \in Usd!Call,
         Usd!Takes(c[o].kind) => s.bal[c[o].acct] >= c[o].amt,
         NEW t \in Usd!Snapshot,
         t.log = s.log \cup {o},
         t.ramps = IF Usd!Ramps(c[o].kind) THEN s.ramps \cup {o} ELSE s.ramps,
         t.bal = [s.bal EXCEPT ![c[o].acct] = Usd!Double(@ + Usd!Delta(c[o]))]
  PROVE  AddsUp(t, c)
<1>1. \A p \in t.log : c[p] \in Usd!Call
  BY DEF AddsUp
<1>2. t.ramps = {p \in t.log : Usd!Ramps(c[p].kind)}
  BY DEF AddsUp
<1>3. s.bal \in [Acct -> Int] /\ c[o].acct \in Acct
  BY DEF Usd!Snapshot, Usd!Call
<1>4. ASSUME NEW a \in Acct
      PROVE  t.bal[a] >= 0 /\ (Paid(t, c, a) <= SafeMax + 1 => t.bal[a] = Moved(t, c, a))
  <2>1. s.bal[a] \in Nat /\ (Paid(s, c, a) <= SafeMax + 1 => s.bal[a] = Moved(s, c, a))
    BY <1>3 DEF AddsUp
  <2>2. /\ Paid(s, c, a) \in Int /\ Moved(s, c, a) \in Int
        /\ Moved(s, c, a) <= Paid(s, c, a)
        /\ Paid(s, c, a) <= Paid(t, c, a)
        /\ c[o].acct = a => /\ Moved(t, c, a) = Usd!Delta(c[o]) + Moved(s, c, a)
                            /\ Paid(t, c, a) = PaidIn(c[o]) + Paid(s, c, a)
        /\ c[o].acct # a => Moved(t, c, a) = Moved(s, c, a) /\ Paid(t, c, a) = Paid(s, c, a)
    BY <1>1, LogGrows
  <2>3. SafeMax \in Nat /\ Usd!Delta(c[o]) \in Int /\ PaidIn(c[o]) \in Nat
        /\ Usd!Delta(c[o]) <= PaidIn(c[o])
    BY DeltaInt, PaidInNat, UsdAssumption DEF Usd!LedgerAssumption
  <2>4. CASE c[o].acct = a
    <3>1. PICK n : n = s.bal[a] + Usd!Delta(c[o])
      OBVIOUS
    <3>2. n \in Nat
      <4>1. c[o].amt \in Nat
        BY UsdAssumption DEF Usd!LedgerAssumption, Usd!Call
      <4> QED
        BY <2>1, <2>4, <3>1, <4>1 DEF Usd!Delta, Usd!Takes, Usd!Adds
    <3>3. t.bal[a] = Usd!Double(n)
      BY <1>3, <2>4, <3>1
    <3>4. t.bal[a] \in Nat /\ (n <= SafeMax + 1 => t.bal[a] = n)
      BY <3>2, <3>3, DoubleExact
    <3> QED
      BY <2>1, <2>2, <2>3, <2>4, <3>1, <3>2, <3>4
  <2>5. CASE c[o].acct # a
    <3>1. t.bal[a] = s.bal[a]
      BY <1>3, <2>5
    <3> QED
      BY <2>1, <2>2, <2>3, <2>5, <3>1
  <2> QED
    BY <2>4, <2>5
<1> QED
  BY <1>1, <1>2, <1>4 DEF AddsUp


LedgerType ==
  /\ u_phase \in {"closed", "open", "corrupt"}
  /\ u_mem \in Usd!Snapshot
  /\ u_disk \in Usd!Snapshot \cup {None}
  /\ u_queue \in Seq(Job)
  /\ u_step \in {"ready", "persist"}
  /\ u_call \in [Job -> Usd!Call \cup {None}]
  /\ u_res \in [Job -> Usd!Outcome]

(***************************************************************************)
(* An operation waits once, unanswered; only the head may be in memory     *)
(* already, while it awaits its write.                                     *)
(***************************************************************************)
QueueInv ==
  /\ u_phase # "open" => u_queue = <<>> /\ u_step = "ready"
  /\ u_step = "persist" => u_queue # <<>> /\ Head(u_queue) \in u_mem.log
  /\ \A i \in 1..Len(u_queue) :
       /\ u_call[u_queue[i]] # None /\ u_res[u_queue[i]] = "none"
       /\ u_queue[i] \in u_mem.log => i = 1 /\ u_step = "persist"
       /\ \A j \in 1..Len(u_queue) : u_queue[i] = u_queue[j] => i = j
  /\ \A o \in Job : u_call[o] = None => u_res[o] = "none"

(***************************************************************************)
(* Memory and file add up; an open ledger has a file, of which memory is   *)
(* ahead; the file keeps what was acknowledged, neither what was refused.  *)
(***************************************************************************)
SnapshotInv ==
  /\ AddsUp(u_mem, u_call)
  /\ u_disk # None => AddsUp(u_disk, u_call)
  /\ u_phase = "open" => u_disk # None /\ u_disk.log \subseteq u_mem.log
  /\ u_phase = "corrupt" => u_disk # None /\ \E a \in Acct : u_disk.bal[a] \notin 0..SafeMax
  /\ \A o \in Job : u_res[o] = "ok" /\ u_call[o].kind # "balance" =>
       u_disk # None /\ o \in u_disk.log
  /\ \A o \in Job : u_res[o] \in {"insufficient", "range_error"} =>
       o \notin u_mem.log /\ (u_disk # None => o \notin u_disk.log)

LedgerInv == LedgerType /\ QueueInv /\ SnapshotInv

(* The ledger starts in the invariant. *)
LEMMA LedgerInit == Usd!Init => LedgerInv
<1> SUFFICES ASSUME Usd!Init PROVE LedgerInv
  OBVIOUS
<1>1. u_mem \in Usd!Snapshot /\ AddsUp(u_mem, u_call)
  BY EmptyAddsUp DEF Usd!Init
<1> QED
  BY <1>1 DEF Usd!Init, LedgerInv, LedgerType, QueueInv, SnapshotInv, Usd!Outcome

(* What is in a log that adds up was called. *)
LEMMA LogsCalled ==
  ASSUME LedgerInv, NEW s \in Usd!Snapshot, AddsUp(s, u_call), NEW o \in s.log
  PROVE  u_call[o] # None
BY UsdAssumption DEF Usd!LedgerAssumption, AddsUp

(* Opening the ledger from its file keeps the invariant. *)
LEMMA OpenStep == LedgerInv /\ Usd!Open => LedgerInv'
<1> SUFFICES ASSUME LedgerInv, Usd!Open PROVE LedgerInv'
  OBVIOUS
<1> USE DEF LedgerInv, LedgerType, QueueInv, SnapshotInv, Usd!Open
<1>1. u_queue = <<>>
  OBVIOUS
<1>2. /\ Usd!emptySnapshot \in Usd!Snapshot /\ AddsUp(Usd!emptySnapshot, u_call)
      /\ Usd!emptySnapshot.log = {} /\ Usd!emptySnapshot # None
  BY EmptyAddsUp, UsdAssumption DEF Usd!emptySnapshot, Usd!LedgerAssumption
<1>3. CASE u_disk = None
  BY <1>1, <1>2, <1>3
<1>4. CASE u_disk # None
  BY <1>1, <1>4 DEF Usd!ValidSnapshot
<1> QED
  BY <1>3, <1>4

(* Queueing a call behind the mutex keeps the invariant. *)
LEMMA EnqueueStep ==
  ASSUME LedgerInv, NEW o \in Job, NEW c \in Usd!Call, Usd!Enqueue(o, c)
  PROVE  LedgerInv'
<1> USE DEF LedgerInv, LedgerType, Usd!Enqueue
<1>1. /\ UNCHANGED <<u_phase, u_mem, u_disk, u_step, u_res>> /\ u_phase = "open"
      /\ u_call[o] = None /\ c # None
      /\ u_call' = [u_call EXCEPT ![o] = c] /\ u_queue' = Append(u_queue, o)
  BY UsdAssumption DEF Usd!LedgerAssumption
<1>2. LedgerType'
  BY <1>1
<1>3. o \notin u_mem.log /\ (u_disk # None => o \notin u_disk.log)
  BY <1>1, LogsCalled DEF SnapshotInv
<1>4. QueueInv'
  <2>1. /\ Len(u_queue') = Len(u_queue) + 1 /\ u_queue'[Len(u_queue) + 1] = o
        /\ \A i \in 1..Len(u_queue) : u_queue'[i] = u_queue[i] /\ u_queue[i] \in Job
        /\ Len(u_queue) \in Nat
    BY <1>1
  <2>2. \A i \in 1..Len(u_queue) : u_queue[i] # o
    BY <1>1 DEF QueueInv
  <2>3. u_queue # <<>> => Head(u_queue') = Head(u_queue)
    BY <1>1
  <2>4. u_res[o] = "none"
    BY <1>1 DEF QueueInv
  <2>5. u_step' = "persist" => u_queue' # <<>> /\ Head(u_queue') \in u_mem'.log
    BY <1>1, <2>1, <2>3 DEF QueueInv
  <2>6. ASSUME NEW i \in 1..Len(u_queue')
        PROVE  /\ u_call'[u_queue'[i]] # None /\ u_res'[u_queue'[i]] = "none"
               /\ u_queue'[i] \in u_mem'.log => i = 1 /\ u_step' = "persist"
               /\ \A j \in 1..Len(u_queue') : u_queue'[i] = u_queue'[j] => i = j
    BY <1>1, <1>3, <2>1, <2>2, <2>4 DEF QueueInv
  <2> QED
    BY <1>1, <2>5, <2>6 DEF QueueInv
<1>5. SnapshotInv'
  <2>0. \A s \in Usd!Snapshot : \A p \in s.log : p # o => u_call'[p] = u_call[p]
    BY <1>1 DEF Usd!Snapshot
  <2>1. AddsUp(u_mem, u_call')
    <3>1. AddsUp(u_mem, u_call) /\ \A p \in u_mem.log : u_call'[p] = u_call[p]
      BY <1>3, <2>0 DEF SnapshotInv
    <3> QED
      BY <3>1, AddsUpFrame
  <2>2. ASSUME u_disk # None PROVE AddsUp(u_disk, u_call')
    <3>1. AddsUp(u_disk, u_call) /\ \A p \in u_disk.log : u_call'[p] = u_call[p]
      BY <1>3, <2>0, <2>2 DEF SnapshotInv
    <3> QED
      BY <2>2, <3>1, AddsUpFrame
  <2>3. \A p \in Job : u_res[p] = "ok" => u_call'[p] = u_call[p]
    BY <1>1 DEF QueueInv
  <2> QED
    BY <1>1, <2>1, <2>2, <2>3 DEF SnapshotInv
<1> QED
  BY <1>2, <1>4, <1>5

(***************************************************************************)
(* The head of the queue is answered.                                      *)
(***************************************************************************)
LEMMA AnswerKeepsQueue ==
  ASSUME LedgerInv, NEW r \in Usd!Outcome, u_queue # <<>>, u_phase = "open",
         Usd!Answer(Head(u_queue), r),
         UNCHANGED <<u_phase, u_mem, u_call>>
  PROVE  /\ u_queue' \in Seq(Job) /\ u_res' \in [Job -> Usd!Outcome] /\ u_step' = "ready"
         /\ QueueInv'
         /\ Head(u_queue) \in Job /\ u_call[Head(u_queue)] \in Usd!Call
         /\ u_res' = [u_res EXCEPT ![Head(u_queue)] = r]
<1> USE DEF LedgerInv, LedgerType, Usd!Answer
<1>1. /\ Head(u_queue) = u_queue[1] /\ 1 \in 1..Len(u_queue) /\ u_queue[1] \in Job
      /\ u_queue' = Tail(u_queue) /\ u_queue' \in Seq(Job)
      /\ Len(u_queue') = Len(u_queue) - 1
      /\ \A i \in 1..Len(u_queue') :
           u_queue'[i] = u_queue[i + 1] /\ i + 1 \in 1..Len(u_queue) /\ i + 1 # 1
  OBVIOUS
<1>2. u_call[u_queue[1]] # None /\ u_call[u_queue[1]] \in Usd!Call
  BY <1>1 DEF QueueInv
<1>3. u_res' = [u_res EXCEPT ![u_queue[1]] = r]
  BY <1>1
<1>4. ASSUME NEW i \in 1..Len(u_queue')
      PROVE  /\ u_call'[u_queue'[i]] # None /\ u_res'[u_queue'[i]] = "none"
             /\ u_queue'[i] \notin u_mem'.log
             /\ \A j \in 1..Len(u_queue') : u_queue'[i] = u_queue'[j] => i = j
  <2>1. /\ u_call[u_queue[i + 1]] # None /\ u_res[u_queue[i + 1]] = "none"
        /\ u_queue[i + 1] \notin u_mem.log
        /\ \A j \in 1..Len(u_queue) : u_queue[i + 1] = u_queue[j] => i + 1 = j
    BY <1>1 DEF QueueInv
  <2>2. u_queue[i + 1] # u_queue[1]
    BY <1>1, <2>1
  <2> QED
    BY <1>1, <1>3, <2>1, <2>2
<1>5. QueueInv'
  BY <1>1, <1>2, <1>3, <1>4 DEF QueueInv
<1> QED
  BY <1>1, <1>2, <1>3, <1>5

(* Reading a balance keeps the invariant. *)
LEMMA GetBalanceStep ==
  ASSUME LedgerInv, NEW o \in Job, Usd!GetBalance(o)
  PROVE  LedgerInv'
<1>1. /\ u_queue # <<>> /\ o = Head(u_queue) /\ u_phase = "open"
      /\ UNCHANGED <<u_phase, u_mem, u_disk, u_call>>
      /\ Usd!Answer(Head(u_queue), "ok") /\ u_call[o].kind = "balance" /\ "ok" \in Usd!Outcome
  BY DEF Usd!GetBalance, Usd!Running, Usd!Outcome
<1>2. /\ u_queue' \in Seq(Job) /\ u_res' \in [Job -> Usd!Outcome] /\ u_step' = "ready"
      /\ QueueInv' /\ u_res' = [u_res EXCEPT ![o] = "ok"]
  BY <1>1, AnswerKeepsQueue
<1> QED
  BY <1>1, <1>2 DEF LedgerInv, LedgerType, SnapshotInv

(* Refusing an amount (out of range, not covered) keeps the invariant. *)
LEMMA RefuseStep ==
  ASSUME LedgerInv, NEW o \in Job, Usd!Refuse(o)
  PROVE  LedgerInv'
<1>1. /\ u_queue # <<>> /\ o = Head(u_queue) /\ u_phase = "open" /\ u_step = "ready"
      /\ UNCHANGED <<u_phase, u_mem, u_disk, u_call>>
  BY DEF Usd!Refuse, Usd!Running
<1>2. PICK r \in {"range_error", "insufficient"} : Usd!Answer(Head(u_queue), r)
  BY <1>1 DEF Usd!Refuse
<1>3. /\ u_queue' \in Seq(Job) /\ u_res' \in [Job -> Usd!Outcome] /\ u_step' = "ready"
      /\ QueueInv' /\ u_res' = [u_res EXCEPT ![o] = r]
  BY <1>1, <1>2, AnswerKeepsQueue DEF Usd!Outcome
<1>4. o \notin u_mem.log /\ u_disk # None /\ o \notin u_disk.log
  <2>1. o = u_queue[1] /\ 1 \in 1..Len(u_queue)
    BY <1>1 DEF LedgerInv, LedgerType
  <2> QED
    BY <1>1, <2>1 DEF LedgerInv, QueueInv, SnapshotInv
<1> QED
  BY <1>1, <1>2, <1>3, <1>4 DEF LedgerInv, LedgerType, SnapshotInv

(* A credit, debit or ramp changes the balances and the log alike. *)
LEMMA MutateStep ==
  ASSUME LedgerInv, NEW o \in Job, Usd!Mutate(o)
  PROVE  LedgerInv'
<1> DEFINE c == u_call[o]
<1>1. /\ u_queue # <<>> /\ o = Head(u_queue) /\ u_phase = "open" /\ u_step = "ready"
      /\ UNCHANGED <<u_phase, u_disk, u_queue, u_call, u_res>> /\ u_step' = "persist"
      /\ Usd!Takes(c.kind) => u_mem.bal[c.acct] >= c.amt
      /\ u_mem' = [bal   |-> [u_mem.bal EXCEPT ![c.acct] = Usd!Double(@ + Usd!Delta(c))],
                   ramps |-> IF Usd!Ramps(c.kind) THEN u_mem.ramps \cup {o} ELSE u_mem.ramps,
                   log   |-> u_mem.log \cup {o}]
  BY DEF Usd!Mutate, Usd!Running
<1>2. o = u_queue[1] /\ 1 \in 1..Len(u_queue)
  BY <1>1 DEF LedgerInv, LedgerType
<1>3. o \notin u_mem.log /\ c \in Usd!Call /\ u_res[o] = "none"
  BY <1>1, <1>2 DEF LedgerInv, LedgerType, QueueInv
<1>4. u_mem' \in Usd!Snapshot
  <2>1. u_mem.bal \in [Acct -> Int] /\ u_mem.ramps \subseteq Job /\ u_mem.log \subseteq Job
    BY DEF LedgerInv, LedgerType, Usd!Snapshot
  <2>2. Usd!Delta(c) \in Int /\ c.acct \in Acct
    BY <1>3, DeltaInt DEF Usd!Call
  <2>3. Usd!Double(u_mem.bal[c.acct] + Usd!Delta(c)) \in Int
    <3>1. u_mem.bal[c.acct] >= 0 /\ c.amt \in Nat
      BY <1>3, <2>2, UsdAssumption DEF LedgerInv, SnapshotInv, AddsUp, Usd!LedgerAssumption, Usd!Call
    <3>2. u_mem.bal[c.acct] + Usd!Delta(c) \in Nat
      BY <1>1, <2>1, <2>2, <3>1 DEF Usd!Delta, Usd!Takes, Usd!Adds
    <3>3. PICK n \in Nat : n = u_mem.bal[c.acct] + Usd!Delta(c)
      BY <3>2
    <3> QED
      BY <3>3, DoubleExact
  <2>4. [u_mem.bal EXCEPT ![c.acct] = Usd!Double(@ + Usd!Delta(c))] \in [Acct -> Int]
    BY <2>1, <2>2, <2>3
  <2> QED
    BY <1>1, <2>1, <2>4 DEF Usd!Snapshot
<1>5. AddsUp(u_mem', u_call)
  <2>1. /\ u_mem'.log = u_mem.log \cup {o}
        /\ u_mem'.ramps = IF Usd!Ramps(c.kind) THEN u_mem.ramps \cup {o} ELSE u_mem.ramps
        /\ u_mem'.bal = [u_mem.bal EXCEPT ![c.acct] = Usd!Double(@ + Usd!Delta(c))]
    BY <1>1
  <2>2. u_mem \in Usd!Snapshot /\ AddsUp(u_mem, u_call)
    BY DEF LedgerInv, LedgerType, SnapshotInv
  <2> DEFINE s == u_mem
             t == u_mem'
  <2>3. /\ s \in Usd!Snapshot /\ AddsUp(s, u_call) /\ o \notin s.log /\ t \in Usd!Snapshot
        /\ u_call[o] \in Usd!Call
        /\ Usd!Takes(u_call[o].kind) => s.bal[u_call[o].acct] >= u_call[o].amt
        /\ t.log = s.log \cup {o}
        /\ t.ramps = IF Usd!Ramps(u_call[o].kind) THEN s.ramps \cup {o} ELSE s.ramps
        /\ t.bal = [s.bal EXCEPT ![u_call[o].acct] = Usd!Double(@ + Usd!Delta(u_call[o]))]
    BY <1>1, <1>3, <1>4, <2>1, <2>2
  <2> HIDE DEF s, t
  <2>4. AddsUp(t, u_call)
    BY <2>3, MutateAddsUp
  <2> QED
    BY <2>4 DEF t
<1>6. u_mem'.log = u_mem.log \cup {o}
  BY <1>1
<1>7. QueueInv'
  BY <1>1, <1>2, <1>6 DEF LedgerInv, QueueInv
<1>8. SnapshotInv'
  BY <1>1, <1>3, <1>5, <1>6 DEF LedgerInv, SnapshotInv
<1> QED
  BY <1>1, <1>4, <1>7, <1>8 DEF LedgerInv, LedgerType

(* Writing the file makes the snapshot on disk the one in memory. *)
LEMMA PersistStep == LedgerInv /\ Usd!Persist => LedgerInv'
<1> SUFFICES ASSUME LedgerInv, Usd!Persist PROVE LedgerInv'
  OBVIOUS
<1> DEFINE o == Head(u_queue)
<1>1. /\ u_queue # <<>> /\ u_phase = "open" /\ o \in u_mem.log
      /\ UNCHANGED <<u_phase, u_mem, u_call>>
  BY DEF Usd!Persist, LedgerInv, QueueInv
<1>2. PICK r \in {"ok", "io_error"} :
        /\ Usd!Answer(o, r)
        /\ (r = "ok" /\ u_disk' = u_mem) \/ (r = "io_error" /\ u_disk' = u_disk)
  <2>1. CASE u_disk' = u_mem /\ Usd!Answer(Head(u_queue), "ok")
    BY <2>1
  <2>2. CASE u_disk' = u_disk /\ Usd!Answer(Head(u_queue), "io_error")
    BY <2>2
  <2> QED
    BY <2>1, <2>2 DEF Usd!Persist
<1>3. /\ u_queue' \in Seq(Job) /\ u_res' \in [Job -> Usd!Outcome] /\ u_step' = "ready"
      /\ QueueInv' /\ u_res' = [u_res EXCEPT ![o] = r]
  BY <1>1, <1>2, AnswerKeepsQueue DEF Usd!Outcome
<1>4. u_mem \in Usd!Snapshot /\ u_mem # None
  BY UsdAssumption DEF LedgerInv, LedgerType, Usd!LedgerAssumption
<1>5. SnapshotInv'
  BY <1>1, <1>2, <1>3, <1>4 DEF LedgerInv, LedgerType, SnapshotInv
<1> QED
  BY <1>1, <1>2, <1>3, <1>4, <1>5 DEF LedgerInv, LedgerType

(* A crash falls back to a snapshot that adds up. *)
LEMMA UsdCrashStep == LedgerInv /\ Usd!Crash => LedgerInv'
<1> SUFFICES ASSUME LedgerInv, Usd!Crash PROVE LedgerInv'
  OBVIOUS
<1>1. /\ u_phase' = "closed" /\ u_mem' = Usd!emptySnapshot /\ u_queue' = <<>>
      /\ u_step' = "ready" /\ UNCHANGED <<u_disk, u_call>>
      /\ u_res' = [o \in Job |-> IF u_call[o] # None /\ u_res[o] = "none" THEN "lost" ELSE u_res[o]]
  BY DEF Usd!Crash
<1>2. /\ u_mem' \in Usd!Snapshot /\ AddsUp(u_mem', u_call) /\ u_mem'.log = {}
  BY <1>1, EmptyAddsUp DEF Usd!emptySnapshot
<1> QED
  BY <1>1, <1>2 DEF LedgerInv, LedgerType, QueueInv, SnapshotInv, Usd!Outcome

(* Every step of the mock USD ledger keeps the invariant. *)
LEMMA LedgerStep == LedgerInv /\ [Usd!Next]_Usd!vars => LedgerInv'
<1> SUFFICES ASSUME LedgerInv, [Usd!Next]_Usd!vars PROVE LedgerInv'
  OBVIOUS
<1>1. CASE UNCHANGED Usd!vars
  BY <1>1 DEF Usd!vars, LedgerInv, LedgerType, QueueInv, SnapshotInv
<1> QED
  BY <1>1, OpenStep, EnqueueStep, GetBalanceStep, RefuseStep, MutateStep, PersistStep,
     UsdCrashStep DEF Usd!Next

(* The invariant gives that the ledger is sound. *)
LEMMA LedgerImplies == LedgerInv => Usd!LedgerSound
<1> SUFFICES ASSUME LedgerInv PROVE Usd!LedgerSound
  OBVIOUS
<1>1. Usd!Conserved
  BY UsdSum DEF Usd!Conserved, Usd!Snapshots, Usd!Credited, LedgerInv, SnapshotInv, AddsUp,
     Moved, Paid, PaidIn
<1>2. Usd!AckDurable /\ Usd!RefusedNoEffect
  BY DEF Usd!AckDurable, Usd!RefusedNoEffect, Usd!Snapshots, LedgerInv, SnapshotInv
<1>3. \A s, a : Paid(s, u_call, a) = Usd!Credited(s, a)
  BY UsdSum DEF Usd!Credited, Paid, PaidIn
<1>4. Usd!Reopens
  <2> SUFFICES ASSUME u_phase = "corrupt" PROVE \E a \in Acct : Usd!Credited(u_disk, a) > SafeMax
    BY DEF Usd!Reopens
  <2>1. PICK a \in Acct : u_disk.bal[a] \notin 0..SafeMax
    BY DEF LedgerInv, SnapshotInv
  <2>2. u_disk \in Usd!Snapshot /\ AddsUp(u_disk, u_call) /\ SafeMax \in Nat
    BY UsdAssumption DEF LedgerInv, LedgerType, SnapshotInv, Usd!LedgerAssumption
  <2>3. u_disk.bal[a] \in Int /\ u_disk.bal[a] >= 0
        /\ (Paid(u_disk, u_call, a) <= SafeMax + 1 => u_disk.bal[a] = Moved(u_disk, u_call, a))
    BY <2>2 DEF AddsUp, Usd!Snapshot
  <2>4. Paid(u_disk, u_call, a) \in Int /\ Moved(u_disk, u_call, a) <= Paid(u_disk, u_call, a)
        /\ Moved(u_disk, u_call, a) \in Int
    BY <2>2, PaidCovers DEF AddsUp
  <2> QED
    BY <1>3, <2>1, <2>2, <2>3, <2>4
<1> QED
  BY <1>1, <1>2, <1>4 DEF Usd!LedgerSound

(***************************************************************************)
(* The USD ledger adds up in memory and in the file, the file holds what   *)
(* was acknowledged and nothing that was refused, through failed writes    *)
(* and crashes, for any accounts, amounts and calls (mock-usd-ledger.ts).  *)
(***************************************************************************)
THEOREM UsdLedgerSound == Usd!Spec => []Usd!LedgerSound
BY LedgerInit, LedgerStep, LedgerImplies, PTL DEF Usd!Spec

(***************************************************************************)
(* The same, as the run of Books states it.                                *)
(***************************************************************************)
THEOREM BooksLedgerSound == BooksSpec => []LedgerSound
<1> DEFINE Inv == part = "usd" => LedgerInv
<1>1. BooksInit => Inv
  BY LedgerInit DEF BooksInit
<1>2. Inv /\ [BooksNext]_all => Inv'
  BY PartStep, LedgerStep
<1>3. Inv => LedgerSound
  BY LedgerImplies DEF LedgerSound
<1> QED
  BY <1>1, <1>2, <1>3, PTL DEF BooksSpec


-----------------------------------------------------------------------------
(* Revocation beside issuance.                                             *)

\* The slots a revoke call can name.
BankSlot == {s \in Slot : s[1] \in {"bank", "bankMock"}}

(***************************************************************************)
(* Beside the revoke calls, the issuers take steps of their own only: the  *)
(* invariant of CredentialIssuer holds, and no step replaces the row of a  *)
(* bank slot, which is what lets a call trust the row it read before its   *)
(* chain transaction.                                                      *)
(***************************************************************************)
LEMMA RvIssuerStep ==
  ASSUME IInv, [RvNext]_allVars
  PROVE  [Next]_vars
<1>1. CASE UNCHANGED allVars
  BY <1>1 DEF allVars
<1>2. CASE CrashAll
  <2>1. CASE \E r \in Req : pc[r] \notin {"idle", "done"}
    BY <1>2, <2>1 DEF CrashAll, Next, Crash
  <2>2. CASE \A r \in Req : pc[r] \in {"idle", "done"}
    <3>1. pc' = pc /\ verdict' = verdict
      BY <1>2, <2>2 DEF CrashAll, IInv, TypeOK
    <3> QED
      BY <1>2, <3>1 DEF CrashAll, vars, askVars
  <2> QED
    BY <2>1, <2>2
<1>3. CASE \E v \in Rev : RevokeBankCredential(v) \/ RevokeBankFiatRampTest(v)
  BY <1>3 DEF RevokeBankCredential, RevokeBankFiatRampTest, RevokeLookup, RevokeSubmit,
       MarkRevoked
<1>4. CASE \/ \E r \in Req, i \in Issuer, k \in Key, c \in Card, f \in Flaw \cup {"none"} :
                Arrive(r, i, k, c, f)
           \/ \E r \in Req : Issue(r)
  BY <1>4 DEF Next
<1> QED
  BY <1>1, <1>2, <1>3, <1>4 DEF RvNext

(* A row of the bank slots, once written, is not replaced by the issuer. *)
LEMMA BankRowsStand ==
  ASSUME IInv, [Next]_vars, NEW s \in BankSlot, store[s] # None
  PROVE  store'[s] = store[s]
<1> USE DEF IInv, TypeOK
<1>1. CASE UNCHANGED vars
  BY <1>1 DEF vars
<1>2. CASE Crash
  BY <1>2 DEF Crash
<1>3. ASSUME NEW r \in Req, NEW i \in Issuer, NEW k \in Key, NEW c \in Card,
             NEW f \in Flaw \cup {"none"}, Arrive(r, i, k, c, f)
      PROVE  store'[s] = store[s]
  BY <1>3 DEF Arrive
<1>4. ASSUME NEW r \in Req, Issue(r)
      PROVE  store'[s] = store[s]
  <2>1. CASE Lookup(r) \/ Verify(r) \/ Pin(r) \/ Submit(r) \/ Reload(r)
    BY <2>1 DEF Lookup, Verify, Pin, Submit, Reload
  <2>2. CASE PutOrThrow(r) \/ PutIfAbsent(r)
    BY <2>2 DEF PutOrThrow, PutIfAbsent, BankSlot
  <2>3. CASE OverwriteOwn(r) /\ iss[r] = "civic"
    <3>1. slot[r] # s
      BY <2>3 DEF OverwriteOwn, Stages, BankSlot
    <3> QED
      BY <2>3, <3>1 DEF OverwriteOwn, BankSlot
  <2> QED
    BY <1>4, <2>1, <2>2, <2>3
    DEF Issue, WorldcoinIssue, SkillCertIssue, CivicIssue, KycTestIssue, BankMockIssue,
        BankIssue
<1> QED
  BY <1>1, <1>2, <1>3, <1>4 DEF Next

(***************************************************************************)
(* A call under way holds the credential its row still has; what it will   *)
(* revoke was not revoked by a call answered before it started.            *)
(***************************************************************************)
CallInv(v) ==
  /\ rvpc[v] = "idle" => v \notin revokeTxs /\ rvans[v] = "none"
  /\ rvpc[v] \in {"revoking", "marking"} =>
       /\ rvslot[v] \in BankSlot
       /\ store[rvslot[v]] # None
       /\ rvpda[v] = store[rvslot[v]]
  /\ rvpc[v] = "marking" => v \in revokeTxs
  /\ rvans[v] # "none" => rvpc[v] = "done"
  /\ rvans[v] \in {"revoked", "already_revoked"} =>
       rvslot[v] \in BankSlot /\ rowRevoked[rvslot[v]] # None
  /\ \A w \in rvbefore[v] : rvans[w] = "revoked"
  /\ rvpc[v] \in {"revoking", "marking"} \/ v \in revokeTxs =>
       \A w \in rvbefore[v] : rvslot[w] # rvslot[v]

RowInv(s) ==
  rowRevoked[s] # None =>
    /\ s \in BankSlot
    /\ rowRevoked[s] \in revokeTxs
    /\ store[s] # None
    /\ rvpda[rowRevoked[s]] = store[s]

RvInv ==
  /\ IInv
  /\ RvTypeOK
  /\ \A v \in Rev : CallInv(v)
  /\ \A s \in Slot : RowInv(s)

(* Revocation starts in its invariant. *)
LEMMA RvInitInv == RvInit => RvInv
<1> SUFFICES ASSUME RvInit PROVE RvInv
  OBVIOUS
<1>1. IInv
  BY InitInv DEF RvInit
<1>2. RvTypeOK
  BY DEF RvInit, RvTypeOK, RvAnswer
<1>3. \A v \in Rev : CallInv(v)
  BY DEF RvInit, CallInv
<1>4. \A s \in Slot : RowInv(s)
  BY DEF RvInit, RowInv
<1> QED
  BY <1>1, <1>2, <1>3, <1>4 DEF RvInv

(***************************************************************************)
(* The steps of the issuers leave the revoke calls and what they read.     *)
(***************************************************************************)
LEMMA RvIssueKeeps ==
  ASSUME RvInv, UNCHANGED rvVars,
         \A s \in BankSlot : store[s] # None => store'[s] = store[s]
  PROVE  RvTypeOK' /\ (\A v \in Rev : CallInv(v)') /\ (\A s \in Slot : RowInv(s)')
<1>1. RvTypeOK'
  BY DEF RvInv, RvTypeOK, rvVars
<1>2. \A v \in Rev : CallInv(v)'
  BY DEF RvInv, CallInv, rvVars
<1>3. \A s \in Slot : RowInv(s)'
  BY DEF RvInv, RowInv, rvVars
<1> QED
  BY <1>1, <1>2, <1>3

(* Looking a credential up for its revocation keeps the invariant. *)
LEMMA RevokeLookupKeeps ==
  ASSUME RvInv, NEW v \in Rev, NEW s \in BankSlot, RevokeLookup(v, s)
  PROVE  RvTypeOK' /\ (\A w \in Rev : CallInv(w)') /\ (\A q \in Slot : RowInv(q)')
<1> USE DEF RvInv, RvTypeOK
<1>0. /\ rvpc[v] = "idle" /\ v \notin revokeTxs /\ rvans[v] = "none"
      /\ rvslot' = [rvslot EXCEPT ![v] = s]
      /\ rvbefore' = [rvbefore EXCEPT ![v] = {w \in Rev : rvans[w] = "revoked"}]
      /\ UNCHANGED <<store, rowRevoked, revokeTxs>>
      /\ s \in Slot /\ store[s] \in Req \cup {None}
  BY DEF RevokeLookup, vars, BankSlot, CallInv, IInv, TypeOK
<1>1. \/ /\ store[s] = None
         /\ rvpc' = [rvpc EXCEPT ![v] = "done"] /\ rvans' = [rvans EXCEPT ![v] = "not_found"]
         /\ rvpda' = rvpda
      \/ /\ store[s] # None /\ rowRevoked[s] # None
         /\ rvpc' = [rvpc EXCEPT ![v] = "done"]
         /\ rvans' = [rvans EXCEPT ![v] = "already_revoked"]
         /\ rvpda' = rvpda
      \/ /\ store[s] # None /\ rowRevoked[s] = None
         /\ rvpc' = [rvpc EXCEPT ![v] = "revoking"] /\ rvans' = rvans
         /\ rvpda' = [rvpda EXCEPT ![v] = store[s]]
  BY DEF RevokeLookup, RvFinish
<1>2. RvTypeOK'
  BY <1>0, <1>1 DEF RvAnswer
<1>3. ASSUME NEW w \in Rev, w # v PROVE CallInv(w)'
  <2>1. /\ CallInv(w) /\ rvpc'[w] = rvpc[w] /\ rvslot'[w] = rvslot[w]
        /\ rvpda'[w] = rvpda[w] /\ rvans'[w] = rvans[w] /\ rvbefore'[w] = rvbefore[w]
    BY <1>0, <1>1, <1>3
  <2>2. \A x \in rvbefore[w] : x # v /\ x \in Rev /\ rvans'[x] = rvans[x] /\ rvslot'[x] = rvslot[x]
    BY <1>0, <1>1, <2>1 DEF CallInv
  <2> QED
    BY <1>0, <2>1, <2>2 DEF CallInv
<1>4. CallInv(v)'
  <2>1. rvbefore'[v] = {w \in Rev : rvans[w] = "revoked"} /\ rvslot'[v] = s
    BY <1>0
  <2>2. \A w \in rvbefore'[v] : w # v /\ rvans'[w] = "revoked" /\ rvslot'[w] = rvslot[w]
    BY <1>0, <1>1, <2>1
  <2>3. \A w \in rvbefore'[v] : rowRevoked[rvslot[w]] # None
    BY <2>1 DEF CallInv
  <2> QED
    BY <1>0, <1>1, <2>1, <2>2, <2>3 DEF CallInv
<1>5. \A q \in Slot : RowInv(q)'
  BY <1>0, <1>1 DEF RowInv
<1> QED
  BY <1>2, <1>3, <1>4, <1>5

(* The submission of a revocation, whatever comes of it, keeps the *)
(* invariant.                                                      *)
LEMMA RevokeSubmitKeeps ==
  ASSUME RvInv, NEW v \in Rev, RevokeSubmit(v)
  PROVE  RvTypeOK' /\ (\A w \in Rev : CallInv(w)') /\ (\A q \in Slot : RowInv(q)')
<1> USE DEF RvInv, RvTypeOK
<1>0. /\ rvpc[v] = "revoking" /\ rvans[v] = "none"
      /\ UNCHANGED <<store, rvslot, rvpda, rowRevoked, rvbefore>>
      /\ revokeTxs \subseteq revokeTxs' /\ revokeTxs' \subseteq revokeTxs \cup {v}
      /\ \/ /\ rvpc' = [rvpc EXCEPT ![v] = "marking"] /\ rvans' = rvans /\ v \in revokeTxs'
         \/ rvpc' = [rvpc EXCEPT ![v] = "done"] /\ rvans' = [rvans EXCEPT ![v] = "failed"]
  BY DEF RevokeSubmit, RvFinish, vars, CallInv
<1>1. RvTypeOK'
  BY <1>0 DEF RvAnswer
<1>2. ASSUME NEW w \in Rev PROVE CallInv(w)'
  <2>1. CallInv(w) /\ \A x \in rvbefore[w] : x # v /\ x \in Rev /\ rvans'[x] = rvans[x]
    BY <1>0 DEF CallInv
  <2>2. CASE w = v
    BY <1>0, <2>1, <2>2 DEF CallInv
  <2>3. CASE w # v
    BY <1>0, <2>1, <2>3 DEF CallInv
  <2> QED
    BY <2>2, <2>3
<1>3. \A q \in Slot : RowInv(q)'
  BY <1>0 DEF RowInv
<1> QED
  BY <1>1, <1>2, <1>3

(* Marking the row keeps the invariant: it comes after the submission. *)
LEMMA MarkRevokedKeeps ==
  ASSUME RvInv, NEW v \in Rev, MarkRevoked(v)
  PROVE  RvTypeOK' /\ (\A w \in Rev : CallInv(w)') /\ (\A q \in Slot : RowInv(q)')
<1> USE DEF RvInv, RvTypeOK
<1>0. /\ rvpc[v] = "marking" /\ rvans[v] = "none" /\ v \in revokeTxs /\ v # None
      /\ rvslot[v] \in BankSlot /\ rvslot[v] \in Slot
      /\ store[rvslot[v]] # None /\ rvpda[v] = store[rvslot[v]]
      /\ UNCHANGED <<store, rvslot, rvpda, revokeTxs, rvbefore>>
      /\ rvpc' = [rvpc EXCEPT ![v] = "done"]
      /\ \/ /\ rowRevoked' = [rowRevoked EXCEPT ![rvslot[v]] = IF @ = None THEN v ELSE @]
            /\ rvans' = [rvans EXCEPT ![v] = "revoked"]
         \/ rowRevoked' = rowRevoked /\ rvans' = [rvans EXCEPT ![v] = "failed"]
  BY RevAssumption DEF MarkRevoked, RvFinish, vars, CallInv, BankSlot
<1>1. RvTypeOK'
  BY <1>0 DEF RvAnswer
<1>2. \A q \in Slot : rowRevoked[q] # None => rowRevoked'[q] = rowRevoked[q]
  BY <1>0
<1>3. ASSUME NEW w \in Rev PROVE CallInv(w)'
  <2>1. CallInv(w) /\ \A x \in rvbefore[w] : x # v /\ x \in Rev /\ rvans'[x] = rvans[x]
    BY <1>0 DEF CallInv
  <2>2. CASE w = v
    BY <1>0, <2>1, <2>2 DEF CallInv
  <2>3. CASE w # v
    BY <1>0, <1>2, <2>1, <2>3 DEF CallInv, BankSlot
  <2> QED
    BY <2>2, <2>3
<1>4. \A q \in Slot : RowInv(q)'
  BY <1>0, <1>2 DEF RowInv
<1> QED
  BY <1>1, <1>3, <1>4

(* A crash keeps what the rows say; the calls it ends say nothing. *)
LEMMA CrashAllKeeps ==
  ASSUME RvInv, CrashAll
  PROVE  RvTypeOK' /\ (\A w \in Rev : CallInv(w)') /\ (\A q \in Slot : RowInv(q)')
<1> USE DEF RvInv, RvTypeOK
<1>0. /\ UNCHANGED <<store, rvslot, rvpda, rowRevoked, revokeTxs, rvbefore>>
      /\ rvpc' \in [Rev -> {"idle", "done"}] /\ rvans' \in [Rev -> RvAnswer]
      /\ \A v \in Rev :
           /\ rvpc'[v] = "idle" <=> rvpc[v] = "idle"
           /\ rvpc[v] \in {"idle", "done"} => rvans'[v] = rvans[v]
           /\ rvpc[v] \notin {"idle", "done"} => rvans'[v] = "lost"
  BY DEF CrashAll, RvAnswer
<1>1. RvTypeOK'
  BY <1>0
<1>2. ASSUME NEW w \in Rev PROVE CallInv(w)'
  <2>1. CallInv(w) /\ \A x \in rvbefore[w] : x \in Rev /\ rvans'[x] = rvans[x]
    BY <1>0 DEF CallInv
  <2> QED
    BY <1>0, <2>1 DEF CallInv
<1>3. \A q \in Slot : RowInv(q)'
  BY <1>0 DEF RowInv
<1> QED
  BY <1>1, <1>2, <1>3

(* Every step of issuers and revocations together keeps the invariant. *)
LEMMA RvStep == RvInv /\ [RvNext]_allVars => RvInv'
<1> SUFFICES ASSUME RvInv, [RvNext]_allVars PROVE RvInv'
  OBVIOUS
<1>1. IInv
  BY DEF RvInv
<1>2. [Next]_vars
  BY <1>1, RvIssuerStep
<1>3. IInv'
  BY <1>1, <1>2, NextInv
<1>4. \A s \in BankSlot : store[s] # None => store'[s] = store[s]
  BY <1>1, <1>2, BankRowsStand
<1>5. CASE UNCHANGED rvVars
  BY <1>3, <1>4, <1>5, RvIssueKeeps DEF RvInv
<1>6. ASSUME NEW v \in Rev, RevokeBankCredential(v) \/ RevokeBankFiatRampTest(v)
      PROVE  RvInv'
  <2>1. PICK s \in BankSlot : RevokeLookup(v, s) \/ RevokeSubmit(v) \/ MarkRevoked(v)
    BY <1>6 DEF RevokeBankCredential, RevokeBankFiatRampTest, BankSlot
  <2> QED
    BY <1>3, <2>1, RevokeLookupKeeps, RevokeSubmitKeeps, MarkRevokedKeeps DEF RvInv
<1>7. CASE CrashAll
  BY <1>3, <1>7, CrashAllKeeps DEF RvInv
<1> QED
  BY <1>5, <1>6, <1>7 DEF RvNext, allVars

(* The invariant gives that revocation is sound. *)
LEMMA RvImplies == RvInv => RevocationSound
BY DEF RvInv, CallInv, RowInv, RvTypeOK, RevocationSound, RevokedRowOnChain, SequentialRevokeOnce,
       AnsweredRevocationStands

(***************************************************************************)
(* Revocation beside any number of issue requests and revoke calls, with   *)
(* crashes, failing stores and lost replies: a row marked revoked stands   *)
(* for a revocation of the very credential it holds, a call made after     *)
(* another was answered never revokes again, and an answered revocation    *)
(* stands (bank.ts, bank-mock.ts).                                         *)
(***************************************************************************)
THEOREM BooksRevocationSound == BooksSpec => []RevocationSound
<1>1. BooksInit => RvInv
  BY RvInitInv DEF BooksInit
<1>2. RvInv /\ [BooksNext]_all => RvInv'
  <2> SUFFICES ASSUME RvInv, [BooksNext]_all PROVE RvInv'
    OBVIOUS
  <2>1. [RvNext]_allVars
    BY DEF BooksNext, all
  <2> QED
    BY <2>1, RvStep
<1> QED
  BY <1>1, <1>2, RvImplies, PTL DEF BooksSpec

-----------------------------------------------------------------------------
(* Interest: powers, the bound of one application, the ticks.              *)

(* The function whose last value is a power. *)
PowersUpTo(b, n, p) == p = [k \in 0 .. n |-> IF k = 0 THEN 1 ELSE b * p[k - 1]]

PowersTo(b, n) == CHOOSE p : PowersUpTo(b, n, p)

(* Power is its last value. *)
LEMMA PowerIsLast == \A b, n : Yield!Power(b, n) = PowersTo(b, n)[n]
BY DEF Yield!Power, PowersTo, PowersUpTo

(* That function exists, for every exponent. *)
LEMMA PowersExist ==
  ASSUME NEW b \in Nat, NEW n \in Nat
  PROVE  \E p \in [0 .. n -> Nat] : PowersUpTo(b, n, p)
<1> DEFINE Q == {m \in Nat : \E p \in [0 .. m -> Nat] : PowersUpTo(b, m, p)}
<1>1. 0 \in Q
  <2> DEFINE p == [k \in 0 .. 0 |-> 1]
  <2>1. p \in [0 .. 0 -> Nat] /\ PowersUpTo(b, 0, p)
    BY DEF PowersUpTo
  <2> QED
    BY <2>1
<1>2. ASSUME NEW m \in Q PROVE m + 1 \in Q
  <2>1. PICK p \in [0 .. m -> Nat] : PowersUpTo(b, m, p)
    BY <1>2
  <2>2. \A k \in 0 .. m : p[k] = IF k = 0 THEN 1 ELSE b * p[k - 1]
    BY <2>1 DEF PowersUpTo
  <2> DEFINE q == [k \in 0 .. m + 1 |-> IF k = 0 THEN 1 ELSE b * p[k - 1]]
  <2>3. \A x \in Nat : b * x \in Nat
    OBVIOUS
  <2>4. q \in [0 .. m + 1 -> Nat]
    BY <2>3
  <2>5. \A k \in 0 .. m : q[k] = p[k]
    BY <2>2
  <2>6. ASSUME NEW k \in 0 .. m + 1 PROVE q[k] = IF k = 0 THEN 1 ELSE b * q[k - 1]
    <3>1. k # 0 => k - 1 \in 0 .. m
      BY <1>2
    <3>2. k # 0 => q[k - 1] = p[k - 1]
      BY <2>5, <3>1
    <3>3. k # 0 => q[k] = b * p[k - 1]
      OBVIOUS
    <3>4. k = 0 => q[k] = 1
      OBVIOUS
    <3> HIDE DEF q
    <3> QED
      BY <3>2, <3>3, <3>4
  <2>7. PowersUpTo(b, m + 1, q)
    <3> HIDE DEF q
    <3> QED
      BY <2>4, <2>6 DEF PowersUpTo
  <2> HIDE DEF q
  <2>8. m + 1 \in Nat
    BY <1>2
  <2> QED
    BY <2>4, <2>7, <2>8
<1> HIDE DEF Q
<1>3. Q = Nat
  BY <1>1, <1>2, NatInduct DEF Q
<1> QED
  BY <1>3 DEF Q

(* Two of them agree where both are defined. *)
LEMMA PowersAgree ==
  ASSUME NEW b, NEW n \in Nat, NEW m \in Nat, NEW p, NEW q,
         PowersUpTo(b, n, p), PowersUpTo(b, m, q), NEW k \in Nat, k <= n, k <= m
  PROVE  p[k] = q[k]
<1> DEFINE Q == {j \in Nat : j <= n /\ j <= m => p[j] = q[j]}
<1>1. \A j \in 0 .. n : p[j] = IF j = 0 THEN 1 ELSE b * p[j - 1]
  BY DEF PowersUpTo
<1>2. \A j \in 0 .. m : q[j] = IF j = 0 THEN 1 ELSE b * q[j - 1]
  BY DEF PowersUpTo
<1>3. 0 \in Q
  BY <1>1, <1>2
<1>4. ASSUME NEW j \in Q PROVE j + 1 \in Q
  <2> SUFFICES ASSUME j + 1 <= n, j + 1 <= m PROVE p[j + 1] = q[j + 1]
    BY <1>4
  <2>1. p[j] = q[j]
    BY <1>4
  <2>2. j + 1 \in 0 .. n /\ j + 1 \in 0 .. m /\ j + 1 # 0 /\ (j + 1) - 1 = j
    BY <1>4
  <2>3. p[j + 1] = b * p[j] /\ q[j + 1] = b * q[j]
    BY <1>1, <1>2, <2>2
  <2> QED
    BY <2>1, <2>3
<1> HIDE DEF Q
<1>5. Q = Nat
  BY <1>3, <1>4, NatInduct DEF Q
<1> QED
  BY <1>5 DEF Q

(* The recursion of powers. *)
LEMMA PowerLaws ==
  ASSUME NEW b \in Nat
  PROVE  /\ Yield!Power(b, 0) = 1
         /\ \A n \in Nat : /\ Yield!Power(b, n) \in Nat
                           /\ Yield!Power(b, n + 1) = b * Yield!Power(b, n)
<1>1. ASSUME NEW n \in Nat
      PROVE  /\ PowersUpTo(b, n, PowersTo(b, n)) 
             /\ \A j \in 0 .. n : PowersTo(b, n)[j] = IF j = 0 THEN 1 ELSE b * PowersTo(b, n)[j - 1]
  <2>1. PowersUpTo(b, n, PowersTo(b, n))
    BY PowersExist DEF PowersTo
  <2> QED
    BY <2>1 DEF PowersUpTo
<1>2. ASSUME NEW n \in Nat PROVE Yield!Power(b, n) \in Nat
  <2>1. PICK p \in [0 .. n -> Nat] : PowersUpTo(b, n, p)
    BY PowersExist
  <2>2. PowersTo(b, n)[n] = p[n]
    BY <1>1, <2>1, PowersAgree
  <2> QED
    BY <2>1, <2>2, PowerIsLast
<1>3. ASSUME NEW n \in Nat PROVE Yield!Power(b, n + 1) = b * Yield!Power(b, n)
  <2>1. n + 1 \in Nat /\ n + 1 \in 0 .. n + 1 /\ n + 1 # 0 /\ (n + 1) - 1 = n
    OBVIOUS
  <2>2. PowersTo(b, n + 1)[n + 1] = b * PowersTo(b, n + 1)[n]
    BY <1>1, <2>1
  <2>3. PowersTo(b, n + 1)[n] = PowersTo(b, n)[n]
    BY <1>1, <2>1, PowersAgree
  <2> QED
    BY <2>2, <2>3, PowerIsLast
<1>4. Yield!Power(b, 0) = 1
  BY <1>1, PowerIsLast
<1> QED
  BY <1>2, <1>3, <1>4

(* Products of naturals, rearranged and compared. *)
LEMMA ProductLaws ==
  /\ \A x, y \in Nat : x * y \in Nat /\ x * y = y * x
  /\ \A x, y, z \in Nat : (x * y) * z = x * (y * z)
  /\ \A x, y, z \in Nat : x * (y + z) = x * y + x * z
  /\ \A x, y, z \in Nat : x <= y => x * z <= y * z
<1>1. \A x, y \in Nat : x * y \in Nat /\ x * y = y * x
  OBVIOUS
<1>2. \A x, y, z \in Nat : (x * y) * z = x * (y * z)
  OBVIOUS
<1>3. \A x, y, z \in Nat : x * (y + z) = x * y + x * z
  OBVIOUS
<1>4. \A x, y, z \in Nat : x <= y => x * z <= y * z
  <2> SUFFICES ASSUME NEW x \in Nat, NEW y \in Nat, NEW z \in Nat, x <= y
               PROVE  x * z <= y * z
    OBVIOUS
  <2> DEFINE d == y - x
  <2>1. d \in Nat /\ y = x + d
    OBVIOUS
  <2> HIDE DEF d
  <2>2. y * z = x * z + d * z /\ d * z \in Nat /\ x * z \in Nat
    BY <1>1, <1>3, <2>1
  <2> QED
    BY <2>2
<1> QED
  BY <1>1, <1>2, <1>3, <1>4

(* Division of naturals rounds down. *)
LEMMA DivLaw ==
  ASSUME NEW a \in Nat, NEW d \in Nat \ {0}
  PROVE  a \div d \in Nat /\ (a \div d) * d <= a
OBVIOUS

(* Exponents add up. *)
LEMMA PowerSum ==
  ASSUME NEW b \in Nat, NEW m \in Nat, NEW n \in Nat
  PROVE  Yield!Power(b, m + n) = Yield!Power(b, m) * Yield!Power(b, n)
<1> DEFINE P(k) == Yield!Power(b, k)
           Q == {k \in Nat : P(m + k) = P(m) * P(k)}
<1>0. P(0) = 1 /\ \A k \in Nat : P(k) \in Nat /\ P(k + 1) = b * P(k)
  BY PowerLaws
<1> HIDE DEF P
<1>1. 0 \in Q
  BY <1>0
<1>2. ASSUME NEW k \in Q PROVE k + 1 \in Q
  <2>1. k \in Nat /\ m + k \in Nat /\ (m + k) + 1 = m + (k + 1) /\ k + 1 \in Nat
    BY <1>2
  <2>2. P(m + (k + 1)) = b * P(m + k) /\ P(k + 1) = b * P(k)
    BY <1>0, <2>1
  <2>3. P(m + k) = P(m) * P(k)
    BY <1>2
  <2>4. b * (P(m) * P(k)) = P(m) * (b * P(k))
    BY <1>0, <2>1, ProductLaws
  <2> QED
    BY <2>1, <2>2, <2>3, <2>4
<1> HIDE DEF Q
<1>3. Q = Nat
  BY <1>1, <1>2, NatInduct DEF Q
<1> QED
  BY <1>3 DEF Q, P

(* The power of a product is the product of the powers. *)
LEMMA PowerProduct ==
  ASSUME NEW a \in Nat, NEW b \in Nat, NEW n \in Nat
  PROVE  Yield!Power(a * b, n) = Yield!Power(a, n) * Yield!Power(b, n)
<1> DEFINE A(k) == Yield!Power(a, k)
           B(k) == Yield!Power(b, k)
           C(k) == Yield!Power(a * b, k)
           Q == {k \in Nat : C(k) = A(k) * B(k)}
<1>0. /\ a * b \in Nat
      /\ A(0) = 1 /\ B(0) = 1 /\ C(0) = 1
      /\ \A k \in Nat : /\ A(k) \in Nat /\ A(k + 1) = a * A(k)
                        /\ B(k) \in Nat /\ B(k + 1) = b * B(k)
                        /\ C(k) \in Nat /\ C(k + 1) = (a * b) * C(k)
  BY PowerLaws, ProductLaws
<1> HIDE DEF A, B, C
<1>1. 0 \in Q
  BY <1>0
<1>2. ASSUME NEW k \in Q PROVE k + 1 \in Q
  <2>1. k \in Nat /\ k + 1 \in Nat /\ C(k) = A(k) * B(k) /\ A(k) \in Nat /\ B(k) \in Nat
    BY <1>0, <1>2
  <2>2. \A x, y \in Nat : (a * b) * (x * y) = (a * x) * (b * y)
    OBVIOUS
  <2>3. (a * b) * (A(k) * B(k)) = (a * A(k)) * (b * B(k))
    BY <2>1, <2>2
  <2>4. A(k + 1) = a * A(k) /\ B(k + 1) = b * B(k) /\ C(k + 1) = (a * b) * C(k)
    BY <1>0, <2>1
  <2> QED
    BY <2>1, <2>3, <2>4
<1> HIDE DEF Q
<1>3. Q = Nat
  BY <1>1, <1>2, NatInduct DEF Q
<1> QED
  BY <1>3 DEF Q, A, B, C

(* A power of a positive number is positive. *)
LEMMA PowerPositive ==
  ASSUME NEW b \in Nat \ {0}, NEW n \in Nat
  PROVE  Yield!Power(b, n) # 0
<1> DEFINE P(k) == Yield!Power(b, k)
           Q == {k \in Nat : P(k) # 0}
<1>0. P(0) = 1 /\ \A k \in Nat : P(k) \in Nat /\ P(k + 1) = b * P(k)
  BY PowerLaws
<1> HIDE DEF P
<1>1. 0 \in Q
  BY <1>0
<1>2. ASSUME NEW k \in Q PROVE k + 1 \in Q
  <2>1. \A x \in Nat : x # 0 => b * x # 0
    OBVIOUS
  <2>2. k + 1 \in Nat /\ P(k + 1) = b * P(k) /\ P(k) \in Nat /\ P(k) # 0
    BY <1>0, <1>2
  <2> QED
    BY <2>1, <2>2
<1> HIDE DEF Q
<1>3. Q = Nat
  BY <1>1, <1>2, NatInduct DEF Q
<1> QED
  BY <1>3 DEF Q, P

(***************************************************************************)
(* The rounding of one multiplier is less than what rounding every period  *)
(* up would give: (c N)^k + c^(k-1) D^k <= (c N + D)^k for k > 0.          *)
(***************************************************************************)
LEMMA RoundingOnce ==
  ASSUME NEW c \in Nat, NEW N \in Nat, NEW D \in Nat, D <= N, NEW j \in Nat
  PROVE  Yield!Power(c * N, j + 1) + Yield!Power(c, j) * Yield!Power(D, j + 1)
           <= Yield!Power(c * N + D, j + 1)
<1> DEFINE x == c * N
           X(k) == Yield!Power(x, k)
           C(k) == Yield!Power(c, k)
           E(k) == Yield!Power(D, k)
           Y(k) == Yield!Power(x + D, k)
           Q == {k \in Nat : X(k + 1) + C(k) * E(k + 1) <= Y(k + 1)}
<1>a. x \in Nat /\ x = c * N
  BY ProductLaws
<1> HIDE DEF x
<1>b. x + D \in Nat
  BY <1>a
<1>0. /\ x + D \in Nat
      /\ X(0) = 1 /\ C(0) = 1 /\ E(0) = 1 /\ Y(0) = 1
      /\ \A k \in Nat : /\ X(k) \in Nat /\ X(k + 1) = x * X(k)
                        /\ C(k) \in Nat /\ C(k + 1) = c * C(k)
                        /\ E(k) \in Nat /\ E(k + 1) = D * E(k)
                        /\ Y(k) \in Nat /\ Y(k + 1) = (x + D) * Y(k)
  BY <1>a, <1>b, PowerLaws
<1> HIDE DEF X, C, E, Y
<1>1. 0 \in Q
  <2>1. 0 \in Nat /\ X(0 + 1) = x /\ E(0 + 1) = D /\ Y(0 + 1) = x + D
    BY <1>0, <1>a
  <2> QED
    BY <2>1, <1>0, <1>a
<1>2. ASSUME NEW k \in Q PROVE k + 1 \in Q
  <2> DEFINE p == X(k + 1)
             q == C(k)
             r == E(k + 1)
             y == Y(k + 1)
  <2>1. /\ k \in Nat /\ k + 1 \in Nat
        /\ p \in Nat /\ q \in Nat /\ r \in Nat /\ y \in Nat
        /\ X((k + 1) + 1) = x * p /\ C(k + 1) = c * q
        /\ E((k + 1) + 1) = D * r /\ Y((k + 1) + 1) = (x + D) * y
    BY <1>0, <1>2
  <2>2. p + q * r <= y
    BY <1>2
  <2> HIDE DEF p, q, r, y
  <2>3. q * r \in Nat
    BY <2>1, ProductLaws
  <2>4. (p + q * r) * (x + D) <= y * (x + D)
    <3>1. p + q * r \in Nat
      BY <2>1, <2>3
    <3> QED
      BY <1>b, <2>1, <2>2, <3>1, ProductLaws
  <2>5. /\ (p + q * r) * (x + D) = p * x + p * D + (q * r) * x + (q * r) * D
        /\ p * x \in Nat /\ p * D \in Nat /\ (q * r) * x \in Nat /\ (q * r) * D \in Nat
    <3> DEFINE z == q * r
    <3>1. z \in Nat
      BY <2>3
    <3> HIDE DEF z
    <3>2. (p + z) * (x + D) = p * x + p * D + z * x + z * D
      BY <3>1, <2>1, <1>a
    <3>3. p * x \in Nat /\ p * D \in Nat /\ z * x \in Nat /\ z * D \in Nat
      BY <3>1, <2>1, <1>a, ProductLaws
    <3> QED
      BY <3>2, <3>3 DEF z
  <2>6. (c * q) * (D * r) <= (q * r) * x
    <3> DEFINE w == (c * q) * r
    <3>1. w \in Nat
      BY <2>1, ProductLaws
    <3>2. D * w <= N * w
      BY <3>1, ProductLaws
    <3>3. D * w = (c * q) * (D * r)
      BY <2>1
    <3>4. N * w = (q * r) * x
      BY <2>1, <1>a
    <3> HIDE DEF w
    <3> QED
      BY <3>2, <3>3, <3>4
  <2>7. x * p = p * x /\ (x + D) * y = y * (x + D)
    BY <2>1, <1>a, <1>0, ProductLaws
  <2>8. x * p + (c * q) * (D * r) <= (x + D) * y
    <3> DEFINE a1 == p * x
               a2 == p * D
               a3 == (q * r) * x
               a4 == (q * r) * D
               a5 == (c * q) * (D * r)
               a6 == y * (x + D)
    <3>1. a5 \in Nat /\ a6 \in Nat
      BY <2>1, <1>0, ProductLaws
    <3>2. a1 + a2 + a3 + a4 <= a6 /\ a5 <= a3 /\ a1 \in Nat /\ a2 \in Nat /\ a3 \in Nat /\ a4 \in Nat
      BY <2>4, <2>5, <2>6
    <3> HIDE DEF a1, a2, a3, a4, a5, a6
    <3>3. a1 + a5 <= a6
      BY <3>1, <3>2
    <3> QED
      BY <3>3, <2>7 DEF a1, a5, a6
  <2> QED
    BY <2>1, <2>8
<1> HIDE DEF Q
<1>3. Q = Nat
  BY <1>1, <1>2, NatInduct DEF Q
<1> QED
  BY <1>3 DEF Q, X, C, E, Y, x

(***************************************************************************)
(* What applyYield gives over k periods is at most the balance compounded  *)
(* k times at the multiplier and half a unit of the scale: Math.round is   *)
(* applied once, to the k-th power of the multiplier, and the division by  *)
(* the scale truncates.                                                    *)
(***************************************************************************)
LEMMA AccruedBound ==
  ASSUME NEW b \in Nat, NEW k \in Nat
  PROVE  /\ Yield!applyYield(b, k) \in Nat
         /\ Yield!applyYield(b, k) * Yield!Power(2 * Den * Scale, k)
              <= b * Yield!Power(2 * Num * Scale + Den, k)
<1>1. Num \in Nat /\ Den \in Nat \ {0} /\ Den <= Num /\ Scale \in Nat \ {0}
  BY YieldAssumption DEF Yield!YieldAssumption
<1> DEFINE c == 2 * Scale
           y == Yield!applyYield(b, k)
           x == 2 * Den * Scale
           z == 2 * Num * Scale + Den
<1>2. c \in Nat /\ x = c * Den /\ z = c * Num + Den /\ x \in Nat /\ z \in Nat /\ c * Num \in Nat
  BY <1>1, ProductLaws
<1>3. CASE k = 0
  <2>1. y = b
    BY <1>3 DEF Yield!applyYield
  <2>2. Yield!Power(x, k) = 1 /\ Yield!Power(z, k) = 1
    BY <1>2, <1>3, PowerLaws
  <2> HIDE DEF x, y, z
  <2>3. y \in Nat /\ y * Yield!Power(x, k) <= b * Yield!Power(z, k)
    BY <2>1, <2>2
  <2> QED
    BY <2>3 DEF x, y, z
<1>4. CASE k # 0
  <2> DEFINE j == k - 1
             Nk == Yield!Power(Num, k)
             Dk == Yield!Power(Den, k)
             Cj == Yield!Power(c, j)
             s == Yield!Scaled(k)
  <2>1. j \in Nat /\ k = j + 1
    BY <1>4
  <2> HIDE DEF c, j, x, z
  <2>2. Nk \in Nat /\ Dk \in Nat /\ Cj \in Nat
    BY <1>1, <1>2, <2>1, PowerLaws
  <2>3. Dk # 0
    BY <1>1, PowerPositive
  <2>4. s = (2 * Nk * Scale + Dk) \div (2 * Dk) /\ y = (b * s) \div Scale
    BY <1>4 DEF Yield!Scaled, Yield!applyYield
  <2> HIDE DEF Nk, Dk, Cj, s, y
  <2>5. 2 * Nk * Scale + Dk \in Nat /\ 2 * Dk \in Nat \ {0}
    BY <1>1, <2>2, <2>3, ProductLaws
  <2>6. s \in Nat /\ s * (2 * Dk) <= 2 * Nk * Scale + Dk
    BY <2>4, <2>5, DivLaw
  <2>7. y \in Nat /\ y * Scale <= b * s
    <3>1. b * s \in Nat
      BY <2>6, ProductLaws
    <3> QED
      BY <1>1, <2>4, <3>1, DivLaw
  \* y c D^k <= b (c N^k + D^k)
  <2>8. y * (c * Dk) <= b * (c * Nk + Dk)
    <3>1. (y * Scale) * (2 * Dk) <= (b * s) * (2 * Dk)
      <4>1. y * Scale \in Nat /\ b * s \in Nat /\ 2 * Dk \in Nat
        BY <1>1, <2>2, <2>6, <2>7, ProductLaws
      <4> QED
        BY <2>7, <4>1, ProductLaws
    <3>2. (s * (2 * Dk)) * b <= (2 * Nk * Scale + Dk) * b
      <4>1. s * (2 * Dk) \in Nat
        BY <2>5, <2>6, ProductLaws
      <4> QED
        BY <2>5, <2>6, <4>1, ProductLaws
    <3>3. y * (c * Dk) = (y * Scale) * (2 * Dk)
      BY <1>1, <2>2, <2>7 DEF c
    <3>4. (b * s) * (2 * Dk) = (s * (2 * Dk)) * b
      BY <2>2, <2>6
    <3>5. (2 * Nk * Scale + Dk) * b = b * (c * Nk + Dk)
      BY <1>1, <2>2 DEF c
    <3>6. y * (c * Dk) \in Nat /\ (b * s) * (2 * Dk) \in Nat /\ b * (c * Nk + Dk) \in Nat
      BY <1>2, <2>2, <2>6, <2>7, ProductLaws
    <3> QED
      BY <3>1, <3>2, <3>3, <3>4, <3>5, <3>6
  \* ... times c^(k-1)
  <2>9. (y * (c * Dk)) * Cj <= (b * (c * Nk + Dk)) * Cj
    <3>1. c * Dk \in Nat /\ c * Nk \in Nat
      BY <1>2, <2>2, ProductLaws
    <3>2. c * Nk + Dk \in Nat
      BY <2>2, <3>1
    <3>3. y * (c * Dk) \in Nat /\ b * (c * Nk + Dk) \in Nat
      BY <2>7, <3>1, <3>2, ProductLaws
    <3> QED
      BY <2>2, <2>8, <3>3, ProductLaws
  <2>10. Yield!Power(c, k) = c * Cj
    BY <1>2, <2>1, PowerLaws DEF Cj
  <2>11. Yield!Power(x, k) = (c * Cj) * Dk
    BY <1>1, <1>2, <2>10, PowerProduct DEF Dk
  <2>12. Yield!Power(c * Num, k) = (c * Cj) * Nk
    BY <1>1, <1>2, <2>10, PowerProduct DEF Nk
  <2>13. (c * Cj) * Nk + Cj * Dk <= Yield!Power(z, k)
    BY <1>1, <1>2, <2>1, <2>12, RoundingOnce DEF Cj, Dk
  <2>14. Yield!Power(z, k) \in Nat
    BY <1>2, PowerLaws
  <2>15. ((c * Cj) * Nk + Cj * Dk) * b <= Yield!Power(z, k) * b
    <3>1. (c * Cj) * Nk \in Nat /\ Cj * Dk \in Nat
      BY <1>2, <2>2, ProductLaws
    <3>2. (c * Cj) * Nk + Cj * Dk \in Nat
      BY <3>1
    <3> QED
      BY <2>13, <2>14, <3>2, ProductLaws
  <2>16. (y * (c * Dk)) * Cj = y * ((c * Cj) * Dk)
    BY <1>2, <2>2, <2>7
  <2>17. (b * (c * Nk + Dk)) * Cj = ((c * Cj) * Nk + Cj * Dk) * b
    BY <1>2, <2>2
  <2>18. Yield!Power(z, k) * b = b * Yield!Power(z, k)
    BY <2>14, ProductLaws
  <2>19. y * ((c * Cj) * Dk) <= b * Yield!Power(z, k)
    <3>1. y * ((c * Cj) * Dk) \in Nat /\ ((c * Cj) * Nk + Cj * Dk) * b \in Nat
          /\ b * Yield!Power(z, k) \in Nat
      BY <1>2, <2>2, <2>7, <2>14, ProductLaws
    <3> QED
      BY <2>9, <2>15, <2>16, <2>17, <2>18, <3>1
  <2>20. y \in Nat /\ y * Yield!Power(x, k) <= b * Yield!Power(z, k)
    BY <2>7, <2>11, <2>19
  <2> QED
    BY <2>20 DEF x, y, z
<1> QED
  BY <1>3, <1>4

(* Interest for k more periods on a balance within n periods is within n + k. *)
LEMMA CompoundedOn ==
  ASSUME NEW b \in Nat, NEW n \in Nat, NEW k \in Nat, Yield!AtMostCompounded(b, n)
  PROVE  Yield!AtMostCompounded(Yield!applyYield(b, k), n + k)
<1> DEFINE y == Yield!applyYield(b, k)
           x == 2 * Den * Scale
           z == 2 * Num * Scale + Den
           xn == Yield!Power(x, n)
           xk == Yield!Power(x, k)
           zn == Yield!Power(z, n)
           zk == Yield!Power(z, k)
           o == OpeningBalance
<1>1. x \in Nat /\ z \in Nat /\ o \in Nat
  BY YieldAssumption, ProductLaws DEF Yield!YieldAssumption
<1>2. y \in Nat /\ y * xk <= b * zk
  BY AccruedBound
<1>3. b * xn <= o * zn
  BY DEF Yield!AtMostCompounded
<1>4. SUFFICES y * Yield!Power(x, n + k) <= o * Yield!Power(z, n + k)
  BY DEF Yield!AtMostCompounded
<1> HIDE DEF x, y, z, o
<1>5. Yield!Power(x, n + k) = xn * xk /\ Yield!Power(z, n + k) = zn * zk
  BY <1>1, PowerSum
<1>6. xn \in Nat /\ xk \in Nat /\ zn \in Nat /\ zk \in Nat
  BY <1>1, PowerLaws
<1> HIDE DEF xn, xk, zn, zk
<1>7. /\ y * xk \in Nat /\ b * zk \in Nat /\ b * xn \in Nat /\ o * zn \in Nat
      /\ (y * xk) * xn \in Nat /\ (b * zk) * xn \in Nat /\ (o * zn) * zk \in Nat
  BY <1>1, <1>2, <1>6, ProductLaws
<1>8. (y * xk) * xn <= (b * zk) * xn /\ (b * xn) * zk <= (o * zn) * zk
  BY <1>2, <1>3, <1>6, <1>7, ProductLaws
<1>9. y * (xn * xk) = (y * xk) * xn /\ (b * zk) * xn = (b * xn) * zk /\ o * (zn * zk) = (o * zn) * zk
  BY <1>1, <1>2, <1>6
<1>10. y * (xn * xk) <= o * (zn * zk)
  BY <1>7, <1>8, <1>9
<1> QED
  BY <1>5, <1>10

(* A tick that runs or is over. *)
TickRun == [pc : {"running", "done"}, items : [Account -> Yield!Item]]

(***************************************************************************)
(* The invariant: what is in the rows, on chain and in a commit on its way *)
(* is within what its periods give.                                        *)
(***************************************************************************)
YieldInv ==
  /\ y_period \in 0 .. MaxPeriod
  /\ y_row \in [Account -> Yield!Entry]
  /\ y_chain \in [Account -> Yield!Entry]
  /\ y_ticks \in [Job -> {Yield!Idle} \cup TickRun]
  /\ Yield!YieldNeverDouble
  /\ \A t \in Job : y_ticks[t] \in TickRun =>
       \A a \in Account : LET i == y_ticks[t].items[a]
                          IN  i.st # "null" => Yield!AtMostCompounded(i.balance, i.last)

(* The yield component starts in the invariant: every balance is the opening *)
(* one, with no period paid.                                                 *)
LEMMA YieldInit == Yield!Init => YieldInv
<1> SUFFICES ASSUME Yield!Init PROVE YieldInv
  OBVIOUS
<1>1. OpeningBalance \in Nat /\ MaxPeriod \in Nat /\ 2 * Den * Scale \in Nat /\ 2 * Num * Scale + Den \in Nat
  BY YieldAssumption, ProductLaws DEF Yield!YieldAssumption
<1>2. Yield!Power(2 * Den * Scale, 0) = 1 /\ Yield!Power(2 * Num * Scale + Den, 0) = 1
  BY <1>1, PowerLaws
<1>3. Yield!AtMostCompounded(OpeningBalance, 0)
  BY <1>1, <1>2 DEF Yield!AtMostCompounded
<1>4. Yield!YieldNeverDouble
  BY <1>3 DEF Yield!Init, Yield!YieldNeverDouble
<1>5. \A t \in Job : y_ticks[t] = Yield!Idle /\ y_ticks[t] \notin TickRun
  BY DEF Yield!Init, Yield!Idle, TickRun
<1> QED
  BY <1>1, <1>4, <1>5 DEF Yield!Init, YieldInv, Yield!Entry

(* accrueOne, from a row within its periods: what it commits is within the   *)
(* periods up to now.                                                        *)
LEMMA AccrueOneOk ==
  ASSUME y_period \in 0 .. MaxPeriod, NEW r \in Yield!Entry,
         Yield!AtMostCompounded(r.balance, r.last)
  PROVE  /\ Yield!accrueOne(r) \in Yield!Item
         /\ Yield!accrueOne(r).st # "null" =>
              Yield!AtMostCompounded(Yield!accrueOne(r).balance, Yield!accrueOne(r).last)
<1>0. MaxPeriod \in Nat
  BY YieldAssumption DEF Yield!YieldAssumption
<1>1. r.balance \in Nat /\ r.last \in Nat /\ y_period \in Nat
  BY <1>0 DEF Yield!Entry
<1> DEFINE k == y_period - r.last
<1>2. CASE y_period <= r.last
  BY <1>1, <1>2 DEF Yield!accrueOne, Yield!Item
<1>3. CASE ~(y_period <= r.last)
  <2>1. k \in Nat /\ r.last + k = y_period
    BY <1>1, <1>3
  <2>2. Yield!applyYield(r.balance, k) \in Nat
    BY <1>1, <2>1, AccruedBound
  <2>3. Yield!AtMostCompounded(Yield!applyYield(r.balance, k), r.last + k)
    BY <1>1, <2>1, CompoundedOn
  <2>4. /\ Yield!accrueOne(r).st \in {"null", "sent"}
        /\ Yield!accrueOne(r).balance = Yield!applyYield(r.balance, k)
        /\ Yield!accrueOne(r).last = y_period
    BY <1>3 DEF Yield!accrueOne
  <2>5. Yield!accrueOne(r) \in Yield!Item
    BY <1>3, <2>2 DEF Yield!accrueOne, Yield!Item
  <2> QED
    BY <2>1, <2>3, <2>4, <2>5
<1> QED
  BY <1>2, <1>3

(* accrueAll starts from the rows of its moment. *)
LEMMA AccrueAllKeeps ==
  ASSUME YieldInv, NEW t \in Job, Yield!accrueAll(t)
  PROVE  YieldInv'
<1> USE DEF YieldInv
<1> DEFINE run == [pc |-> "running", items |-> [a \in Account |-> Yield!accrueOne(y_row[a])]]
<1>1. y_ticks' = [y_ticks EXCEPT ![t] = run] /\ UNCHANGED <<y_period, y_row, y_chain>>
  BY DEF Yield!accrueAll
<1>2. ASSUME NEW a \in Account
      PROVE  /\ Yield!accrueOne(y_row[a]) \in Yield!Item
             /\ Yield!accrueOne(y_row[a]).st # "null" =>
                  Yield!AtMostCompounded(Yield!accrueOne(y_row[a]).balance,
                                         Yield!accrueOne(y_row[a]).last)
  <2>1. y_row[a] \in Yield!Entry /\ Yield!AtMostCompounded(y_row[a].balance, y_row[a].last)
    BY DEF Yield!YieldNeverDouble
  <2> QED
    BY <2>1, AccrueOneOk
<1>3. run \in TickRun
  BY <1>2 DEF TickRun
<1>4. \A a \in Account : run.items[a].st # "null" =>
        Yield!AtMostCompounded(run.items[a].balance, run.items[a].last)
  BY <1>2
<1>5. Yield!YieldNeverDouble'
  BY <1>1 DEF Yield!YieldNeverDouble, Yield!AtMostCompounded
<1> HIDE DEF run
<1>6. y_ticks' \in [Job -> {Yield!Idle} \cup TickRun]
  BY <1>1, <1>3
<1>7. \A u \in Job : y_ticks'[u] = IF u = t THEN run ELSE y_ticks[u]
  BY <1>1
<1>8. \A u \in Job : y_ticks'[u] \in TickRun =>
       \A a \in Account : y_ticks'[u].items[a].st # "null" =>
         Yield!AtMostCompounded(y_ticks'[u].items[a].balance, y_ticks'[u].items[a].last)
  BY <1>4, <1>7
<1> QED
  BY <1>1, <1>5, <1>6, <1>8 DEF Yield!AtMostCompounded

(* A commit, whether it lands and answers or not. *)
LEMMA CommitKeeps ==
  ASSUME YieldInv, NEW t \in Job, NEW a \in Account,
         NEW lands \in BOOLEAN, NEW answers \in BOOLEAN, Yield!Commit(t, a, lands, answers)
  PROVE  YieldInv'
<1> USE DEF YieldInv
<1> DEFINE i == y_ticks[t].items[a]
           st == IF answers THEN "ok" ELSE "threw"
<1>1. /\ y_ticks[t].pc = "running" /\ i.st = "sent"
      /\ y_chain' \in {y_chain, [y_chain EXCEPT ![a] = [balance |-> i.balance, last |-> i.last]]}
      /\ y_ticks' = [y_ticks EXCEPT ![t].items[a].st = st]
      /\ UNCHANGED <<y_period, y_row>>
  BY DEF Yield!Commit
<1>2. y_ticks[t] \in TickRun
  BY <1>1 DEF Yield!Idle
<1>3. i \in Yield!Item /\ Yield!AtMostCompounded(i.balance, i.last)
  BY <1>1, <1>2 DEF TickRun
<1>4. /\ y_ticks'[t] = [y_ticks[t] EXCEPT !.items = [@ EXCEPT ![a] = [i EXCEPT !.st = st]]]
      /\ \A u \in Job \ {t} : y_ticks'[u] = y_ticks[u]
      /\ y_ticks' = [y_ticks EXCEPT ![t] = y_ticks'[t]]
  BY <1>1
<1>5. /\ y_ticks'[t] \in TickRun
      /\ \A b \in Account : /\ y_ticks'[t].items[b].balance = y_ticks[t].items[b].balance
                            /\ y_ticks'[t].items[b].last = y_ticks[t].items[b].last
                            /\ y_ticks'[t].items[b].st # "null" => y_ticks[t].items[b].st # "null"
  BY <1>1, <1>2, <1>3, <1>4 DEF TickRun, Yield!Item
<1>6. y_chain' \in [Account -> Yield!Entry]
  BY <1>1, <1>3 DEF Yield!Entry, Yield!Item
<1>7. \A b \in Account : Yield!AtMostCompounded(y_chain'[b].balance, y_chain'[b].last)
  BY <1>1, <1>3 DEF Yield!YieldNeverDouble
<1>8. Yield!YieldNeverDouble'
  BY <1>1, <1>7 DEF Yield!YieldNeverDouble, Yield!AtMostCompounded
<1>9. y_ticks' \in [Job -> {Yield!Idle} \cup TickRun]
  BY <1>4, <1>5
<1>10. \A u \in Job : y_ticks'[u] \in TickRun =>
       \A b \in Account : y_ticks'[u].items[b].st # "null" =>
         Yield!AtMostCompounded(y_ticks'[u].items[b].balance, y_ticks'[u].items[b].last)
  BY <1>2, <1>4, <1>5
<1> QED
  BY <1>1, <1>6, <1>8, <1>9, <1>10 DEF Yield!AtMostCompounded

(* A tick ends, with its rows persisted or not. *)
LEMMA TickEndKeeps ==
  ASSUME YieldInv, NEW t \in Job, Yield!Rejected(t) \/ Yield!Persist(t) \/ Yield!Lost(t)
  PROVE  YieldInv'
<1> USE DEF YieldInv
<1>1. /\ y_ticks[t].pc = "running"
      /\ y_ticks' = [y_ticks EXCEPT ![t].pc = "done"]
      /\ UNCHANGED <<y_period, y_chain>>
  BY DEF Yield!Rejected, Yield!Persist, Yield!Lost
<1>2. y_ticks[t] \in TickRun
  BY <1>1 DEF Yield!Idle
<1>3. /\ y_ticks'[t] = [y_ticks[t] EXCEPT !.pc = "done"]
      /\ \A u \in Job \ {t} : y_ticks'[u] = y_ticks[u]
      /\ y_ticks' = [y_ticks EXCEPT ![t] = y_ticks'[t]]
  BY <1>1
<1>4. y_ticks'[t] \in TickRun /\ y_ticks'[t].items = y_ticks[t].items
  BY <1>2, <1>3 DEF TickRun
<1>5. \A a \in Account :
        \/ y_row'[a] = y_row[a]
        \/ LET i == y_ticks[t].items[a]
           IN  i.st = "ok" /\ y_row'[a] = [balance |-> i.balance, last |-> i.last]
  BY DEF Yield!Rejected, Yield!Persist, Yield!Lost
<1>6. \A a \in Account : LET i == y_ticks[t].items[a]
        IN  i \in Yield!Item /\ (i.st = "ok" => Yield!AtMostCompounded(i.balance, i.last))
  BY <1>2 DEF TickRun
<1>7. ASSUME NEW a \in Account
      PROVE  y_row'[a] \in Yield!Entry /\ Yield!AtMostCompounded(y_row'[a].balance, y_row'[a].last)
  <2>1. CASE y_row'[a] = y_row[a]
    BY <2>1 DEF Yield!YieldNeverDouble
  <2>2. CASE y_row'[a] # y_row[a]
    <3> DEFINE i == y_ticks[t].items[a]
    <3>1. /\ i \in Yield!Item /\ Yield!AtMostCompounded(i.balance, i.last)
          /\ y_row'[a] = [balance |-> i.balance, last |-> i.last]
      BY <1>5, <1>6, <2>2
    <3> HIDE DEF i
    <3>2. y_row'[a] \in Yield!Entry /\ y_row'[a].balance = i.balance /\ y_row'[a].last = i.last
      BY <3>1 DEF Yield!Entry, Yield!Item
    <3> QED
      BY <3>1, <3>2
  <2> QED
    BY <2>1, <2>2
<1>8. y_row' \in [Account -> Yield!Entry]
  <2>1. y_row' = y_row \/ y_row' = [a \in Account |-> y_row'[a]]
    BY DEF Yield!Rejected, Yield!Persist, Yield!Lost
  <2> QED
    BY <1>7, <2>1
<1>9. Yield!YieldNeverDouble'
  BY <1>1, <1>7 DEF Yield!YieldNeverDouble, Yield!AtMostCompounded
<1>10. y_ticks' \in [Job -> {Yield!Idle} \cup TickRun]
  BY <1>3, <1>4
<1>11. \A u \in Job : y_ticks'[u] \in TickRun =>
       \A b \in Account : y_ticks'[u].items[b].st # "null" =>
         Yield!AtMostCompounded(y_ticks'[u].items[b].balance, y_ticks'[u].items[b].last)
  BY <1>2, <1>3, <1>4
<1> QED
  BY <1>1, <1>8, <1>9, <1>10, <1>11 DEF Yield!AtMostCompounded

(* Every step of the ticks keeps the invariant. *)
LEMMA YieldStep == YieldInv /\ [Yield!Next]_Yield!vars => YieldInv'
<1> SUFFICES ASSUME YieldInv, [Yield!Next]_Yield!vars PROVE YieldInv'
  OBVIOUS
<1>1. CASE UNCHANGED Yield!vars
  BY <1>1 DEF Yield!vars, YieldInv, Yield!YieldNeverDouble, Yield!AtMostCompounded
<1>2. CASE Yield!NextPeriod
  <2>1. y_period' \in 0 .. MaxPeriod /\ UNCHANGED <<y_row, y_chain, y_ticks>>
    BY <1>2, YieldAssumption DEF Yield!NextPeriod, YieldInv, Yield!YieldAssumption
  <2> QED
    BY <2>1 DEF YieldInv, Yield!YieldNeverDouble, Yield!AtMostCompounded
<1>3. ASSUME NEW t \in Job, Yield!accrueAll(t) PROVE YieldInv'
  BY <1>3, AccrueAllKeeps
<1>4. ASSUME NEW t \in Job, Yield!Rejected(t) \/ Yield!Persist(t) \/ Yield!Lost(t)
      PROVE  YieldInv'
  BY <1>4, TickEndKeeps
<1>5. ASSUME NEW t \in Job,
             \E a \in Account, lands, answers \in BOOLEAN : Yield!Commit(t, a, lands, answers)
      PROVE  YieldInv'
  BY <1>5, CommitKeeps
<1> QED
  BY <1>1, <1>2, <1>3, <1>4, <1>5 DEF Yield!Next

(* The invariant gives the property. *)
LEMMA YieldImplies == YieldInv => Yield!TypeOK /\ Yield!YieldNeverDouble
BY DEF YieldInv, Yield!TypeOK, TickRun

(***************************************************************************)
(* For any accounts, ticks, opening balance, multiplier, scale and number  *)
(* of periods: repeated and overlapping ticks, commits that land late, out *)
(* of order or without an answer, and rows that are never persisted, give  *)
(* no balance more than its periods compounded once each (yield.ts         *)
(* accrueOne, accrueAll).                                                  *)
(***************************************************************************)
THEOREM YieldPaidOnce == Yield!Spec => [](Yield!TypeOK /\ Yield!YieldNeverDouble)
BY YieldInit, YieldStep, YieldImplies, PTL DEF Yield!Spec

(***************************************************************************)
(* The same, as the run of Books states it.                                *)
(***************************************************************************)
THEOREM BooksYieldNeverDouble == BooksSpec => []YieldNeverDouble
<1> DEFINE Inv == part = "yield" => YieldInv
<1>1. BooksInit => Inv
  BY YieldInit DEF BooksInit
<1>2. Inv /\ [BooksNext]_all => Inv'
  BY PartStep, YieldStep
<1>3. Inv => YieldNeverDouble
  BY YieldImplies DEF YieldNeverDouble
<1> QED
  BY <1>1, <1>2, <1>3, PTL DEF BooksSpec

-----------------------------------------------------------------------------
(* Reports: the sort, the windows of a feed, the entries.                  *)

(* A strict total order on I, as a set of pairs. *)
StrictOrder(rel, set) ==
  /\ \A i \in set : <<i, i>> \notin rel
  /\ \A i, j, k \in set : <<i, j>> \in rel /\ <<j, k>> \in rel => <<i, k>> \in rel
  /\ \A i, j \in set : i # j => <<i, j>> \in rel \/ <<j, i>> \in rel

RankOf(rel, set, i) == Cardinality({j \in set : <<j, i>> \in rel})

(***************************************************************************)
(* The ranks of a finite strictly ordered set are 0, 1, ... up to its size, *)
(* each taken once, and in order.                                          *)
(***************************************************************************)
LEMMA RanksCount ==
  ASSUME NEW set, IsFiniteSet(set), NEW rel, StrictOrder(rel, set)
  PROVE  /\ \A i \in set : RankOf(rel, set, i) \in 0 .. Cardinality(set) - 1
         /\ \A i, j \in set : <<i, j>> \in rel <=> RankOf(rel, set, i) < RankOf(rel, set, j)
         /\ \A i, j \in set : RankOf(rel, set, i) = RankOf(rel, set, j) => i = j
         /\ \A k \in 0 .. Cardinality(set) - 1 : \E i \in set : RankOf(rel, set, i) = k
<1> DEFINE below(i) == {j \in set : <<j, i>> \in rel}
           rank(i) == RankOf(rel, set, i)
           n == Cardinality(set)
<1>1. n \in Nat /\ \A i \in set : IsFiniteSet(below(i)) /\ rank(i) \in Nat /\ rank(i) = Cardinality(below(i))
  BY FS_Subset, FS_CardinalityType DEF RankOf
<1>2. ASSUME NEW i \in set PROVE rank(i) \in 0 .. n - 1
  <2>1. below(i) \in SUBSET (set \ {i})
    BY DEF StrictOrder
  <2>2. IsFiniteSet(set \ {i}) /\ Cardinality(set \ {i}) = n - 1
    BY FS_RemoveElement
  <2>3. Cardinality(below(i)) <= n - 1
    <3> HIDE DEF below, n
    <3> QED
      BY <2>1, <2>2, FS_Subset
  <2> HIDE DEF rank, n, below
  <2> QED
    BY <1>1, <2>3
<1>3. ASSUME NEW i \in set, NEW j \in set, <<i, j>> \in rel PROVE rank(i) < rank(j)
  <2>1. i \notin below(i) /\ below(i) \cup {i} \in SUBSET below(j)
    BY <1>3 DEF StrictOrder
  <2>2. IsFiniteSet(below(i) \cup {i}) /\ Cardinality(below(i) \cup {i}) = rank(i) + 1
    <3> HIDE DEF below, rank
    <3> QED
      BY <1>1, <2>1, FS_AddElement
  <2>3. Cardinality(below(i) \cup {i}) <= Cardinality(below(j))
    <3> HIDE DEF below
    <3> QED
      BY <1>1, <2>1, FS_Subset
  <2> HIDE DEF below, rank
  <2> QED
    BY <1>1, <2>2, <2>3
<1>4. ASSUME NEW i \in set, NEW j \in set, rank(i) < rank(j) PROVE <<i, j>> \in rel
  <2>1. rank(i) \in Nat /\ rank(j) \in Nat
    BY <1>1
  <2>2. ~(rank(j) < rank(i)) /\ i # j
    <3> HIDE DEF rank
    <3> QED
      BY <1>4, <2>1
  <2> HIDE DEF rank
  <2> QED
    BY <1>3, <2>2 DEF StrictOrder
<1>5. ASSUME NEW i \in set, NEW j \in set, rank(i) = rank(j) PROVE i = j
  <2>0. rank(i) \in Nat /\ rank(j) \in Nat
    BY <1>1
  <2>1. ~(rank(i) < rank(j)) /\ ~(rank(j) < rank(i))
    <3> HIDE DEF rank
    <3> QED
      BY <1>5, <2>0
  <2> HIDE DEF rank
  <2> QED
    BY <1>3, <2>1 DEF StrictOrder
<1>6. ASSUME NEW k \in 0 .. n - 1 PROVE \E i \in set : rank(i) = k
  <2> DEFINE f == [i \in set |-> rank(i)]
  <2> HIDE DEF rank, n
  <2>1. f \in [set -> 0 .. n - 1]
    BY <1>2
  <2>2. \A i, j \in set : f[i] = f[j] => i = j
    BY <1>5
  <2>3. f \in Injection(set, 0 .. n - 1)
    <3> HIDE DEF f
    <3> QED
      BY <2>1, <2>2 DEF Injection, IsInjective
  <2>4. IsFiniteSet(0 .. n - 1) /\ Cardinality(0 .. n - 1) = n
    <3>1. 0 \in Int /\ n - 1 \in Int /\ (IF 0 > n - 1 THEN 0 ELSE (n - 1) - 0 + 1) = n
      BY <1>1
    <3> QED
      BY <3>1, FS_Interval
  <2>5. f \in Surjection(set, 0 .. n - 1)
    <3> HIDE DEF f
    <3> QED
      BY <2>3, <2>4, FS_Injection DEF n
  <2>6. \E i \in set : f[i] = k
    <3> HIDE DEF f
    <3> QED
      BY <2>5 DEF Surjection
  <2> QED
    BY <2>6
<1> QED
  BY <1>2, <1>3, <1>4, <1>5, <1>6

(***************************************************************************)
(* Where a trace comes in the order of slots and signatures, of the ones   *)
(* at the indices of a set; equal ones come in the order of the sequence.  *)
(***************************************************************************)
Precedes(s, i, j) == Audit!Before(s, Audit!compareTraces, i, j)

SortRank(s, set, i) == Cardinality({j \in set : Precedes(s, j, i)})

SortPlace(s, set, k) == CHOOSE i \in set : SortRank(s, set, i) = k - 1

(* What is sorted: traces or entries, with numbers for slot and signature. *)
Sortable(s, set) ==
  /\ set \in SUBSET Nat /\ IsFiniteSet(set)
  /\ \A i \in set : s[i].slot \in Nat /\ s[i].tx \in Nat

SortTraces(s, set) == Audit!SortedAt(s, set, Audit!compareTraces)

(* The sort takes the elements by their rank. *)
LEMMA SortByPlace ==
  ASSUME NEW s, NEW set
  PROVE  SortTraces(s, set) = [k \in 1 .. Cardinality(set) |-> s[SortPlace(s, set, k)]]
BY DEF SortTraces, Audit!SortedAt, SortPlace, SortRank, Precedes, Audit!Cardinality, Cardinality

(* The ranks of what is sorted. *)
LEMMA SortRanks ==
  ASSUME NEW s, NEW set, Sortable(s, set)
  PROVE  /\ Cardinality(set) \in Nat
         /\ \A i \in set : SortRank(s, set, i) \in 0 .. Cardinality(set) - 1
         /\ \A i, j \in set : Precedes(s, i, j) <=> SortRank(s, set, i) < SortRank(s, set, j)
         /\ \A i, j \in set : SortRank(s, set, i) = SortRank(s, set, j) => i = j
         /\ \A k \in 1 .. Cardinality(set) :
              SortPlace(s, set, k) \in set /\ SortRank(s, set, SortPlace(s, set, k)) = k - 1
<1> DEFINE rel == {p \in set \X set : Precedes(s, p[1], p[2])}
<1>1. \A i, j \in set : Precedes(s, i, j) <=>
        \/ s[i].slot < s[j].slot
        \/ s[i].slot = s[j].slot /\ s[i].tx < s[j].tx
        \/ s[i].slot = s[j].slot /\ s[i].tx = s[j].tx /\ i < j
  BY DEF Precedes, Audit!Before, Audit!compareTraces, Sortable
<1>2. \A i, j \in set : <<i, j>> \in rel <=> Precedes(s, i, j)
  OBVIOUS
<1>3. \A i \in set : ~Precedes(s, i, i)
  BY <1>1 DEF Sortable
<1>4. \A i, j, k \in set : Precedes(s, i, j) /\ Precedes(s, j, k) => Precedes(s, i, k)
  BY <1>1 DEF Sortable
<1>5. \A i, j \in set : i # j => Precedes(s, i, j) \/ Precedes(s, j, i)
  BY <1>1 DEF Sortable
<1> HIDE DEF rel
<1>6. StrictOrder(rel, set)
  BY <1>2, <1>3, <1>4, <1>5 DEF StrictOrder
<1>7. \A i \in set : RankOf(rel, set, i) = SortRank(s, set, i)
  <2> SUFFICES ASSUME NEW i \in set PROVE RankOf(rel, set, i) = SortRank(s, set, i)
    OBVIOUS
  <2>1. {j \in set : <<j, i>> \in rel} = {j \in set : Precedes(s, j, i)}
    BY <1>2
  <2> QED
    BY <2>1, Zenon DEF RankOf, SortRank
<1>8. IsFiniteSet(set) /\ Cardinality(set) \in Nat
  BY FS_CardinalityType DEF Sortable
<1>9. /\ \A i \in set : SortRank(s, set, i) \in 0 .. Cardinality(set) - 1
      /\ \A i, j \in set : <<i, j>> \in rel <=> SortRank(s, set, i) < SortRank(s, set, j)
      /\ \A i, j \in set : SortRank(s, set, i) = SortRank(s, set, j) => i = j
      /\ \A k \in 0 .. Cardinality(set) - 1 : \E i \in set : SortRank(s, set, i) = k
  BY <1>6, <1>7, <1>8, RanksCount
<1>10. ASSUME NEW k \in 1 .. Cardinality(set)
       PROVE  SortPlace(s, set, k) \in set /\ SortRank(s, set, SortPlace(s, set, k)) = k - 1
  <2>1. k - 1 \in 0 .. Cardinality(set) - 1
    BY <1>8
  <2>2. \E i \in set : SortRank(s, set, i) = k - 1
    BY <1>9, <2>1
  <2> QED
    BY <2>2 DEF SortPlace
<1> QED
  BY <1>2, <1>8, <1>9, <1>10

(* All signatures at the indices of a set differ. *)
TxOnce(s, set) == \A i, j \in set : s[i].tx = s[j].tx => i = j

(***************************************************************************)
(* The sorted sequence has the elements it is made of and no others; when  *)
(* the signatures differ it is ascending without repetition.               *)
(***************************************************************************)
LEMMA SortSound ==
  ASSUME NEW s, NEW set, Sortable(s, set), NEW vals, \A i \in set : s[i] \in vals,
         NEW z, z = SortTraces(s, set)
  PROVE  /\ z \in Seq(vals) /\ Len(z) = Cardinality(set) /\ Len(z) \in Nat
         /\ Audit!Rows(z) = {s[i] : i \in set}
         /\ TxOnce(s, set) => /\ TxOnce(z, 1 .. Len(z))
                              /\ \A a, b \in 1 .. Len(z) : a < b => Audit!compareTraces(z[a], z[b])
<1> DEFINE n == Cardinality(set)
           place(k) == SortPlace(s, set, k)
           rank(i) == SortRank(s, set, i)
<1>1. /\ n \in Nat
      /\ \A i \in set : rank(i) \in 0 .. n - 1
      /\ \A i, j \in set : Precedes(s, i, j) <=> rank(i) < rank(j)
      /\ \A i, j \in set : rank(i) = rank(j) => i = j
      /\ \A k \in 1 .. n : place(k) \in set /\ rank(place(k)) = k - 1
  BY SortRanks
<1>2. z = [k \in 1 .. n |-> s[place(k)]]
  BY SortByPlace
<1> HIDE DEF n, place, rank
<1>3. z \in [1 .. n -> vals]
  BY <1>1, <1>2
<1>4. z \in Seq(vals) /\ Len(z) = n /\ DOMAIN z = 1 .. n
  BY <1>1, <1>3
<1>5. \A k \in 1 .. n : z[k] = s[place(k)]
  BY <1>2
<1>6. Audit!Rows(z) = {s[i] : i \in set}
  <2>1. ASSUME NEW k \in 1 .. n PROVE z[k] \in {s[i] : i \in set}
    BY <1>1, <1>5
  <2>2. ASSUME NEW i \in set PROVE \E k \in 1 .. n : z[k] = s[i]
    <3>1. rank(i) \in 0 .. n - 1
      BY <1>1
    <3>2. rank(i) + 1 \in 1 .. n /\ (rank(i) + 1) - 1 = rank(i)
      BY <1>1, <3>1
    <3>3. place(rank(i) + 1) \in set /\ rank(place(rank(i) + 1)) = rank(i)
      BY <1>1, <3>2
    <3>4. place(rank(i) + 1) = i
      BY <1>1, <3>3
    <3> QED
      BY <1>5, <3>2, <3>4
  <2>3. Audit!Rows(z) = {z[k] : k \in 1 .. n}
    BY <1>4 DEF Audit!Rows
  <2> QED
    BY <2>1, <2>2, <2>3
<1>7. ASSUME TxOnce(s, set)
      PROVE  /\ TxOnce(z, 1 .. n)
             /\ \A a, b \in 1 .. n : a < b => Audit!compareTraces(z[a], z[b])
  <2>1. ASSUME NEW a \in 1 .. n, NEW b \in 1 .. n, z[a].tx = z[b].tx PROVE a = b
    <3>1. place(a) = place(b)
      BY <1>1, <1>5, <1>7, <2>1 DEF TxOnce
    <3>2. a - 1 = b - 1
      BY <1>1, <3>1
    <3> QED
      BY <1>1, <3>2
  <2>2. ASSUME NEW a \in 1 .. n, NEW b \in 1 .. n, a < b PROVE Audit!compareTraces(z[a], z[b])
    <3>1. rank(place(a)) < rank(place(b)) /\ place(a) \in set /\ place(b) \in set
      BY <1>1, <2>2
    <3>2. Precedes(s, place(a), place(b)) /\ place(a) # place(b)
      BY <1>1, <3>1
    <3>3. s[place(a)].tx # s[place(b)].tx
      BY <1>7, <3>1, <3>2 DEF TxOnce
    <3> DEFINE x == s[place(a)]
               y == s[place(b)]
    <3>a. x.slot \in Nat /\ y.slot \in Nat /\ x.tx \in Nat /\ y.tx \in Nat
      BY <3>1 DEF Sortable
    <3>b. Audit!compareTraces(x, y) \/ ~Audit!compareTraces(y, x)
      BY <3>2 DEF Precedes, Audit!Before
    <3> HIDE DEF x, y
    <3>c. x.tx # y.tx
      BY <3>3 DEF x, y
    <3>4. Audit!compareTraces(x, y)
      BY <3>a, <3>b, <3>c DEF Audit!compareTraces
    <3> QED
      BY <1>5, <3>4 DEF x, y
  <2> QED
    BY <2>1, <2>2 DEF TxOnce
<1> QED
  BY <1>1, <1>4, <1>6, <1>7 DEF n

(* The slots at the first indices are all below those at the others. *)
Apart(s, lo, hi) == \A i \in lo, j \in hi : s[i].slot < s[j].slot

Joined(whole, first, second) == whole = first \o second

(***************************************************************************)
(* Where everything in one set comes before everything in another, sorting *)
(* both together is sorting one after the other.                           *)
(***************************************************************************)
LEMMA SortSplits ==
  ASSUME NEW s, NEW set, NEW lo, NEW hi, Sortable(s, set), set = lo \cup hi, Apart(s, lo, hi)
  PROVE  Joined(SortTraces(s, set), SortTraces(s, lo), SortTraces(s, hi))
<1> USE DEF Apart
<1> DEFINE n == Cardinality(set)
           l == Cardinality(lo)
           h == Cardinality(hi)
<1>1. IsFiniteSet(set) /\ IsFiniteSet(lo) /\ IsFiniteSet(hi) /\ Sortable(s, lo) /\ Sortable(s, hi)
  BY FS_Subset DEF Sortable
<1>2. lo \cap hi = {}
  BY DEF Sortable
<1>3. l \in Nat /\ h \in Nat /\ n = l + h
  <2>1. l \in Nat /\ h \in Nat /\ Cardinality(lo \cap hi) = 0
    BY <1>1, <1>2, FS_CardinalityType, FS_EmptySet
  <2>2. Cardinality(lo \cup hi) = Cardinality(lo) + Cardinality(hi) - Cardinality(lo \cap hi)
    BY <1>1, FS_Union
  <2> QED
    BY <2>1, <2>2
<1>4. \A i \in lo, j \in hi : Precedes(s, i, j) /\ ~Precedes(s, j, i)
  BY DEF Precedes, Audit!Before, Audit!compareTraces, Sortable
<1>5. \A i \in lo : SortRank(s, set, i) = SortRank(s, lo, i)
  <2> SUFFICES ASSUME NEW i \in lo PROVE SortRank(s, set, i) = SortRank(s, lo, i)
    OBVIOUS
  <2>1. {j \in set : Precedes(s, j, i)} = {j \in lo : Precedes(s, j, i)}
    BY <1>4
  <2> QED
    BY <2>1, Zenon DEF SortRank
<1>6. ASSUME NEW i \in hi PROVE SortRank(s, set, i) = l + SortRank(s, hi, i)
  <2> DEFINE low == {j \in hi : Precedes(s, j, i)}
  <2>1. {j \in set : Precedes(s, j, i)} = lo \cup low
    BY <1>4
  <2>2. lo \cap low = {} /\ low \in SUBSET hi
    BY <1>2
  <2>3. IsFiniteSet(low) /\ Cardinality(low) \in Nat /\ Cardinality(low) = SortRank(s, hi, i)
    BY <1>1, FS_Subset, FS_CardinalityType DEF SortRank
  <2>4. SortRank(s, set, i) = Cardinality(lo \cup low)
    BY <2>1, Zenon DEF SortRank
  <2> HIDE DEF low
  <2>5. Cardinality(lo \cup low) = l + Cardinality(low) - Cardinality(lo \cap low)
    BY <1>1, <2>3, FS_Union
  <2>6. Cardinality(lo \cap low) = 0
    BY <2>2, FS_EmptySet
  <2> HIDE DEF l
  <2> QED
    BY <1>3, <2>3, <2>4, <2>5, <2>6
<1> DEFINE zl == SortTraces(s, lo)
           zh == SortTraces(s, hi)
           vals == {s[i] : i \in set}
<1>7. zl \in Seq(vals) /\ Len(zl) = l /\ zh \in Seq(vals) /\ Len(zh) = h
  BY <1>1, SortSound
<1>8. zl = [k \in 1 .. l |-> s[SortPlace(s, lo, k)]] /\ zh = [k \in 1 .. h |-> s[SortPlace(s, hi, k)]]
  BY SortByPlace
<1>9. SortTraces(s, set) = [k \in 1 .. n |-> s[SortPlace(s, set, k)]]
  BY SortByPlace
<1>a. /\ \A i, j \in set : SortRank(s, set, i) = SortRank(s, set, j) => i = j
      /\ \A k \in 1 .. n :
           SortPlace(s, set, k) \in set /\ SortRank(s, set, SortPlace(s, set, k)) = k - 1
  BY SortRanks
<1> HIDE DEF n, l, h, zl, zh, vals
<1>10. ASSUME NEW k \in 1 .. n PROVE SortPlace(s, set, k) = IF k <= l THEN SortPlace(s, lo, k)
                                                            ELSE SortPlace(s, hi, k - l)
  <2>1. /\ SortPlace(s, set, k) \in set /\ SortRank(s, set, SortPlace(s, set, k)) = k - 1
        /\ \A i, j \in set : SortRank(s, set, i) = SortRank(s, set, j) => i = j
    BY <1>a
  <2>2. CASE k <= l
    <3>1. k \in 1 .. l
      BY <1>3, <2>2
    <3>2. SortPlace(s, lo, k) \in lo /\ SortRank(s, lo, SortPlace(s, lo, k)) = k - 1
      BY <1>1, <3>1, SortRanks DEF l
    <3>3. SortRank(s, set, SortPlace(s, lo, k)) = k - 1 /\ SortPlace(s, lo, k) \in set
      BY <1>5, <3>2
    <3> QED
      BY <2>1, <2>2, <3>3
  <2>3. CASE ~(k <= l)
    <3>1. k - l \in 1 .. h /\ k - l - 1 \in Nat
      BY <1>3, <2>3
    <3>2. SortPlace(s, hi, k - l) \in hi /\ SortRank(s, hi, SortPlace(s, hi, k - l)) = k - l - 1
      BY <1>1, <3>1, SortRanks DEF h
    <3>3. SortRank(s, set, SortPlace(s, hi, k - l)) = l + (k - l - 1)
      BY <1>6, <3>2
    <3>4. l + (k - l - 1) = k - 1
      BY <1>3
    <3>5. SortRank(s, set, SortPlace(s, hi, k - l)) = k - 1 /\ SortPlace(s, hi, k - l) \in set
      BY <3>2, <3>3, <3>4
    <3> QED
      BY <2>1, <2>3, <3>5
  <2> QED
    BY <2>2, <2>3
<1>11. Len(zl \o zh) = n /\ zl \o zh = [k \in 1 .. n |-> (zl \o zh)[k]]
  <2>1. zl \o zh \in Seq(vals) /\ Len(zl \o zh) = l + h
    BY <1>3, <1>7
  <2> DEFINE zz == zl \o zh
  <2>2. zz \in Seq(vals) /\ Len(zz) = n
    BY <1>3, <2>1
  <2> HIDE DEF zz
  <2>3. zz = [k \in 1 .. n |-> zz[k]]
    BY <2>2
  <2> QED
    BY <2>2, <2>3 DEF zz
<1>12. ASSUME NEW k \in 1 .. n PROVE (zl \o zh)[k] = s[SortPlace(s, set, k)]
  <2>1. (zl \o zh)[k] = IF k <= l THEN zl[k] ELSE zh[k - l]
    BY <1>3, <1>7
  <2>2. k <= l => k \in 1 .. l /\ zl[k] = s[SortPlace(s, lo, k)]
    BY <1>3, <1>8
  <2>3. ~(k <= l) => k - l \in 1 .. h /\ zh[k - l] = s[SortPlace(s, hi, k - l)]
    BY <1>3, <1>8
  <2> QED
    BY <1>10, <2>1, <2>2, <2>3
<1>13. SortTraces(s, set) = zl \o zh
  BY <1>9, <1>11, <1>12
<1> QED
  BY <1>13 DEF zl, zh, Joined

(* The entry of a trace: its BAP is the originator. *)
EntryOf(t) == [tx |-> t.tx, slot |-> t.slot, amount |-> UsdAmount[t.tx],
               originator |-> t.bap, beneficiary |-> t.bpp]

EntrySet == {EntryOf(t) : t \in Trace}

(* Whatever the revocation cursor may give. *)
RevocationFeeds ==
  {<<>>} \cup {Audit!SortedAt(q, J, Audit!compareRevocations) : q \in Seq(Revocation), J \in SUBSET Nat}

AuditReport ==
  [pc : {"traces", "revocations", "resolve", "done", "invalid"},
   authority : Authority, since : Nat, until : Nat, kyt : Seq(Trace), seen : Nat,
   revocations : RevocationFeeds, next : Nat, entries : Seq(EntrySet), missing : SUBSET Nat]

(* The traces a report has an entry of, among those it has come to. *)
Reports(t, missing) == t.stage = "confirm" /\ Audit!shouldReport(t) /\ t.tx \notin missing

Reported(x) == {i \in 1 .. x.next - 1 : Reports(x.kyt[i], x.missing)}

ReportOk(x) ==
  /\ TxOnce(x.kyt, 1 .. Len(x.kyt))
  /\ \A i \in 1 .. Len(x.kyt) : x.authority \in {x.kyt[i].bap, x.kyt[i].bpp}
  /\ x.next \in 1 .. Len(x.kyt) + 1
  /\ x.pc \in {"traces", "revocations", "invalid"} => x.next = 1 /\ x.entries = <<>> /\ x.missing = {}
  /\ Audit!Rows(x.entries) = {EntryOf(x.kyt[i]) : i \in Reported(x)}
  /\ x.missing \subseteq {x.kyt[i].tx : i \in 1 .. x.next - 1}
  /\ TxOnce(x.entries, 1 .. Len(x.entries))
  /\ x.pc = "done" =>
       /\ x.next = Len(x.kyt) + 1
       /\ \A a, b \in 1 .. Len(x.entries) : a < b => Audit!compareTraces(x.entries[a], x.entries[b])

(***************************************************************************)
(* The invariant: a transaction is in the table once, and a report has the *)
(* entries of the traces it has come to, each once.                        *)
(***************************************************************************)
AuditInv ==
  /\ d_kyt_events \in Seq(Trace)
  /\ TxOnce(d_kyt_events, 1 .. Len(d_kyt_events))
  /\ d_revocation_events \in Seq(Revocation)
  /\ d_directory \subseteq Authority
  /\ d_resolved \subseteq DOMAIN UsdAmount
  /\ d_reports \in [Report -> {Audit!Idle} \cup AuditReport]
  /\ \A r \in Report : d_reports[r] \in AuditReport => ReportOk(d_reports[r])

(* Traces and their entries can be sorted. *)
LEMMA TracesSortable ==
  /\ \A q \in Seq(Trace) : \A J \in SUBSET (1 .. Len(q)) : Sortable(q, J)
  /\ \A q \in Seq(EntrySet) : Sortable(q, 1 .. Len(q))
<1>1. \A t \in Trace : t.slot \in Nat /\ t.tx \in Nat
  BY AuditAssumption DEF Audit!AuditAssumption
<1>2. \A e \in EntrySet : e.slot \in Nat /\ e.tx \in Nat
  BY <1>1 DEF EntrySet, EntryOf
<1>3. ASSUME NEW n \in Nat, NEW J \in SUBSET (1 .. n) PROVE IsFiniteSet(J) /\ J \in SUBSET Nat
  <2>1. IsFiniteSet(1 .. n)
    <3>1. 1 \in Int /\ n \in Int
      OBVIOUS
    <3> QED
      BY <3>1, FS_Interval
  <2>2. IsFiniteSet(J)
    BY <2>1, FS_Subset
  <2>3. 1 .. n \subseteq Nat
    OBVIOUS
  <2> QED
    BY <2>2, <2>3
<1>4. ASSUME NEW q \in Seq(Trace), NEW J \in SUBSET (1 .. Len(q)) PROVE Sortable(q, J)
  <2>1. Len(q) \in Nat /\ \A i \in 1 .. Len(q) : q[i] \in Trace
    OBVIOUS
  <2> QED
    BY <1>1, <1>3, <2>1 DEF Sortable
<1>5. ASSUME NEW q \in Seq(EntrySet) PROVE Sortable(q, 1 .. Len(q))
  <2>1. Len(q) \in Nat /\ \A i \in 1 .. Len(q) : q[i] \in EntrySet
    OBVIOUS
  <2> QED
    BY <1>2, <1>3, <2>1 DEF Sortable
<1> QED
  BY <1>4, <1>5

(* The indexer starts in the invariant. *)
LEMMA AuditInit == Audit!Init => AuditInv
<1> SUFFICES ASSUME Audit!Init PROVE AuditInv
  OBVIOUS
<1>1. \A r \in Report : d_reports[r] = Audit!Idle /\ Audit!Idle \notin AuditReport
  BY DEF Audit!Init, Audit!Idle, AuditReport
<1>2. /\ d_kyt_events \in Seq(Trace) /\ Len(d_kyt_events) = 0
      /\ d_revocation_events \in Seq(Revocation)
  BY DEF Audit!Init
<1>3. TxOnce(d_kyt_events, 1 .. Len(d_kyt_events))
  BY <1>2 DEF TxOnce
<1> QED
  BY <1>1, <1>2, <1>3, AuditAssumption DEF AuditInv, Audit!Init, Audit!AuditAssumption

(* A report that has only begun has no entries and nothing missing. *)
LEMMA EmptyReportOk ==
  ASSUME NEW x \in AuditReport, TxOnce(x.kyt, 1 .. Len(x.kyt)),
         \A i \in 1 .. Len(x.kyt) : x.authority \in {x.kyt[i].bap, x.kyt[i].bpp},
         x.next = 1, x.entries = <<>>, x.missing = {}, x.pc # "done"
  PROVE  ReportOk(x)
<1>1. Reported(x) = {} /\ Len(x.kyt) \in Nat
  BY DEF Reported, AuditReport
<1>2. Audit!Rows(x.entries) = {} /\ Len(x.entries) = 0
  BY DEF Audit!Rows
<1> QED
  BY <1>1, <1>2 DEF ReportOk, TxOnce

(* ingestTrace: the primary key keeps a transaction from being there twice. *)
LEMMA IngestKeeps ==
  ASSUME AuditInv, NEW t \in Trace, Audit!ingestTrace(t)
  PROVE  AuditInv'
<1> USE DEF AuditInv
<1>1. UNCHANGED <<d_revocation_events, d_directory, d_resolved, d_reports>>
  BY DEF Audit!ingestTrace
<1>2. CASE \E w \in Audit!Rows(d_kyt_events) : w.tx = t.tx
  BY <1>1, <1>2 DEF Audit!ingestTrace
<1>3. CASE ~ \E w \in Audit!Rows(d_kyt_events) : w.tx = t.tx
  <2> DEFINE q == d_kyt_events
             n == Len(q)
  <2>1. d_kyt_events' = Append(q, t)
    BY <1>3 DEF Audit!ingestTrace
  <2>2. \A i \in 1 .. n : q[i].tx # t.tx
    BY <1>3 DEF Audit!Rows
  <2>3. /\ d_kyt_events' \in Seq(Trace) /\ Len(d_kyt_events') = n + 1 /\ n \in Nat
        /\ d_kyt_events'[n + 1] = t /\ \A i \in 1 .. n : d_kyt_events'[i] = q[i]
    BY <2>1
  <2>4. TxOnce(q, 1 .. n)
    OBVIOUS
  <2> HIDE DEF q, n
  <2>5. TxOnce(d_kyt_events', 1 .. Len(d_kyt_events'))
    BY <2>2, <2>3, <2>4 DEF TxOnce
  <2> QED
    BY <1>1, <2>3, <2>5
<1> QED
  BY <1>2, <1>3

(* What tracesForAuthority reads: rows of that authority, each transaction once. *)
LEMMA FeedOk ==
  ASSUME AuditInv, NEW a, NEW b, NEW c, NEW q, q = Audit!tracesForAuthority(a, b, c)
  PROVE  /\ q = SortTraces(d_kyt_events, Audit!Selected(a, b, c))
         /\ Sortable(d_kyt_events, Audit!Selected(a, b, c))
         /\ q \in Seq(Trace) /\ TxOnce(q, 1 .. Len(q))
         /\ \A i \in 1 .. Len(q) : a \in {q[i].bap, q[i].bpp}
         /\ Audit!Rows(q) = {d_kyt_events[i] : i \in Audit!Selected(a, b, c)}
<1> DEFINE J == Audit!Selected(a, b, c)
           w == d_kyt_events
<1>1. /\ J \in SUBSET (1 .. Len(w)) /\ w \in Seq(Trace) /\ TxOnce(w, 1 .. Len(w))
      /\ \A i \in J : a \in {w[i].bap, w[i].bpp}
  BY DEF AuditInv, Audit!Selected
<1>2. q = SortTraces(w, J)
  BY DEF Audit!tracesForAuthority, SortTraces
<1> HIDE DEF J, w
<1>3. Sortable(w, J)
  BY <1>1, TracesSortable
<1>4. TxOnce(w, J) /\ \A i \in J : w[i] \in Trace
  BY <1>1 DEF TxOnce
<1>5. /\ q \in Seq(Trace) /\ Audit!Rows(q) = {w[i] : i \in J} /\ TxOnce(q, 1 .. Len(q))
  BY <1>2, <1>3, <1>4, SortSound
<1>6. \A i \in 1 .. Len(q) : q[i] \in Audit!Rows(q)
  BY <1>5 DEF Audit!Rows
<1>7. \A i \in 1 .. Len(q) : a \in {q[i].bap, q[i].bpp}
  BY <1>1, <1>5, <1>6
<1> QED
  BY <1>2, <1>3, <1>5, <1>7 DEF J, w

(***************************************************************************)
(* One trace resolved: it is counted as missing, or entered, or is none to *)
(* report.  In each case the entries are those of the traces come to.      *)
(***************************************************************************)
LEMMA ResolveOk ==
  ASSUME NEW x \in AuditReport, ReportOk(x), x.pc = "resolve", x.next <= Len(x.kyt),
         NEW t, t = x.kyt[x.next],
         NEW y \in AuditReport, y.pc = "resolve", y.authority = x.authority, y.kyt = x.kyt,
         y.next = x.next + 1,
         \/ /\ t.stage = "confirm"
            /\ y.missing = x.missing \cup {t.tx} /\ y.entries = x.entries
         \/ /\ t.stage = "confirm" /\ Audit!shouldReport(t)
            /\ y.missing = x.missing /\ y.entries = Append(x.entries, EntryOf(t))
         \/ /\ ~(t.stage = "confirm" /\ Audit!shouldReport(t))
            /\ y.missing = x.missing /\ y.entries = x.entries
  PROVE  ReportOk(y)
<1> DEFINE n == x.next
           w == x.kyt
           e == x.entries
           bad == x.missing
<1>1. /\ n \in Nat /\ Len(w) \in Nat /\ n \in 1 .. Len(w) /\ e \in Seq(EntrySet) /\ t = w[n]
      /\ TxOnce(w, 1 .. Len(w)) /\ TxOnce(e, 1 .. Len(e))
      /\ bad \subseteq {w[i].tx : i \in 1 .. n - 1}
      /\ Audit!Rows(e) = {EntryOf(w[i]) : i \in Reported(x)}
      /\ Reported(x) = {i \in 1 .. n - 1 : Reports(w[i], bad)}
      /\ Reported(y) = {i \in 1 .. n : Reports(w[i], y.missing)}
      /\ \A i \in 1 .. Len(w) : y.authority \in {w[i].bap, w[i].bpp}
  BY DEF AuditReport, ReportOk, Reported
<1>2. y.kyt = w /\ y.next = n + 1 /\ Len(e) \in Nat
  BY <1>1
<1> DEFINE same == Reported(x)
<1> HIDE DEF n, w, e, bad, same
<1>3. \A i \in 1 .. n - 1 : w[i].tx # t.tx
  BY <1>1 DEF TxOnce
<1>4. t.tx \notin bad
  BY <1>1, <1>3
<1>5. same = {i \in 1 .. n - 1 : Reports(w[i], bad)} /\ Audit!Rows(e) = {EntryOf(w[i]) : i \in same}
  BY <1>1 DEF same
<1>6. /\ Audit!Rows(y.entries) = {EntryOf(w[i]) : i \in Reported(y)}
      /\ y.missing \subseteq {w[i].tx : i \in 1 .. n}
      /\ TxOnce(y.entries, 1 .. Len(y.entries))
  <2>1. CASE /\ t.stage = "confirm" /\ y.missing = bad \cup {t.tx} /\ y.entries = e
    <3>1. \A i \in 1 .. n - 1 : Reports(w[i], y.missing) <=> Reports(w[i], bad)
      BY <1>3, <2>1 DEF Reports
    <3>2. ~Reports(w[n], y.missing)
      BY <1>1, <2>1 DEF Reports
    <3>3. Reported(y) = same
      BY <1>1, <1>5, <3>1, <3>2
    <3>4. y.missing \subseteq {w[i].tx : i \in 1 .. n}
      BY <1>1, <2>1
    <3> QED
      BY <1>1, <1>5, <2>1, <3>3, <3>4
  <2>2. CASE /\ t.stage = "confirm" /\ Audit!shouldReport(t)
             /\ y.missing = bad /\ y.entries = Append(e, EntryOf(t))
    <3>1. Reports(w[n], y.missing)
      BY <1>1, <1>4, <2>2 DEF Reports
    <3>2. Reported(y) = same \cup {n}
      BY <1>1, <1>5, <2>2, <3>1
    <3> DEFINE z == y.entries
               k == Len(e)
    <3>3. /\ Len(z) = k + 1 /\ z[k + 1] = EntryOf(t) /\ DOMAIN z = 1 .. k + 1 /\ DOMAIN e = 1 .. k
          /\ \A i \in 1 .. k : z[i] = e[i]
      BY <1>1, <2>2
    <3>4. Audit!Rows(z) = Audit!Rows(e) \cup {EntryOf(t)}
      <4> HIDE DEF z, k
      <4> QED
        BY <1>2, <3>3 DEF Audit!Rows, k
    <3>5. \A i \in 1 .. k : e[i].tx # EntryOf(t).tx
      <4>1. ASSUME NEW i \in 1 .. k PROVE e[i].tx # EntryOf(t).tx
        <5>1. PICK j \in same : e[i] = EntryOf(w[j])
          BY <1>5, <3>3 DEF Audit!Rows
        <5> QED
          BY <1>3, <1>5, <5>1 DEF EntryOf
      <4> QED
        BY <4>1
    <3>6. TxOnce(z, 1 .. Len(z))
      <4>1. k \in Nat /\ TxOnce(e, 1 .. k)
        BY <1>1
      <4> HIDE DEF z, k
      <4> QED
        BY <4>1, <3>3, <3>5 DEF TxOnce
    <3>7. y.missing \subseteq {w[i].tx : i \in 1 .. n}
      BY <1>1, <2>2
    <3>8. Audit!Rows(z) = {EntryOf(w[i]) : i \in Reported(y)}
      BY <1>1, <1>5, <3>2, <3>4
    <3> QED
      BY <3>6, <3>7, <3>8
  <2>3. CASE /\ ~(t.stage = "confirm" /\ Audit!shouldReport(t))
             /\ y.missing = bad /\ y.entries = e
    <3>1. ~Reports(w[n], y.missing)
      BY <1>1, <2>3 DEF Reports
    <3>2. Reported(y) = same
      BY <1>1, <1>5, <2>3, <3>1
    <3>3. y.missing \subseteq {w[i].tx : i \in 1 .. n}
      BY <1>1, <2>3
    <3> QED
      BY <1>1, <1>5, <2>3, <3>2, <3>3
  <2> QED
    BY <2>1, <2>2, <2>3 DEF bad, e
<1>7. y.next \in 1 .. Len(y.kyt) + 1 /\ y.next - 1 = n
  BY <1>1, <1>2
<1> QED
  BY <1>1, <1>2, <1>6, <1>7 DEF ReportOk

(* The last trace done, the report sorts its entries. *)
LEMMA FinishOk ==
  ASSUME NEW x \in AuditReport, ReportOk(x), x.next > Len(x.kyt),
         NEW y, y = [x EXCEPT !.pc = "done", !.entries = Audit!SortedAt(x.entries, DOMAIN x.entries, Audit!compareTraces)]
  PROVE  y \in AuditReport /\ ReportOk(y)
<1> DEFINE e == x.entries
           z == SortTraces(e, 1 .. Len(e))
<1>1. e \in Seq(EntrySet) /\ TxOnce(e, 1 .. Len(e)) /\ Len(x.kyt) \in Nat /\ x.next \in Nat
  BY DEF AuditReport, ReportOk
<1>2. DOMAIN e = 1 .. Len(e) /\ \A i \in 1 .. Len(e) : e[i] \in EntrySet
  BY <1>1
<1>3. y = [x EXCEPT !.pc = "done", !.entries = z]
  BY <1>2 DEF SortTraces
<1>4. Sortable(e, 1 .. Len(e))
  BY <1>1, TracesSortable
<1> HIDE DEF z, e
<1>5. z = SortTraces(e, 1 .. Len(e))
  BY DEF z
<1>6. /\ z \in Seq(EntrySet) /\ Audit!Rows(z) = {e[i] : i \in 1 .. Len(e)}
      /\ TxOnce(z, 1 .. Len(z))
      /\ \A a, b \in 1 .. Len(z) : a < b => Audit!compareTraces(z[a], z[b])
  BY <1>1, <1>2, <1>4, <1>5, SortSound
<1>7. Audit!Rows(z) = Audit!Rows(e)
  BY <1>2, <1>6 DEF Audit!Rows
<1>8. /\ y \in AuditReport
      /\ y.pc = "done" /\ y.kyt = x.kyt /\ y.authority = x.authority /\ y.next = x.next
      /\ y.missing = x.missing /\ y.entries = z
  BY <1>3, <1>6 DEF AuditReport
<1>9. Reported(y) = Reported(x)
  BY <1>8 DEF Reported
<1>10. x.next = Len(x.kyt) + 1
  BY <1>1 DEF ReportOk
<1>11. Audit!Rows(e) = {EntryOf(x.kyt[i]) : i \in Reported(x)}
  BY DEF ReportOk, e
<1>12. Audit!Rows(y.entries) = {EntryOf(y.kyt[i]) : i \in Reported(y)}
  BY <1>7, <1>8, <1>9, <1>11
<1>13. /\ TxOnce(y.kyt, 1 .. Len(y.kyt))
       /\ \A i \in 1 .. Len(y.kyt) : y.authority \in {y.kyt[i].bap, y.kyt[i].bpp}
       /\ y.next \in 1 .. Len(y.kyt) + 1
       /\ y.missing \subseteq {y.kyt[i].tx : i \in 1 .. y.next - 1}
  BY <1>8 DEF ReportOk
<1>14. /\ TxOnce(y.entries, 1 .. Len(y.entries))
       /\ \A a, b \in 1 .. Len(y.entries) : a < b => Audit!compareTraces(y.entries[a], y.entries[b])
  BY <1>6, <1>8
<1> QED
  BY <1>8, <1>10, <1>12, <1>13, <1>14 DEF ReportOk

(* A step that changes one report keeps the invariant when it leaves a good one. *)
LEMMA ReportKeeps ==
  ASSUME AuditInv, NEW r \in Report, NEW y, y \in AuditReport, ReportOk(y),
         d_reports' = [d_reports EXCEPT ![r] = y],
         UNCHANGED <<d_kyt_events, d_revocation_events, d_directory, d_resolved>>
  PROVE  AuditInv'
<1>1. d_reports' \in [Report -> {Audit!Idle} \cup AuditReport]
  BY DEF AuditInv
<1>2. \A q \in Report : d_reports'[q] \in AuditReport => ReportOk(d_reports'[q])
  BY DEF AuditInv
<1> QED
  BY <1>1, <1>2 DEF AuditInv

(* A report that has begun is a good one. *)
LEMMA ReportBegun ==
  ASSUME AuditInv, NEW r \in Report, d_reports[r].pc # "idle"
  PROVE  /\ d_reports \in [Report -> {Audit!Idle} \cup AuditReport]
         /\ d_reports[r] \in AuditReport /\ ReportOk(d_reports[r])
<1>1. d_reports[r] # Audit!Idle
  BY DEF Audit!Idle
<1> QED
  BY <1>1 DEF AuditInv

(* Start. *)
LEMMA StartKeeps ==
  ASSUME AuditInv, NEW r \in Report, NEW a \in Authority, NEW w \in Window,
         Audit!Start(r, a, w[1], w[2])
  PROVE  AuditInv'
<1> DEFINE y == [pc |-> IF w[1] > w[2] THEN "invalid" ELSE "traces",
                 authority |-> a, since |-> w[1], until |-> w[2],
                 kyt |-> <<>>, seen |-> 0, revocations |-> <<>>, next |-> 1, entries |-> <<>>,
                 missing |-> {}]
<1>1. /\ d_reports' = [d_reports EXCEPT ![r] = y]
      /\ UNCHANGED <<d_kyt_events, d_revocation_events, d_directory, d_resolved>>
  BY DEF Audit!Start
<1>2. w[1] \in Nat /\ w[2] \in Nat
  BY AuditAssumption DEF Audit!AuditAssumption
<1>3. <<>> \in Seq(Trace) /\ <<>> \in Seq(EntrySet) /\ <<>> \in RevocationFeeds
  BY DEF RevocationFeeds
<1>4. y.pc \in {"invalid", "traces"}
  OBVIOUS
<1>5. y \in AuditReport
  BY <1>2, <1>3, <1>4 DEF AuditReport
<1>6. /\ y.kyt = <<>> /\ y.next = 1 /\ y.entries = <<>> /\ y.missing = {} /\ y.pc # "done"
  BY <1>4
<1> HIDE DEF y
<1>7. Len(y.kyt) = 0
  BY <1>6
<1>8. ReportOk(y)
  BY <1>5, <1>6, <1>7, EmptyReportOk DEF TxOnce
<1> QED
  BY <1>1, <1>5, <1>8, ReportKeeps

(* The trace cursor. *)
LEMMA ReadTracesKeeps ==
  ASSUME AuditInv, NEW r \in Report, Audit!ReadTraces(r)
  PROVE  AuditInv'
<1> DEFINE x == d_reports[r]
           feed == Audit!tracesForAuthority(x.authority, x.since, x.until)
           n == Len(d_kyt_events)
           y == [x EXCEPT !.seen = n, !.kyt = feed, !.pc = "revocations"]
<1>0. n \in Nat
  BY DEF AuditInv
<1>1. x \in AuditReport /\ ReportOk(x) /\ x.pc = "traces" /\ d_reports \in [Report -> {Audit!Idle} \cup AuditReport]
  BY ReportBegun DEF Audit!ReadTraces
<1>2. /\ d_reports' = [d_reports EXCEPT ![r] = y]
      /\ UNCHANGED <<d_kyt_events, d_revocation_events, d_directory, d_resolved>>
  BY <1>1 DEF Audit!ReadTraces
<1>3. /\ feed \in Seq(Trace) /\ TxOnce(feed, 1 .. Len(feed))
      /\ \A i \in 1 .. Len(feed) : x.authority \in {feed[i].bap, feed[i].bpp}
  BY FeedOk
<1> HIDE DEF feed, x, n
<1>4. /\ y \in AuditReport /\ y.kyt = feed /\ y.authority = x.authority /\ y.pc = "revocations"
      /\ y.next = x.next /\ y.entries = x.entries /\ y.missing = x.missing
  BY <1>0, <1>1, <1>3 DEF AuditReport
<1>5. y.next = 1 /\ y.entries = <<>> /\ y.missing = {}
  BY <1>1, <1>4 DEF ReportOk
<1> HIDE DEF y
<1>6. ReportOk(y)
  BY <1>3, <1>4, <1>5, EmptyReportOk
<1> QED
  BY <1>2, <1>4, <1>6, ReportKeeps

(* The revocation cursor. *)
LEMMA ReadRevocationsKeeps ==
  ASSUME AuditInv, NEW r \in Report, Audit!ReadRevocations(r)
  PROVE  AuditInv'
<1> DEFINE x == d_reports[r]
           feed == Audit!revocationsForCredentialIssuers(x.since, x.until)
           y == [x EXCEPT !.revocations = feed, !.pc = "resolve"]
<1>1. x \in AuditReport /\ ReportOk(x) /\ x.pc = "revocations" /\ d_reports \in [Report -> {Audit!Idle} \cup AuditReport]
  BY ReportBegun DEF Audit!ReadRevocations
<1>2. /\ d_reports' = [d_reports EXCEPT ![r] = y]
      /\ UNCHANGED <<d_kyt_events, d_revocation_events, d_directory, d_resolved>>
  BY <1>1 DEF Audit!ReadRevocations
<1>3. feed \in RevocationFeeds
  <2> DEFINE J == {i \in DOMAIN d_revocation_events :
                     Audit!withinBounds(d_revocation_events[i].slot, x.since, x.until)}
  <2>1. d_revocation_events \in Seq(Revocation)
    BY DEF AuditInv
  <2>2. J \in SUBSET Nat
    BY <2>1
  <2>3. feed = Audit!SortedAt(d_revocation_events, J, Audit!compareRevocations)
    BY DEF Audit!revocationsForCredentialIssuers
  <2> HIDE DEF J, feed, x
  <2> QED
    BY <2>1, <2>2, <2>3 DEF RevocationFeeds
<1> HIDE DEF feed, x
<1>4. /\ y \in AuditReport /\ y.kyt = x.kyt /\ y.authority = x.authority /\ y.pc = "resolve"
      /\ y.next = x.next /\ y.entries = x.entries /\ y.missing = x.missing
  BY <1>1, <1>3 DEF AuditReport
<1>5. y.next = 1 /\ y.entries = <<>> /\ y.missing = {}
  BY <1>1, <1>4 DEF ReportOk
<1>6. /\ TxOnce(y.kyt, 1 .. Len(y.kyt))
      /\ \A i \in 1 .. Len(y.kyt) : y.authority \in {y.kyt[i].bap, y.kyt[i].bpp}
  BY <1>1, <1>4 DEF ReportOk
<1> HIDE DEF y
<1>7. ReportOk(y)
  BY <1>4, <1>5, <1>6, EmptyReportOk
<1> QED
  BY <1>2, <1>4, <1>7, ReportKeeps

(* The entry the report makes: the authority is one of the two parties. *)
LEMMA EntryIs ==
  ASSUME NEW r, NEW t, d_reports[r].authority \in {t.bap, t.bpp}
  PROVE  Audit!Entry(r, t) = EntryOf(t)
BY DEF Audit!Entry, Audit!Originator, Audit!Beneficiary, EntryOf

(* One settled trace. *)
LEMMA ResolveKeeps ==
  ASSUME AuditInv, NEW r \in Report, Audit!Resolve(r)
  PROVE  AuditInv'
<1> DEFINE x == d_reports[r]
           t == x.kyt[x.next]
           found == {Audit!Originator(r, t), Audit!Beneficiary(r, t)} \subseteq d_directory /\ t.tx \in d_resolved
           bad == IF t.stage = "confirm" /\ ~found THEN x.missing \cup {t.tx} ELSE x.missing
           rows == IF t.stage = "confirm" /\ found /\ Audit!shouldReport(t)
                     THEN Append(x.entries, Audit!Entry(r, t)) ELSE x.entries
           y == [x EXCEPT !.next = x.next + 1, !.missing = bad, !.entries = rows]
<1>1. /\ x \in AuditReport /\ ReportOk(x) /\ x.pc = "resolve" /\ x.next <= Len(x.kyt)
      /\ d_reports \in [Report -> {Audit!Idle} \cup AuditReport]
  BY ReportBegun DEF Audit!Resolve
<1>2. /\ d_reports' = [d_reports EXCEPT ![r] = y]
      /\ UNCHANGED <<d_kyt_events, d_revocation_events, d_directory, d_resolved>>
  BY <1>1 DEF Audit!Resolve
<1>3. x.next \in 1 .. Len(x.kyt) /\ x.next \in Nat /\ x.kyt \in Seq(Trace) /\ Len(x.kyt) \in Nat
  BY <1>1 DEF AuditReport, ReportOk
<1>4. t \in Trace
  BY <1>3
<1>5. x.authority \in {t.bap, t.bpp}
  BY <1>1, <1>3 DEF ReportOk
<1>6. Audit!Entry(r, t) = EntryOf(t)
  BY <1>5, EntryIs
<1>7. \/ t.stage = "confirm" /\ bad = x.missing \cup {t.tx} /\ rows = x.entries
      \/ /\ t.stage = "confirm" /\ Audit!shouldReport(t)
         /\ bad = x.missing /\ rows = Append(x.entries, EntryOf(t))
      \/ ~(t.stage = "confirm" /\ Audit!shouldReport(t)) /\ bad = x.missing /\ rows = x.entries
  BY <1>6, Zenon
<1>8. t.tx \in Nat /\ EntryOf(t) \in EntrySet
  BY <1>4, AuditAssumption DEF Audit!AuditAssumption, EntrySet
<1>9. t = x.kyt[x.next]
  OBVIOUS
<1> HIDE DEF bad, rows, t, x
<1>10. bad \in SUBSET Nat /\ rows \in Seq(EntrySet)
  <2>1. x.missing \in SUBSET Nat /\ x.entries \in Seq(EntrySet)
    BY <1>1 DEF AuditReport
  <2>2. Append(x.entries, EntryOf(t)) \in Seq(EntrySet) /\ x.missing \cup {t.tx} \in SUBSET Nat
    BY <1>8, <2>1
  <2>3. bad \in {x.missing, x.missing \cup {t.tx}} /\ rows \in {x.entries, Append(x.entries, EntryOf(t))}
    BY <1>7, Zenon
  <2> QED
    BY <2>1, <2>2, <2>3
<1>11. /\ y \in AuditReport /\ y.kyt = x.kyt /\ y.authority = x.authority /\ y.pc = "resolve"
       /\ y.next = x.next + 1 /\ y.entries = rows /\ y.missing = bad
  <2>1. PICK k \in Nat : k = x.next + 1
    BY <1>3
  <2>2. y = [x EXCEPT !.next = k, !.missing = bad, !.entries = rows]
    BY <2>1, Zenon
  <2> HIDE DEF y
  <2>3. /\ y \in AuditReport /\ y.kyt = x.kyt /\ y.authority = x.authority /\ y.pc = x.pc
        /\ y.next = k /\ y.entries = rows /\ y.missing = bad
    BY <1>1, <1>10, <2>1, <2>2 DEF AuditReport
  <2> QED
    BY <1>1, <2>1, <2>3
<1> HIDE DEF y
<1>12. ReportOk(y)
  BY <1>1, <1>7, <1>9, <1>11, ResolveOk
<1> QED
  BY <1>2, <1>11, <1>12, ReportKeeps

(* The report returned. *)
LEMMA FinishKeeps ==
  ASSUME AuditInv, NEW r \in Report, Audit!Finish(r)
  PROVE  AuditInv'
<1> DEFINE x == d_reports[r]
           y == [x EXCEPT !.pc = "done",
                          !.entries = Audit!SortedAt(x.entries, DOMAIN x.entries, Audit!compareTraces)]
<1>1. /\ x \in AuditReport /\ ReportOk(x) /\ x.next > Len(x.kyt)
      /\ d_reports \in [Report -> {Audit!Idle} \cup AuditReport]
  BY ReportBegun DEF Audit!Finish
<1>2. /\ d_reports' = [d_reports EXCEPT ![r] = y]
      /\ UNCHANGED <<d_kyt_events, d_revocation_events, d_directory, d_resolved>>
  BY <1>1 DEF Audit!Finish
<1>3. y \in AuditReport /\ ReportOk(y)
  BY <1>1, FinishOk
<1> HIDE DEF y
<1> QED
  BY <1>2, <1>3, ReportKeeps

(* Every step of the indexer keeps the invariant. *)
LEMMA AuditStep == AuditInv /\ [Audit!Next]_Audit!vars => AuditInv'
<1> SUFFICES ASSUME AuditInv, [Audit!Next]_Audit!vars PROVE AuditInv'
  OBVIOUS
<1>1. ASSUME NEW v \in Revocation, Audit!ingestRevocation(v) PROVE AuditInv'
  <2>1. UNCHANGED <<d_kyt_events, d_directory, d_resolved, d_reports>>
    BY <1>1 DEF Audit!ingestRevocation
  <2>2. d_revocation_events \in Seq(Revocation)
    BY DEF AuditInv
  <2>3. d_revocation_events' = d_revocation_events \/ d_revocation_events' = Append(d_revocation_events, v)
    BY <1>1 DEF Audit!ingestRevocation
  <2>4. d_revocation_events' \in Seq(Revocation)
    BY <2>2, <2>3
  <2> QED
    BY <2>1, <2>4 DEF AuditInv
<1>2. ASSUME NEW a \in Authority, Audit!LearnParty(a) PROVE AuditInv'
  BY <1>2 DEF Audit!LearnParty, AuditInv
<1>3. ASSUME NEW tx \in DOMAIN UsdAmount, Audit!LearnAmount(tx) PROVE AuditInv'
  BY <1>3 DEF Audit!LearnAmount, AuditInv
<1>4. CASE UNCHANGED Audit!vars
  BY <1>4 DEF Audit!vars, AuditInv
<1> QED
  BY <1>1, <1>2, <1>3, <1>4, IngestKeeps, StartKeeps, ReadTracesKeeps, ReadRevocationsKeeps,
     ResolveKeeps, FinishKeeps DEF Audit!Next

(***************************************************************************)
(* The feed of x, against the table: the rows its snapshot had, those of   *)
(* its authority in its window.  Rows are only added to the table, behind  *)
(* the snapshot.                                                           *)
(***************************************************************************)
FeedFrom(x, table) ==
  /\ x.seen \in 0 .. Len(table)
  /\ Audit!Rows(x.kyt) =
       {table[i] : i \in {j \in 1 .. x.seen :
                            /\ x.authority \in {table[j].bap, table[j].bpp}
                            /\ Audit!withinBounds(table[j].slot, x.since, x.until)}}

FeedSeen ==
  \A r \in Report :
    d_reports[r].pc \in {"revocations", "resolve", "done"} => FeedFrom(d_reports[r], d_kyt_events)

SameFeed(x, y) ==
  /\ y.authority = x.authority /\ y.since = x.since /\ y.until = x.until
  /\ y.kyt = x.kyt /\ y.seen = x.seen

(* A step of one report that leaves its feed alone. *)
LEMMA FeedKept ==
  ASSUME AuditInv, FeedSeen, NEW r \in Report, NEW y, d_reports' = [d_reports EXCEPT ![r] = y],
         d_kyt_events' = d_kyt_events,
         y.pc \in {"revocations", "resolve", "done"} =>
           /\ d_reports[r].pc \in {"revocations", "resolve", "done"}
           /\ SameFeed(d_reports[r], y)
  PROVE  FeedSeen'
<1>1. DOMAIN d_reports = Report
  BY DEF AuditInv
<1> SUFFICES ASSUME NEW q \in Report, d_reports'[q].pc \in {"revocations", "resolve", "done"}
             PROVE  FeedFrom(d_reports'[q], d_kyt_events)
  BY DEF FeedSeen
<1>2. CASE q = r
  <2>1. d_reports'[q] = y
    BY <1>1, <1>2
  <2>2. FeedFrom(d_reports[r], d_kyt_events) /\ SameFeed(d_reports[r], y)
    BY <2>1 DEF FeedSeen
  <2>3. FeedFrom(y, d_kyt_events)
    BY <2>2, Zenon DEF FeedFrom, SameFeed
  <2> QED
    BY <2>1, <2>3
<1>3. CASE q # r
  BY <1>1, <1>3 DEF FeedSeen
<1> QED
  BY <1>2, <1>3

(* A report reads the rows that are there, and no row is changed later. *)
LEMMA FeedStep == AuditInv /\ FeedSeen /\ [Audit!Next]_Audit!vars => FeedSeen'
<1> SUFFICES ASSUME AuditInv, FeedSeen, [Audit!Next]_Audit!vars PROVE FeedSeen'
  OBVIOUS
<1>1. ASSUME NEW t \in Trace, Audit!ingestTrace(t) PROVE FeedSeen'
  <2> SUFFICES ASSUME NEW r \in Report, d_reports[r].pc \in {"revocations", "resolve", "done"}
               PROVE  FeedFrom(d_reports[r], d_kyt_events')
    BY <1>1 DEF FeedSeen, Audit!ingestTrace
  <2> DEFINE x == d_reports[r]
             w == d_kyt_events
             v == d_kyt_events'
  <2>1. FeedFrom(x, w) /\ w \in Seq(Trace)
    BY DEF FeedSeen, AuditInv
  <2>2. v = w \/ v = Append(w, t)
    BY <1>1 DEF Audit!ingestTrace
  <2>3. /\ Len(w) \in Nat /\ Len(v) \in Nat /\ Len(w) <= Len(v)
        /\ \A i \in 1 .. Len(w) : v[i] = w[i]
    BY <2>1, <2>2
  <2> HIDE DEF w, v, x
  <2>4. x.seen \in 0 .. Len(v) /\ \A i \in 1 .. x.seen : v[i] = w[i]
    BY <2>1, <2>3 DEF FeedFrom
  <2>5. FeedFrom(x, v)
    BY <2>1, <2>4 DEF FeedFrom
  <2> QED
    BY <2>5 DEF x, v
<1>2. ASSUME NEW r \in Report, NEW a \in Authority, NEW w \in Window,
             Audit!Start(r, a, w[1], w[2])
      PROVE  FeedSeen'
  <2> DEFINE y == [pc |-> IF w[1] > w[2] THEN "invalid" ELSE "traces",
                   authority |-> a, since |-> w[1], until |-> w[2],
                   kyt |-> <<>>, seen |-> 0, revocations |-> <<>>, next |-> 1, entries |-> <<>>,
                   missing |-> {}]
  <2>1. d_reports' = [d_reports EXCEPT ![r] = y] /\ d_kyt_events' = d_kyt_events
    BY <1>2 DEF Audit!Start
  <2>2. y.pc \notin {"revocations", "resolve", "done"}
    OBVIOUS
  <2> HIDE DEF y
  <2> QED
    BY <2>1, <2>2, FeedKept
<1>3. ASSUME NEW r \in Report, Audit!ReadTraces(r) PROVE FeedSeen'
  <2> DEFINE x == d_reports[r]
             feed == Audit!tracesForAuthority(x.authority, x.since, x.until)
             n == Len(d_kyt_events)
             y == [x EXCEPT !.seen = n, !.kyt = feed, !.pc = "revocations"]
  <2>1. x \in AuditReport /\ d_reports \in [Report -> {Audit!Idle} \cup AuditReport]
    BY <1>3, ReportBegun DEF Audit!ReadTraces
  <2>2. d_reports' = [d_reports EXCEPT ![r] = y] /\ d_kyt_events' = d_kyt_events
    BY <1>3, <2>1 DEF Audit!ReadTraces
  <2>3. Audit!Rows(feed) = {d_kyt_events[i] : i \in Audit!Selected(x.authority, x.since, x.until)}
    BY FeedOk
  <2>4. d_kyt_events \in Seq(Trace) /\ n \in Nat /\ DOMAIN d_kyt_events = 1 .. n
    BY DEF AuditInv
  <2>5. Audit!Selected(x.authority, x.since, x.until) =
          {j \in 1 .. n : /\ x.authority \in {d_kyt_events[j].bap, d_kyt_events[j].bpp}
                          /\ Audit!withinBounds(d_kyt_events[j].slot, x.since, x.until)}
    BY <2>4, Zenon DEF Audit!Selected
  <2> HIDE DEF x, feed, n
  <2>6. /\ y.seen = n /\ y.kyt = feed /\ y.authority = x.authority
        /\ y.since = x.since /\ y.until = x.until
    BY <2>1 DEF AuditReport
  <2> HIDE DEF y
  <2>7. FeedFrom(y, d_kyt_events)
    BY <2>3, <2>4, <2>5, <2>6 DEF FeedFrom, n
  <2>8. ASSUME NEW q \in Report, d_reports'[q].pc \in {"revocations", "resolve", "done"}
        PROVE  FeedFrom(d_reports'[q], d_kyt_events)
    <3>1. CASE q = r
      BY <2>1, <2>2, <2>7, <3>1
    <3>2. CASE q # r
      BY <2>1, <2>2, <2>8, <3>2 DEF FeedSeen
    <3> QED
      BY <3>1, <3>2
  <2> QED
    BY <2>2, <2>8 DEF FeedSeen
<1>4. ASSUME NEW r \in Report, Audit!ReadRevocations(r) PROVE FeedSeen'
  <2> DEFINE x == d_reports[r]
             feed == Audit!revocationsForCredentialIssuers(x.since, x.until)
             y == [x EXCEPT !.revocations = feed, !.pc = "resolve"]
  <2>1. /\ x \in AuditReport /\ d_reports \in [Report -> {Audit!Idle} \cup AuditReport]
        /\ x.pc = "revocations"
    BY <1>4, ReportBegun DEF Audit!ReadRevocations
  <2>2. d_reports' = [d_reports EXCEPT ![r] = y] /\ d_kyt_events' = d_kyt_events
    BY <1>4, <2>1 DEF Audit!ReadRevocations
  <2> HIDE DEF feed
  <2>3. SameFeed(x, y)
    BY <2>1 DEF AuditReport, SameFeed
  <2> HIDE DEF y
  <2> QED
    BY <2>1, <2>2, <2>3, FeedKept
<1>5. ASSUME NEW r \in Report, Audit!Resolve(r) PROVE FeedSeen'
  <2> DEFINE x == d_reports[r]
  <2>1. /\ x \in AuditReport /\ d_reports \in [Report -> {Audit!Idle} \cup AuditReport]
        /\ x.pc = "resolve"
    BY <1>5, ReportBegun DEF Audit!Resolve
  <2>2. PICK k, bad, rows :
          /\ d_reports' = [d_reports EXCEPT ![r] =
               [x EXCEPT !.next = k, !.missing = bad, !.entries = rows]]
          /\ d_kyt_events' = d_kyt_events
    <3> DEFINE t == x.kyt[x.next]
               found == {Audit!Originator(r, t), Audit!Beneficiary(r, t)} \subseteq d_directory /\ t.tx \in d_resolved
               bad == IF t.stage = "confirm" /\ ~found THEN x.missing \cup {t.tx} ELSE x.missing
               rows == IF t.stage = "confirm" /\ found /\ Audit!shouldReport(t)
                         THEN Append(x.entries, Audit!Entry(r, t)) ELSE x.entries
    <3>1. /\ d_reports' = [d_reports EXCEPT ![r] =
               [x EXCEPT !.next = x.next + 1, !.missing = bad, !.entries = rows]]
          /\ d_kyt_events' = d_kyt_events
      BY <1>5, <2>1 DEF Audit!Resolve
    <3> HIDE DEF bad, rows
    <3> QED
      BY <3>1, Zenon
  <2> DEFINE y == [x EXCEPT !.next = k, !.missing = bad, !.entries = rows]
  <2>3. SameFeed(x, y)
    BY <2>1 DEF AuditReport, SameFeed
  <2>4. d_reports' = [d_reports EXCEPT ![r] = y] /\ d_kyt_events' = d_kyt_events
    BY <2>2
  <2> HIDE DEF y
  <2> QED
    BY <2>1, <2>3, <2>4, FeedKept
<1>6. ASSUME NEW r \in Report, Audit!Finish(r) PROVE FeedSeen'
  <2> DEFINE x == d_reports[r]
             rows == Audit!SortedAt(x.entries, DOMAIN x.entries, Audit!compareTraces)
             y == [x EXCEPT !.pc = "done", !.entries = rows]
  <2>1. /\ x \in AuditReport /\ d_reports \in [Report -> {Audit!Idle} \cup AuditReport]
        /\ x.pc = "resolve"
    BY <1>6, ReportBegun DEF Audit!Finish
  <2>2. d_reports' = [d_reports EXCEPT ![r] = y] /\ d_kyt_events' = d_kyt_events
    BY <1>6, <2>1 DEF Audit!Finish
  <2> HIDE DEF rows
  <2>3. SameFeed(x, y)
    BY <2>1 DEF AuditReport, SameFeed
  <2> HIDE DEF y
  <2> QED
    BY <2>1, <2>2, <2>3, FeedKept
<1>7. ASSUME UNCHANGED <<d_kyt_events, d_reports>> PROVE FeedSeen'
  BY <1>7 DEF FeedSeen
<1>8. ASSUME NEW v \in Revocation, Audit!ingestRevocation(v) PROVE FeedSeen'
  BY <1>7, <1>8 DEF Audit!ingestRevocation
<1>9. ASSUME NEW a \in Authority, Audit!LearnParty(a) PROVE FeedSeen'
  BY <1>7, <1>9 DEF Audit!LearnParty
<1>10. ASSUME NEW tx \in DOMAIN UsdAmount, Audit!LearnAmount(tx) PROVE FeedSeen'
  BY <1>7, <1>10 DEF Audit!LearnAmount
<1>11. CASE UNCHANGED Audit!vars
  BY <1>7, <1>11 DEF Audit!vars
<1> QED
  BY <1>1, <1>2, <1>3, <1>4, <1>5, <1>6, <1>8, <1>9, <1>10, <1>11 DEF Audit!Next

(* Adjacent windows split a feed. *)
LEMMA FeedsSplit ==
  ASSUME AuditInv, NEW a, NEW since \in Nat, NEW mid \in Nat, NEW until \in Nat, since <= mid, mid <= until
  PROVE  Audit!tracesForAuthority(a, since, until)
           = Audit!tracesForAuthority(a, since, mid) \o Audit!tracesForAuthority(a, mid, until)
<1> DEFINE w == d_kyt_events
           whole == Audit!Selected(a, since, until)
           lower == Audit!Selected(a, since, mid)
           upper == Audit!Selected(a, mid, until)
<1>1. w \in Seq(Trace) /\ DOMAIN w = 1 .. Len(w)
  BY DEF AuditInv
<1>2. \A i \in DOMAIN w : w[i].slot \in Nat
  BY <1>1, AuditAssumption DEF Audit!AuditAssumption
<1>3. whole = lower \cup upper
  BY <1>2 DEF Audit!Selected, Audit!withinBounds
<1>4. Apart(w, lower, upper)
  BY <1>2 DEF Audit!Selected, Audit!withinBounds, Apart
<1>5. /\ Sortable(w, whole)
      /\ Audit!tracesForAuthority(a, since, until) = SortTraces(w, whole)
      /\ Audit!tracesForAuthority(a, since, mid) = SortTraces(w, lower)
      /\ Audit!tracesForAuthority(a, mid, until) = SortTraces(w, upper)
  BY FeedOk
<1> HIDE DEF w, whole, lower, upper
<1>6. Joined(SortTraces(w, whole), SortTraces(w, lower), SortTraces(w, upper))
  BY <1>3, <1>4, <1>5, SortSplits
<1> QED
  BY <1>5, <1>6, Zenon DEF Joined

(* A finished report: its order, its entries, and how it names the parties. *)
LEMMA DoneReport ==
  ASSUME AuditInv, NEW r \in Report, Audit!Done(r)
  PROVE  LET x == d_reports[r] IN
         /\ Audit!StrictlySorted(x.entries)
         /\ Audit!Rows(x.entries) =
              {EntryOf(t) : t \in {v \in Audit!Rows(x.kyt) : Reports(v, x.missing)}}
         /\ \A t \in Audit!Rows(x.kyt) : Audit!Entry(r, t) = EntryOf(t)
         /\ \A t \in Audit!Rows(x.kyt) :
              t.tx \notin x.missing =>
                (EntryOf(t) \in Audit!Rows(x.entries) <=> t.stage = "confirm" /\ Audit!shouldReport(t))
<1> DEFINE x == d_reports[r]
           w == x.kyt
           e == x.entries
<1>1. x \in AuditReport /\ ReportOk(x) /\ x.pc = "done"
  BY ReportBegun DEF Audit!Done
<1>2. /\ w \in Seq(Trace) /\ e \in Seq(EntrySet) /\ x.next = Len(w) + 1 /\ Len(w) \in Nat /\ Len(e) \in Nat
      /\ DOMAIN w = 1 .. Len(w)
  BY <1>1 DEF AuditReport, ReportOk
<1>3. Reported(x) = {i \in 1 .. Len(w) : Reports(w[i], x.missing)}
  BY <1>2 DEF Reported
<1>4. /\ Audit!Rows(e) = {EntryOf(w[i]) : i \in Reported(x)} /\ TxOnce(w, 1 .. Len(w))
      /\ \A i, j \in 1 .. Len(e) : i < j => Audit!compareTraces(e[i], e[j])
      /\ \A i \in 1 .. Len(w) : x.authority \in {w[i].bap, w[i].bpp}
  BY <1>1 DEF ReportOk
<1>5. \A t \in Audit!Rows(w) : Audit!Entry(r, t) = EntryOf(t)
  <2>1. \A t \in Audit!Rows(w) : d_reports[r].authority \in {t.bap, t.bpp}
    BY <1>2, <1>4 DEF Audit!Rows
  <2> QED
    BY <2>1, EntryIs
<1> DEFINE gone == x.missing
<1> HIDE DEF x, w, e, gone
<1>6. Audit!StrictlySorted(e)
  BY <1>2, <1>4 DEF Audit!StrictlySorted
<1>7. Audit!Rows(e) = {EntryOf(t) : t \in {v \in Audit!Rows(w) : Reports(v, gone)}}
  BY <1>2, <1>3, <1>4 DEF Audit!Rows, gone
<1>8. ASSUME NEW t \in Audit!Rows(w), t.tx \notin gone
      PROVE  EntryOf(t) \in Audit!Rows(e) <=> t.stage = "confirm" /\ Audit!shouldReport(t)
  <2>1. ASSUME EntryOf(t) \in Audit!Rows(e) PROVE Reports(t, gone)
    <3>1. PICK v \in Audit!Rows(w) : Reports(v, gone) /\ EntryOf(t) = EntryOf(v)
      BY <1>7, <2>1
    <3>2. t.tx = v.tx
      <4>1. EntryOf(t).tx = t.tx /\ EntryOf(v).tx = v.tx
        BY DEF EntryOf
      <4> QED
        BY <3>1, <4>1
    <3>3. t = v
      BY <1>2, <1>4, <3>2 DEF Audit!Rows, TxOnce
    <3> QED
      BY <3>1, <3>3
  <2>2. ASSUME Reports(t, gone) PROVE EntryOf(t) \in Audit!Rows(e)
    BY <1>7, <2>2
  <2> QED
    BY <1>8, <2>1, <2>2 DEF Reports
<1> QED
  BY <1>5, <1>6, <1>7, <1>8 DEF x, w, e, gone

(* A row of the table that a finished report lists was in its feed and is   *)
(* one to report.                                                           *)
LEMMA ListedSeen ==
  ASSUME AuditInv, FeedSeen, NEW r \in Report, Audit!Done(r), NEW i \in DOMAIN d_kyt_events,
         Audit!Lists(r, d_kyt_events[i])
  PROVE  /\ i \in 1 .. d_reports[r].seen /\ d_reports[r].seen \in Nat
         /\ d_kyt_events[i].stage = "confirm" /\ Audit!shouldReport(d_kyt_events[i])
<1> DEFINE w == d_kyt_events
           x == d_reports[r]
<1>1. FeedFrom(x, w) /\ w \in Seq(Trace) /\ TxOnce(w, 1 .. Len(w))
  BY DEF FeedSeen, AuditInv, Audit!Done
<1>2. PICK e \in Audit!Rows(x.entries) : e.tx = w[i].tx
  BY DEF Audit!Lists
<1>3. Audit!Rows(x.entries) = {EntryOf(t) : t \in {v \in Audit!Rows(x.kyt) : Reports(v, x.missing)}}
  BY DoneReport, Zenon
<1>4. PICK t \in Audit!Rows(x.kyt) : Reports(t, x.missing) /\ e = EntryOf(t)
  BY <1>2, <1>3
<1>5. t.tx = w[i].tx
  BY <1>2, <1>4 DEF EntryOf
<1> HIDE DEF w, x
<1>6. PICK j \in 1 .. x.seen : t = w[j]
  BY <1>1 DEF FeedFrom
<1>7. x.seen \in Nat /\ j \in 1 .. Len(w) /\ i \in 1 .. Len(w)
  BY <1>1, <1>6 DEF FeedFrom, w
<1>8. i = j
  BY <1>1, <1>5, <1>6, <1>7 DEF TxOnce
<1> QED
  BY <1>4, <1>6, <1>7, <1>8 DEF Reports, w, x

(* One report lists a row, the other covers it and does not.                *)
LEMMA ListedBetween ==
  ASSUME AuditInv, FeedSeen, NEW r \in Report, NEW q \in Report, NEW i \in DOMAIN d_kyt_events,
         Audit!Done(r), Audit!Done(q), Audit!Covers(q, d_kyt_events[i]),
         Audit!Lists(r, d_kyt_events[i]), ~Audit!Lists(q, d_kyt_events[i])
  PROVE  \/ d_kyt_events[i].tx \in d_reports[q].missing
         \/ i \in d_reports[q].seen + 1 .. d_reports[r].seen
<1> DEFINE w == d_kyt_events
           y == d_reports[q]
<1>1. /\ i \in 1 .. d_reports[r].seen /\ d_reports[r].seen \in Nat
      /\ w[i].stage = "confirm" /\ Audit!shouldReport(w[i])
  BY ListedSeen
<1>2. FeedFrom(y, w) /\ w \in Seq(Trace)
  BY DEF FeedSeen, AuditInv, Audit!Done
<1>3. Audit!Rows(y.entries) = {EntryOf(t) : t \in {v \in Audit!Rows(y.kyt) : Reports(v, y.missing)}}
  BY DoneReport, Zenon
<1>4. \A e \in Audit!Rows(y.entries) : e.tx # w[i].tx
  BY DEF Audit!Lists
<1>5. /\ y.authority \in {w[i].bap, w[i].bpp}
      /\ Audit!withinBounds(w[i].slot, y.since, y.until)
  BY DEF Audit!Covers
<1>6. i \in Nat
  BY <1>1
<1> HIDE DEF w, y
<1>7. y.seen \in Nat
  BY <1>2 DEF FeedFrom
<1>8. CASE i <= y.seen
  <2>1. i \in 1 .. y.seen
    BY <1>1, <1>6, <1>7, <1>8
  <2>2. w[i] \in Audit!Rows(y.kyt)
    BY <1>2, <1>5, <2>1 DEF FeedFrom
  <2>3. ASSUME w[i].tx \notin y.missing PROVE FALSE
    <3>1. Reports(w[i], y.missing)
      BY <1>1, <2>3 DEF Reports
    <3>2. EntryOf(w[i]) \in Audit!Rows(y.entries)
      BY <1>3, <2>2, <3>1
    <3>3. EntryOf(w[i]).tx = w[i].tx
      BY DEF EntryOf
    <3> QED
      BY <1>4, <3>2, <3>3
  <2> QED
    BY <2>3 DEF w, y
<1>9. CASE ~(i <= y.seen)
  <2>1. i \in y.seen + 1 .. d_reports[r].seen
    BY <1>1, <1>6, <1>7, <1>9
  <2> QED
    BY <2>1 DEF y
<1> QED
  BY <1>8, <1>9

(* What the invariant says of the reports. *)
LEMMA AuditImplies == AuditInv /\ FeedSeen => Audit!TypeOK /\ Audit!ReportsReconcile
<1> SUFFICES ASSUME AuditInv, FeedSeen PROVE Audit!TypeOK /\ Audit!ReportsReconcile
  OBVIOUS
<1>1. Audit!TypeOK
  <2>1. Audit!Rows(d_kyt_events) \subseteq Trace /\ Audit!Rows(d_revocation_events) \subseteq Revocation
    BY DEF AuditInv, Audit!Rows
  <2>2. \A r \in Report : \/ d_reports[r] = Audit!Idle
                          \/ d_reports[r].pc \in {"traces", "revocations", "resolve", "done", "invalid"}
    BY DEF AuditInv, AuditReport
  <2> QED
    BY <2>1, <2>2 DEF AuditInv, Audit!TypeOK
<1>2. Audit!Bound \subseteq Nat
  BY AuditAssumption DEF Audit!AuditAssumption, Audit!Bound
<1>3. \A a \in Authority, s, m, u \in Audit!Bound :
        s <= m /\ m <= u =>
          Audit!tracesForAuthority(a, s, u)
            = Audit!tracesForAuthority(a, s, m) \o Audit!tracesForAuthority(a, m, u)
  BY <1>2, FeedsSplit
<1>4. ASSUME NEW r \in Report, Audit!Done(r)
      PROVE  /\ Audit!StrictlySorted(d_reports[r].entries)
             /\ Audit!Rows(d_reports[r].entries) =
                  {[tx |-> t.tx, slot |-> t.slot, amount |-> UsdAmount[t.tx],
                    originator |-> t.bap, beneficiary |-> t.bpp] :
                     t \in {x \in Audit!Rows(d_reports[r].kyt) : /\ x.stage = "confirm"
                                                                 /\ Audit!shouldReport(x)
                                                                 /\ x.tx \notin d_reports[r].missing}}
  BY <1>4, DoneReport, Zenon DEF Reports, EntryOf
<1>5. ASSUME NEW r \in Report, NEW q \in Report, NEW i \in DOMAIN d_kyt_events,
             Audit!Done(r), Audit!Done(q), Audit!Covers(q, d_kyt_events[i]),
             Audit!Lists(r, d_kyt_events[i]), ~Audit!Lists(q, d_kyt_events[i])
      PROVE  \/ d_kyt_events[i].tx \in d_reports[q].missing
             \/ i \in d_reports[q].seen + 1 .. d_reports[r].seen
  BY <1>5, ListedBetween
<1>6. Audit!ReportsReconcile
  BY <1>3, <1>4, <1>5, Zenon DEF Audit!ReportsReconcile
<1> QED
  BY <1>1, <1>6

(***************************************************************************)
(* For any traces, windows, authorities, amounts and reports: with events  *)
(* redelivered and ingested in any order while reports are being built,    *)
(* and with parties and amounts that become known between two lookups,     *)
(* adjacent windows split a feed, a finished report lists its settlements  *)
(* once and in order, and the two parties' reports differ only by what one *)
(* of them counts as missing or what was ingested between their two reads  *)
(* (audit-trail.ts, travel-rule.ts buildReport, postgres-event-source.ts). *)
(***************************************************************************)
THEOREM AuditReconciled == Audit!Spec => [](Audit!TypeOK /\ Audit!ReportsReconcile)
<1>1. Audit!Init => FeedSeen
  BY DEF Audit!Init, Audit!Idle, FeedSeen
<1> QED
  BY <1>1, AuditInit, AuditStep, FeedStep, AuditImplies, PTL DEF Audit!Spec

(***************************************************************************)
(* The same, as the run of Books states it.                                *)
(***************************************************************************)
THEOREM BooksReportsReconcile == BooksSpec => []ReportsReconcile
<1> DEFINE Inv == part = "audit" => AuditInv /\ FeedSeen
<1>1. BooksInit => Inv
  BY AuditInit DEF BooksInit, Audit!Init, Audit!Idle, FeedSeen
<1>2. Inv /\ [BooksNext]_all => Inv'
  BY PartStep, AuditStep, FeedStep
<1>3. Inv => ReportsReconcile
  BY AuditImplies DEF ReportsReconcile
<1> QED
  BY <1>1, <1>2, <1>3, PTL DEF BooksSpec
=============================================================================
