----------------------- MODULE CredentialIssuer_proofs -----------------------
(***************************************************************************)
(* Proofs about CredentialIssuer for any requests, issuers, keys, cards,   *)
(* flaws and faults: the type invariant, that rows and grants stand for    *)
(* minted credentials, that callers converge, and that the issuers         *)
(* implement the BindingRegister.                                          *)
(***************************************************************************)
EXTENDS CredentialIssuer, TLAPS

\* What the position of a request says about it.
Stages ==
  \A r \in Req :
    /\ pc[r] = "idle" => slot[r] = None /\ verdict[r] = "none" /\ r \notin minted
    /\ pc[r] # "idle" => /\ slot[r] \in Slot
                         /\ card[r] \in Card
                         /\ slot[r][1] = iss[r]
    /\ pc[r] = "done" <=> verdict[r] # "none"
    /\ pc[r] \in {"lookup", "verify", "pin", "submit"} => r \notin minted
    /\ pc[r] \in {"persist", "reload"} => r \in minted

\* A granted request agrees with the row of its slot as it now stands.
GrantMatchesRow ==
  \A r \in Req : verdict[r] = "granted" =>
    /\ pc[r] = "done"
    /\ got[r] \in Req
    /\ store[slot[r]] # None
    /\ card[store[slot[r]]] = card[r]
    /\ iss[r] # "civic" => got[r] = store[slot[r]]

IInv == TypeOK /\ Stages /\ RowIsMinted /\ GrantIsOwn /\ GrantMatchesRow

-----------------------------------------------------------------------------
\* The initial states satisfy the inductive invariant.
LEMMA InitInv == Init => IInv
  BY IssuerAssumption DEF Init, IInv, TypeOK, Stages, RowIsMinted, GrantIsOwn,
     GrantMatchesRow, PC, Verdict

\* The slot of a request is a slot of the store and names its issuer.
LEMMA SlotOfType ==
  ASSUME NEW i \in Issuer, NEW k \in Key, NEW c \in Card
  PROVE  SlotOf(i, k, c) \in Slot /\ SlotOf(i, k, c)[1] = i
  BY DEF SlotOf, Slot

\* An arriving request preserves the invariant: no row, grant or credential can
\* name a request that was idle.
LEMMA ArriveInv ==
  ASSUME IInv, NEW r \in Req, NEW i \in Issuer, NEW k \in Key, NEW c \in Card,
         NEW f \in Flaw \cup {"none"}, Arrive(r, i, k, c, f)
  PROVE  IInv'
<1> USE IssuerAssumption DEF IInv
<1> DEFINE s == SlotOf(i, k, c)
<1>0. s \in Slot /\ s[1] = i
  BY SlotOfType
<1> HIDE DEF s
<1>1. /\ pc[r] = "idle"
      /\ iss' = [iss EXCEPT ![r] = i]
      /\ slot' = [slot EXCEPT ![r] = s]
      /\ card' = [card EXCEPT ![r] = c]
      /\ flaw' = [flaw EXCEPT ![r] = f]
      /\ before' = [before EXCEPT ![r] = {q \in Req : verdict[q] = "granted"}]
      /\ store' = store /\ minted' = minted
      /\ \/ /\ pc' = [pc EXCEPT ![r] = "done"]
            /\ verdict' = [verdict EXCEPT ![r] = "rejected"]
            /\ got' = [got EXCEPT ![r] = None]
         \/ /\ pc' = [pc EXCEPT ![r] = "lookup"]
            /\ verdict' = verdict
            /\ got' = got
  BY DEF Arrive, Finish, Goto, s
<1>2. TypeOK'
  BY <1>0, <1>1 DEF TypeOK, PC, Verdict
<1>3. Stages'
  BY <1>0, <1>1 DEF Stages, TypeOK
<1>4. r \notin minted /\ verdict[r] = "none" /\ \A q \in Slot : store[q] # r
  BY <1>1 DEF Stages, RowIsMinted, TypeOK
<1>5. RowIsMinted'
  BY <1>1, <1>4 DEF RowIsMinted, TypeOK
<1>6. GrantIsOwn'
  BY <1>1, <1>4 DEF GrantIsOwn, TypeOK
<1>7. GrantMatchesRow'
  BY <1>1, <1>4 DEF GrantMatchesRow, RowIsMinted, Stages, TypeOK
<1> QED
  BY <1>2, <1>3, <1>5, <1>6, <1>7

\* A step that ends request r, or moves it on, without touching the store or
\* the chain: enough that a grant matches the row.
LEMMA QuietInv ==
  ASSUME IInv, NEW r \in Req, pc[r] \notin {"idle", "done"},
         UNCHANGED <<askVars, store, minted>>,
         \/ \E l \in {"verify", "pin", "submit"} :
              pc[r] \in {"lookup", "verify", "pin"} /\ Goto(r, l)
         \/ pc[r] = "persist" /\ Goto(r, "reload")
         \/ store[slot[r]] # None /\ AnswerFrom(r, store[slot[r]])
         \/ \E v \in Verdict \ {"granted", "none"} : Finish(r, v, None)
  PROVE  IInv'
<1> USE IssuerAssumption DEF IInv
<1>0. /\ iss' = iss /\ slot' = slot /\ card' = card /\ flaw' = flaw
      /\ before' = before /\ store' = store /\ minted' = minted
  BY DEF askVars
<1>1. slot[r] \in Slot /\ card[r] \in Card
  BY DEF Stages
<1>2. CASE \E l \in {"verify", "pin", "submit"} :
             pc[r] \in {"lookup", "verify", "pin"} /\ Goto(r, l)
  <2>1. PICK l \in {"verify", "pin", "submit"} :
          pc[r] \in {"lookup", "verify", "pin"} /\ Goto(r, l)
    BY <1>2
  <2>2. pc' = [pc EXCEPT ![r] = l] /\ verdict' = verdict /\ got' = got
    BY <2>1 DEF Goto
  <2>3. TypeOK'
    BY <1>0, <2>2 DEF TypeOK, PC
  <2>4. Stages'
    BY <1>0, <2>1, <2>2 DEF Stages, TypeOK
  <2> QED
    BY <1>0, <2>2, <2>3, <2>4 DEF RowIsMinted, GrantIsOwn, GrantMatchesRow, TypeOK, Stages
<1>3. CASE pc[r] = "persist" /\ Goto(r, "reload")
  <2>2. pc' = [pc EXCEPT ![r] = "reload"] /\ verdict' = verdict /\ got' = got
    BY <1>3 DEF Goto
  <2>3. TypeOK'
    BY <1>0, <2>2 DEF TypeOK, PC
  <2>4. Stages'
    BY <1>0, <1>3, <2>2 DEF Stages, TypeOK
  <2> QED
    BY <1>0, <2>2, <2>3, <2>4 DEF RowIsMinted, GrantIsOwn, GrantMatchesRow, TypeOK, Stages
<1>4. ASSUME store[slot[r]] # None, card[store[slot[r]]] = card[r],
             Finish(r, "granted", store[slot[r]])
      PROVE  IInv'
  <2> DEFINE w == store[slot[r]]
  <2>1. w \in Req /\ w \in minted /\ slot[w] = slot[r] /\ card[w] = card[r]
    BY <1>1, <1>4 DEF RowIsMinted, TypeOK
  <2>2. /\ pc' = [pc EXCEPT ![r] = "done"]
        /\ verdict' = [verdict EXCEPT ![r] = "granted"]
        /\ got' = [got EXCEPT ![r] = w]
    BY <1>4 DEF Finish
  <2>3. TypeOK'
    BY <1>0, <2>1, <2>2 DEF TypeOK, PC, Verdict
  <2>4. Stages'
    BY <1>0, <2>2 DEF Stages, TypeOK
  <2>5. RowIsMinted' /\ GrantIsOwn'
    BY <1>0, <2>1, <2>2 DEF RowIsMinted, GrantIsOwn, TypeOK
  <2>6. GrantMatchesRow'
    BY <1>0, <1>4, <2>1, <2>2 DEF GrantMatchesRow, TypeOK
  <2> QED
    BY <2>3, <2>4, <2>5, <2>6
<1>5. ASSUME NEW v \in Verdict \ {"granted", "none"}, Finish(r, v, None)
      PROVE  IInv'
  <2>2. /\ pc' = [pc EXCEPT ![r] = "done"]
        /\ verdict' = [verdict EXCEPT ![r] = v]
        /\ got' = [got EXCEPT ![r] = None]
    BY <1>5 DEF Finish
  <2>3. TypeOK'
    BY <1>0, <2>2 DEF TypeOK, PC, Verdict
  <2>4. Stages'
    BY <1>0, <2>2 DEF Stages, TypeOK
  <2>5. RowIsMinted' /\ GrantIsOwn' /\ GrantMatchesRow'
    BY <1>0, <2>2 DEF RowIsMinted, GrantIsOwn, GrantMatchesRow, TypeOK
  <2> QED
    BY <2>3, <2>4, <2>5
<1> QED
  BY <1>2, <1>3, <1>4, <1>5 DEF AnswerFrom, Verdict

\* IssueCredential: the chain mints, and only the credential named r.
LEMMA SubmitInv ==
  ASSUME IInv, NEW r \in Req, Submit(r)
  PROVE  IInv'
<1> USE IssuerAssumption DEF IInv
<1>1. /\ pc[r] = "submit"
      /\ iss' = iss /\ slot' = slot /\ card' = card /\ flaw' = flaw
      /\ before' = before /\ store' = store
      /\ \/ /\ minted' = minted \cup {r}
            /\ pc' = [pc EXCEPT ![r] = "persist"] /\ verdict' = verdict /\ got' = got
         \/ /\ minted' = minted \/ minted' = minted \cup {r}
            /\ pc' = [pc EXCEPT ![r] = "done"]
            /\ verdict' = [verdict EXCEPT ![r] = "failed"]
            /\ got' = [got EXCEPT ![r] = None]
  BY DEF Submit, Goto, Fail, Finish, askVars
<1>2. TypeOK'
  BY <1>1 DEF TypeOK, PC, Verdict
<1>3. Stages'
  BY <1>1 DEF Stages, TypeOK
<1>4. RowIsMinted' /\ GrantIsOwn'
  BY <1>1 DEF RowIsMinted, GrantIsOwn, TypeOK
<1>5. GrantMatchesRow'
  BY <1>1 DEF GrantMatchesRow, TypeOK
<1> QED
  BY <1>2, <1>3, <1>4, <1>5

\* Writing the row of r, into an empty slot or (civic) over a row of its card.
LEMMA WriteInv ==
  ASSUME IInv, NEW r \in Req, pc[r] = "persist",
         \/ store[slot[r]] = None
         \/ iss[r] = "civic" /\ card[store[slot[r]]] = card[r],
         store' = [store EXCEPT ![slot[r]] = r],
         Finish(r, "granted", r),
         UNCHANGED <<askVars, minted>>
  PROVE  IInv'
<1> USE IssuerAssumption DEF IInv
<1>1. /\ iss' = iss /\ slot' = slot /\ card' = card /\ flaw' = flaw
      /\ before' = before /\ minted' = minted
      /\ pc' = [pc EXCEPT ![r] = "done"]
      /\ verdict' = [verdict EXCEPT ![r] = "granted"]
      /\ got' = [got EXCEPT ![r] = r]
  BY DEF askVars, Finish
<1>2. slot[r] \in Slot /\ card[r] \in Card /\ r \in minted
  BY DEF Stages
<1>3. TypeOK'
  BY <1>1, <1>2 DEF TypeOK, PC, Verdict
<1>4. Stages'
  BY <1>1 DEF Stages, TypeOK
<1>5. RowIsMinted' /\ GrantIsOwn'
  BY <1>1, <1>2 DEF RowIsMinted, GrantIsOwn, TypeOK
<1>6. ASSUME NEW q \in Req, verdict'[q] = "granted", q # r
      PROVE  /\ store'[slot[q]] # None
             /\ card[store'[slot[q]]] = card[q]
             /\ iss[q] # "civic" => got[q] = store'[slot[q]]
  <2>1. /\ verdict[q] = "granted" /\ pc[q] = "done"
        /\ slot[q] \in Slot /\ slot[q][1] = iss[q] /\ slot[r][1] = iss[r]
    BY <1>1, <1>6 DEF GrantMatchesRow, Stages, TypeOK
  <2>2. CASE slot[q] = slot[r]
    BY <1>2, <2>1, <2>2 DEF GrantMatchesRow, TypeOK
  <2>3. CASE slot[q] # slot[r]
    BY <2>1, <2>3 DEF GrantMatchesRow, TypeOK
  <2> QED
    BY <2>2, <2>3
<1>7. GrantMatchesRow'
  BY <1>1, <1>2, <1>6 DEF GrantMatchesRow, TypeOK
<1> QED
  BY <1>3, <1>4, <1>5, <1>7

\* A crash ends the requests under way and changes nothing else.
LEMMA CrashInv ==
  ASSUME IInv, Crash
  PROVE  IInv'
<1> USE IssuerAssumption DEF IInv
<1>1. /\ iss' = iss /\ slot' = slot /\ card' = card /\ flaw' = flaw
      /\ before' = before /\ store' = store /\ minted' = minted /\ got' = got
      /\ pc' = [r \in Req |-> IF pc[r] = "idle" THEN "idle" ELSE "done"]
      /\ verdict' = [r \in Req |->
           IF pc[r] \in {"idle", "done"} THEN verdict[r] ELSE "lost"]
  BY DEF Crash, askVars
<1>2. TypeOK'
  BY <1>1 DEF TypeOK, PC, Verdict
<1>3. Stages'
  BY <1>1 DEF Stages, TypeOK
<1>4. RowIsMinted' /\ GrantIsOwn' /\ GrantMatchesRow'
  BY <1>1 DEF RowIsMinted, GrantIsOwn, GrantMatchesRow, TypeOK
<1> QED
  BY <1>2, <1>3, <1>4

\* Every step of a request falls under one of the lemmas above.
LEMMA IssueInv ==
  ASSUME IInv, NEW r \in Req, Issue(r)
  PROVE  IInv'
<1>1. CASE Lookup(r)
  BY <1>1, QuietInv DEF Lookup, Goto
<1>2. CASE Verify(r)
  BY <1>2, QuietInv DEF Verify, Fail, Verdict
<1>3. CASE Pin(r)
  BY <1>3, QuietInv DEF Pin, Fail, Verdict
<1>4. CASE Submit(r)
  BY <1>4, SubmitInv
<1>5. CASE PutOrThrow(r)
  <2>1. CASE store' = [store EXCEPT ![slot[r]] = r]
    BY <1>5, <2>1, WriteInv, QuietInv DEF PutOrThrow, askVars
  <2> QED
    BY <1>5, <2>1, QuietInv DEF PutOrThrow, askVars
<1>6. CASE Reload(r)
  BY <1>6, QuietInv DEF Reload, Fail, Verdict
<1>7. CASE PutIfAbsent(r)
  BY <1>7, WriteInv, QuietInv DEF PutIfAbsent, Fail, Verdict, askVars
<1>8. CASE iss[r] = "civic" /\ OverwriteOwn(r)
  BY <1>8, WriteInv, QuietInv DEF OverwriteOwn, Fail, Verdict, askVars
<1> QED
  BY <1>1, <1>2, <1>3, <1>4, <1>5, <1>6, <1>7, <1>8
  DEF Issue, WorldcoinIssue, SkillCertIssue, CivicIssue, KycTestIssue, BankMockIssue, BankIssue

\* The invariant is inductive.
LEMMA NextInv ==
  ASSUME IInv, [Next]_vars
  PROVE  IInv'
<1>1. CASE \E r \in Req, i \in Issuer, k \in Key, c \in Card, f \in Flaw \cup {"none"} :
             Arrive(r, i, k, c, f)
  BY <1>1, ArriveInv
<1>2. CASE \E r \in Req : Issue(r)
  BY <1>2, IssueInv
<1>3. CASE Crash
  BY <1>3, CrashInv
<1>4. CASE UNCHANGED vars
  BY <1>4 DEF vars, IInv, TypeOK, Stages, RowIsMinted, GrantIsOwn, GrantMatchesRow
<1> QED
  BY <1>1, <1>2, <1>3, <1>4 DEF Next

-----------------------------------------------------------------------------
(* The theorems about rows and grants *)

\* In every behaviour of the issuers the inductive invariant holds.
THEOREM Invariance == Spec => []IInv
  BY InitInv, NextInv, PTL DEF Spec

\* Every variable keeps its type.
THEOREM TypeCorrect == Spec => []TypeOK
<1>1. IInv => TypeOK
  BY DEF IInv
<1> QED
  BY <1>1, Invariance, PTL

\* A dedupe row always stands for a credential on the chain, in its own slot:
\* the row is written only after the transaction succeeded.
THEOREM RowsAreMinted == Spec => []RowIsMinted
<1>1. IInv => RowIsMinted
  BY DEF IInv
<1> QED
  BY <1>1, Invariance, PTL

\* Whatever race a request lost, the credential it is given exists, was minted
\* for its slot and for its own card.
THEOREM GrantsAreOwn == Spec => []GrantIsOwn
<1>1. IInv => GrantIsOwn
  BY DEF IInv
<1> QED
  BY <1>1, Invariance, PTL

\* Callers granted the same slot are the same card, and hold the same
\* credential where the store never replaces a row.
THEOREM CallersDoConverge == Spec => []CallersConverge
<1>1. IInv => CallersConverge
  <2> SUFFICES ASSUME IInv, NEW r \in Req, NEW s \in Req,
                      verdict[r] = "granted", verdict[s] = "granted", slot[r] = slot[s]
               PROVE  card[r] = card[s] /\ (iss[r] # "civic" => got[r] = got[s])
    BY DEF CallersConverge
  <2>1. iss[r] = iss[s]
    BY DEF IInv, Stages, GrantMatchesRow
  <2> QED
    BY <2>1 DEF IInv, GrantMatchesRow
<1> QED
  BY <1>1, Invariance, PTL

-----------------------------------------------------------------------------
(* Requests made one after the other, and flawed requests *)

\* r is beyond the lookup, or was when it ended.
PastLookup(r) == r \in minted \/ pc[r] \in {"verify", "pin", "submit", "persist", "reload"}
PastVerify(r) == r \in minted \/ pc[r] \in {"pin", "submit", "persist", "reload"}

SeqInv ==
  \A r \in Req : \A s \in before[r] :
    verdict[s] = "granted" /\ (PastLookup(r) => slot[s] # slot[r])

FlawInv ==
  \A r \in Req :
    /\ pc[r] = "idle" => iss[r] = None
    /\ pc[r] # "idle" /\ flaw[r] \in PreChecks(iss[r]) =>
         verdict[r] = "rejected" /\ pc[r] = "done" /\ r \notin minted
    /\ PastVerify(r) => flaw[r] \notin PostChecks(iss[r])

\* The history invariants hold initially.
LEMMA HistoryInit == Init => SeqInv /\ FlawInv
  BY DEF Init, SeqInv, FlawInv, PastLookup, PastVerify

\* An arriving request has been granted nothing, and those it finds granted
\* have the row of their slot.
LEMMA HistoryArrive ==
  ASSUME IInv, SeqInv, FlawInv, NEW r \in Req, NEW i \in Issuer, NEW k \in Key,
         NEW c \in Card, NEW f \in Flaw \cup {"none"}, Arrive(r, i, k, c, f)
  PROVE  SeqInv' /\ FlawInv'
<1> DEFINE s == SlotOf(i, k, c)
<1> HIDE DEF s
<1>1. /\ pc[r] = "idle"
      /\ iss' = [iss EXCEPT ![r] = i]
      /\ slot' = [slot EXCEPT ![r] = s]
      /\ flaw' = [flaw EXCEPT ![r] = f]
      /\ before' = [before EXCEPT ![r] = {q \in Req : verdict[q] = "granted"}]
      /\ minted' = minted
      /\ \/ /\ f \in PreChecks(i)
            /\ pc' = [pc EXCEPT ![r] = "done"]
            /\ verdict' = [verdict EXCEPT ![r] = "rejected"]
         \/ /\ f \notin PreChecks(i)
            /\ pc' = [pc EXCEPT ![r] = "lookup"]
            /\ verdict' = verdict
  BY DEF Arrive, Finish, Goto, s
<1>2. r \notin minted /\ verdict[r] = "none"
  BY <1>1 DEF IInv, Stages
<1>3. \A q \in Req : r \notin before[q]
  BY <1>2 DEF SeqInv
<1>4. ASSUME NEW q \in Req, NEW t \in before'[q]
      PROVE  verdict'[t] = "granted" /\ (PastLookup(q)' => slot'[t] # slot'[q])
  <2>1. CASE q = r
    BY <1>1, <1>2, <1>4, <2>1 DEF PastLookup, IInv, TypeOK
  <2>2. CASE q # r
    <3>1. t \in before[q] /\ t # r /\ t \in Req
      BY <1>1, <1>3, <1>4, <2>2 DEF IInv, TypeOK
    <3> QED
      BY <1>1, <2>2, <3>1 DEF PastLookup, SeqInv, IInv, TypeOK
  <2> QED
    BY <2>1, <2>2
<1>5. FlawInv'
  BY <1>1, <1>2 DEF FlawInv, PastVerify, IInv, TypeOK
<1> QED
  BY <1>4, <1>5 DEF SeqInv

\* A step of one request: a grant is never taken back, and who passes the
\* lookup found no row, hence nobody granted the slot before.
LEMMA HistoryIssue ==
  ASSUME IInv, SeqInv, FlawInv, NEW r \in Req, Issue(r)
  PROVE  SeqInv' /\ FlawInv'
<1>1. /\ iss' = iss /\ slot' = slot /\ flaw' = flaw /\ before' = before
  BY DEF Issue, WorldcoinIssue, SkillCertIssue, CivicIssue, KycTestIssue, BankMockIssue,
         BankIssue, Lookup, Verify, Pin, Submit, PutOrThrow, Reload, PutIfAbsent,
         OverwriteOwn, askVars
<1>2. pc[r] \notin {"idle", "done"} /\ verdict[r] = "none"
  BY DEF Issue, WorldcoinIssue, SkillCertIssue, CivicIssue, KycTestIssue, BankMockIssue,
         BankIssue, Lookup, Verify, Pin, Submit, PutOrThrow, Reload, PutIfAbsent,
         OverwriteOwn, IInv, Stages
<1>3. /\ \A q \in Req : q # r => pc'[q] = pc[q] /\ verdict'[q] = verdict[q]
      /\ pc'[r] # "idle"
      /\ minted' \in {minted, minted \cup {r}}
      /\ PastLookup(r)' => PastLookup(r) \/ (pc[r] = "lookup" /\ store[slot[r]] = None)
      /\ PastVerify(r)' => \/ PastVerify(r)
                           \/ pc[r] = "lookup" /\ PostChecks(iss[r]) = {}
                           \/ pc[r] = "verify" /\ flaw[r] \notin PostChecks(iss[r])
  <2> USE DEF IInv, TypeOK, Goto, Finish, Fail, AnswerFrom, PastLookup, PastVerify
  <2>1. CASE Lookup(r)
    BY <2>1, <1>2 DEF Lookup
  <2>2. CASE Verify(r)
    BY <2>2, <1>2 DEF Verify
  <2>3. CASE Pin(r)
    BY <2>3 DEF Pin
  <2>4. CASE Submit(r)
    BY <2>4 DEF Submit
  <2>5. CASE PutOrThrow(r)
    BY <2>5 DEF PutOrThrow
  <2>6. CASE Reload(r)
    BY <2>6 DEF Reload
  <2>7. CASE PutIfAbsent(r)
    BY <2>7 DEF PutIfAbsent
  <2>8. CASE OverwriteOwn(r)
    BY <2>8 DEF OverwriteOwn
  <2> QED
    BY <2>1, <2>2, <2>3, <2>4, <2>5, <2>6, <2>7, <2>8
    DEF Issue, WorldcoinIssue, SkillCertIssue, CivicIssue, KycTestIssue, BankMockIssue, BankIssue
<1>4. ASSUME NEW q \in Req, NEW t \in before[q]
      PROVE  verdict'[t] = "granted" /\ (PastLookup(q)' => slot[t] # slot[q])
  <2>1. t \in Req /\ verdict[t] = "granted" /\ t # r
    BY <1>2, <1>4 DEF SeqInv, IInv, TypeOK
  <2>2. CASE q # r
    BY <1>1, <1>3, <1>4, <2>1, <2>2 DEF PastLookup, SeqInv
  <2>3. CASE q = r
    <3>1. store[slot[t]] # None
      BY <2>1 DEF IInv, GrantMatchesRow
    <3> QED
      BY <1>3, <1>4, <2>1, <2>3, <3>1 DEF SeqInv
  <2> QED
    BY <2>2, <2>3
<1>5. FlawInv'
  BY <1>1, <1>2, <1>3 DEF FlawInv, PastVerify
<1> QED
  BY <1>1, <1>4, <1>5 DEF SeqInv

\* A crash moves no request past a check.
LEMMA HistoryCrash ==
  ASSUME IInv, SeqInv, FlawInv, Crash
  PROVE  SeqInv' /\ FlawInv'
  BY DEF Crash, askVars, SeqInv, FlawInv, PastLookup, PastVerify, IInv, TypeOK, Stages, GrantMatchesRow

\* The history invariants hold throughout.
THEOREM HistoryInvariance == Spec => [](SeqInv /\ FlawInv)
<1>1. ASSUME IInv, SeqInv /\ FlawInv, [Next]_vars
      PROVE  (SeqInv /\ FlawInv)'
  <2>1. CASE UNCHANGED vars
    BY <1>1, <2>1 DEF vars, SeqInv, FlawInv, PastLookup, PastVerify
  <2> QED
    BY <1>1, <2>1, HistoryArrive, HistoryIssue, HistoryCrash DEF Next
<1> QED
  BY <1>1, HistoryInit, Invariance, PTL DEF Spec

\* A request made after another was granted the same slot never mints again,
\* under every interleaving and fault.
THEOREM NeverRemints == Spec => []SequentialNeverRemints
<1>1. SeqInv => SequentialNeverRemints
  BY DEF SeqInv, SequentialNeverRemints, PastLookup
<1> QED
  BY <1>1, HistoryInvariance, PTL

\* A request that fails a check of its issuer mints nothing; one that fails a
\* check made before the lookup is rejected.
THEOREM FlawedNeverMint == Spec => []FlawedGetsNothing
<1>1. FlawInv /\ IInv => FlawedGetsNothing
  BY DEF FlawInv, FlawedGetsNothing, PastVerify, IInv, Stages
<1> QED
  BY <1>1, HistoryInvariance, Invariance, PTL

\* The three together: nothing unwanted reaches the chain through any issuer.
THEOREM MintingIsSound == Spec => []MintingSound
BY RowsAreMinted, NeverRemints, FlawedNeverMint, PTL DEF MintingSound

-----------------------------------------------------------------------------
(* The issuers implement the binding register *)

abinding == [s \in Slot |-> IF store[s] = None THEN None ELSE card[store[s]]]
aask     == [r \in Req |-> IF slot[r] = None THEN None ELSE <<slot[r], card[r]>>]

\* A request under way is pending in the register, with its slot and card.
LEMMA PendingMaps ==
  ASSUME IInv, NEW r \in Req, pc[r] \notin {"idle", "done"}
  PROVE  /\ Reg!Pending(r)
         /\ slot[r] \in Slot /\ card[r] \in Card
         /\ aask[r][1] = slot[r] /\ aask[r][2] = card[r]
<1>1. slot[r] \in Slot /\ card[r] \in Card /\ verdict[r] = "none"
  BY DEF IInv, Stages
<1>2. aask[r] = <<slot[r], card[r]>> /\ aask[r] # None
  BY <1>1, SlotAssumption DEF aask
<1> QED
  BY <1>1, <1>2 DEF aask, Reg!Pending

\* The initial states are initial states of the register.
LEMMA InitRefines == Init => Reg!AInit
  BY DEF Init, Reg!AInit

\* An arrival is an Ask.
LEMMA ArriveRefines ==
  ASSUME IInv, NEW r \in Req, NEW i \in Issuer, NEW k \in Key, NEW c \in Card,
         NEW f \in Flaw \cup {"none"}, Arrive(r, i, k, c, f)
  PROVE  Reg!ANext
<1> DEFINE s == SlotOf(i, k, c)
<1>0. s \in Slot /\ s # None
  BY SlotOfType, SlotAssumption
<1> HIDE DEF s
<1>1. /\ pc[r] = "idle"
      /\ slot' = [slot EXCEPT ![r] = s]
      /\ card' = [card EXCEPT ![r] = c]
      /\ store' = store
      /\ verdict' = [verdict EXCEPT ![r] = "rejected"] \/ verdict' = verdict
  BY DEF Arrive, Finish, Goto, s
<1>2. /\ slot[r] = None /\ verdict[r] = "none" /\ r \notin minted
      /\ \A q \in Slot : store[q] # r
  BY <1>1, IssuerAssumption DEF IInv, Stages, RowIsMinted
<1>3. abinding' = abinding
  BY <1>1, <1>2 DEF abinding, IInv, TypeOK
<1>4. aask[r] = None /\ aask' = [aask EXCEPT ![r] = <<s, c>>]
  BY <1>0, <1>1, <1>2 DEF aask, IInv, TypeOK
<1>5. \E v \in {"none", "rejected"} : verdict' = [verdict EXCEPT ![r] = v]
  BY <1>1, <1>2 DEF IInv, TypeOK
<1>6. \E v \in {"none", "rejected"} : Reg!Ask(r, s, c, v)
  BY <1>3, <1>4, <1>5 DEF Reg!Ask, Reg!Answer, abinding, aask
<1> QED
  BY <1>0, <1>6 DEF Reg!ANext

\* A step that answers r from the row of its slot, or without one.
LEMMA AnswerRefines ==
  ASSUME IInv, NEW r \in Req, pc[r] \notin {"idle", "done"},
         UNCHANGED <<slot, card, store>>,
         \/ store[slot[r]] # None /\ AnswerFrom(r, store[slot[r]])
         \/ \E v \in {"rejected", "failed"} : Finish(r, v, None)
         \/ UNCHANGED verdict
  PROVE  [Reg!ANext]_(Reg!avars)
<1>1. abinding' = abinding /\ aask' = aask
  BY DEF abinding, aask
<1>2. /\ Reg!Pending(r) /\ slot[r] \in Slot
      /\ aask[r][1] = slot[r] /\ aask[r][2] = card[r]
  BY PendingMaps
<1>3. CASE store[slot[r]] # None /\ AnswerFrom(r, store[slot[r]])
  <2>1. abinding[slot[r]] = card[store[slot[r]]] /\ card[store[slot[r]]] # None
    BY <1>2, <1>3, IssuerAssumption DEF abinding, IInv, TypeOK, RowIsMinted, Stages
  <2>2. Reg!Grant(r) \/ Reg!Refuse(r)
    BY <1>1, <1>2, <1>3, <2>1 DEF AnswerFrom, Finish, Reg!Grant, Reg!Refuse, Reg!Answer,
       abinding, aask
  <2> QED
    BY <2>2 DEF Reg!ANext
<1>4. CASE \E v \in {"rejected", "failed"} : Finish(r, v, None)
  <2>1. \E v \in {"rejected", "failed"} : Reg!Abort(r, v)
    BY <1>1, <1>2, <1>4 DEF Finish, Reg!Abort, Reg!Answer, abinding, aask
  <2> QED
    BY <2>1 DEF Reg!ANext
<1>5. CASE UNCHANGED verdict
  BY <1>1, <1>5 DEF Reg!avars, abinding, aask
<1> QED
  BY <1>3, <1>4, <1>5

\* Writing a row binds the slot, or leaves the binding (civic's overwrite).
LEMMA WriteRefines ==
  ASSUME IInv, NEW r \in Req, pc[r] = "persist",
         store[slot[r]] # None => card[store[slot[r]]] = card[r],
         store' = [store EXCEPT ![slot[r]] = r],
         Finish(r, "granted", r),
         UNCHANGED <<slot, card>>
  PROVE  Reg!ANext
<1>1. aask' = aask
  BY DEF aask
<1>2. /\ Reg!Pending(r) /\ slot[r] \in Slot /\ card[r] \in Card
      /\ aask[r][1] = slot[r] /\ aask[r][2] = card[r]
  BY PendingMaps
<1>3. abinding' = [abinding EXCEPT ![slot[r]] = card[r]]
  BY <1>2, IssuerAssumption DEF abinding, IInv, TypeOK
<1>4. CASE store[slot[r]] = None
  <2>1. Reg!Bind(r)
    BY <1>1, <1>2, <1>3, <1>4 DEF Finish, Reg!Bind, Reg!Answer, abinding, aask
  <2> QED
    BY <2>1 DEF Reg!ANext
<1>5. CASE store[slot[r]] # None
  <2>1. abinding[slot[r]] = card[r] /\ abinding' = abinding
    BY <1>2, <1>3, <1>5 DEF abinding
  <2>2. Reg!Grant(r)
    BY <1>1, <1>2, <2>1 DEF Finish, Reg!Grant, Reg!Answer, abinding, aask
  <2> QED
    BY <2>2 DEF Reg!ANext
<1> QED
  BY <1>4, <1>5

\* Every step of a request is a step of the register or invisible to it.
LEMMA IssueRefines ==
  ASSUME IInv, NEW r \in Req, Issue(r)
  PROVE  [Reg!ANext]_(Reg!avars)
<1> USE DEF askVars, Goto, Fail
<1>1. CASE Lookup(r)
  BY <1>1, AnswerRefines DEF Lookup
<1>2. CASE Verify(r)
  BY <1>2, AnswerRefines DEF Verify
<1>3. CASE Pin(r)
  BY <1>3, AnswerRefines DEF Pin
<1>4. CASE Submit(r)
  BY <1>4, AnswerRefines DEF Submit
<1>5. CASE PutOrThrow(r)
  BY <1>5, AnswerRefines, WriteRefines DEF PutOrThrow
<1>6. CASE Reload(r)
  BY <1>6, AnswerRefines DEF Reload
<1>7. CASE PutIfAbsent(r)
  BY <1>7, AnswerRefines, WriteRefines DEF PutIfAbsent
<1>8. CASE OverwriteOwn(r)
  <2>1. CASE /\ store[slot[r]] # None => card[store[slot[r]]] = card[r]
             /\ store' = [store EXCEPT ![slot[r]] = r] /\ Finish(r, "granted", r)
    BY <1>8, <2>1, WriteRefines DEF OverwriteOwn
  <2>2. CASE /\ store[slot[r]] # None /\ card[store[slot[r]]] # card[r]
             /\ Finish(r, "conflict", None) /\ UNCHANGED store
    BY <1>8, <2>2, AnswerRefines DEF OverwriteOwn, AnswerFrom
  <2>3. CASE Finish(r, "failed", None) /\ UNCHANGED store
    BY <1>8, <2>3, AnswerRefines DEF OverwriteOwn
  <2> QED
    BY <1>8, <2>1, <2>2, <2>3 DEF OverwriteOwn
<1> QED
  BY <1>1, <1>2, <1>3, <1>4, <1>5, <1>6, <1>7, <1>8
  DEF Issue, WorldcoinIssue, SkillCertIssue, CivicIssue, KycTestIssue, BankMockIssue, BankIssue

\* A crash is a Lose.
LEMMA CrashRefines ==
  ASSUME IInv, Crash
  PROVE  Reg!ANext
<1>1. abinding' = abinding /\ aask' = aask
  BY DEF Crash, askVars, abinding, aask
<1>2. ASSUME NEW r \in Req
      PROVE  verdict'[r] = IF Reg!Pending(r) THEN "lost" ELSE verdict[r]
  <2>1. CASE pc[r] \in {"idle", "done"}
    <3>1. pc[r] = "idle" => aask[r] = None
      BY DEF aask, IInv, Stages
    <3>2. pc[r] = "done" => verdict[r] # "none"
      BY DEF IInv, Stages
    <3> QED
      BY <2>1, <3>1, <3>2 DEF Crash, Reg!Pending, aask
  <2>2. CASE pc[r] \notin {"idle", "done"}
    BY <2>2, PendingMaps DEF Crash
  <2> QED
    BY <2>1, <2>2
<1> QED
  BY <1>1, <1>2 DEF Crash, Reg!Lose, Reg!ANext, abinding, aask

\* The issuers implement the register: a slot is bound to the first card that
\* completes, for good, and every grant and conflict agrees with the binding.
THEOREM IssuersImplementRegister == Spec => Refines
<1>1. ASSUME IInv, [Next]_vars
      PROVE  [Reg!ANext]_(Reg!avars)
  <2>1. CASE UNCHANGED vars
    BY <2>1 DEF vars, Reg!avars
  <2> QED
    BY <1>1, <2>1, ArriveRefines, IssueRefines, CrashRefines DEF Next
<1> QED
  BY <1>1, InitRefines, Invariance, PTL DEF Spec, Refines, Reg!ASpec

=============================================================================
