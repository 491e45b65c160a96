-------------------------- MODULE TxSubmitter_proofs --------------------------
(***************************************************************************)
(* Proofs about TxSubmitter for any number of calls and keys, any timeouts *)
(* and delays with CleanupDelay <= StaleAge, and any retry limits: types,  *)
(* protection of idempotency keys, honest outcomes and timeouts.           *)
(***************************************************************************)
EXTENDS TxSubmitter, TLAPS

Loop == {"sending", "refreshing", "polling", "asking"}

\* What the position of a call says about it.
CallInv ==
  \A c \in Call :
    /\ pc[c] = "idle" => src[c] = None /\ result[c] = None
    /\ pc[c] \in Loop => src[c] = None /\ result[c] = None
    /\ pc[c] = "awaiting" => src[c] # None /\ result[c] = None
    /\ pc[c] \in {"idle", "sending", "polling", "asking"} => retries[c] <= MaxRetries

\* Submissions start before they settle, and a clean-up timer never waits
\* longer than its delay.
TimeInv ==
  \A c \in Call :
    /\ started[c] <= now
    /\ pc[c] = "done" /\ src[c] = None => started[c] <= settledAt[c] /\ settledAt[c] <= now
    /\ c \in timers => /\ pc[c] = "done" /\ src[c] = None /\ key[c] \in Key
                       /\ now <= settledAt[c] + CleanupDelay

\* An entry belongs to a submission of its key and carries its start time; a
\* coalesced call awaits a submission of its key.
EntryInv ==
  \A k \in Key : inFlight[k] # None =>
    /\ Owner(inFlight[k])
    /\ key[inFlight[k]] = k
    /\ stamp[k] = started[inFlight[k]]

AwaitInv ==
  \A c \in Call : src[c] # None => Owner(src[c]) /\ key[src[c]] = key[c]

\* The heart of the matter: a live submission is the one its key's entry
\* names, unless some submission of the key overran.
Protected ==
  \A k \in Key : Overran(k) \/ \A c \in Call : Live(c) /\ key[c] = k => inFlight[k] = c

\* A poll under way ends no sooner than the caller asked.
DeadlineInv ==
  \A c \in Call : pc[c] \in {"polling", "asking"} =>
    deadline[c] >= started[c] + budget[c] \/ deadline[c] = MaxNow

IInv == TypeOK /\ CallInv /\ TimeInv /\ EntryInv /\ AwaitInv /\ Protected

\* A submission that has not lost sight of its transaction knows that the
\* chain has none until a send is answered, and when it gives up.
SightInv ==
  \A c \in Call :
    /\ pc[c] \in {"idle", "sending", "refreshing"} => chain[c] = "none" \/ c \in doubt
    /\ src[c] = None /\ result[c] \in NoSignature => chain[c] = "none" \/ c \in doubt

\* What the owner of a submission is told, and that a joined call is told the
\* same: HonestOutcome and TimeoutNotEarly for every caller follow.
OwnInv ==
  \A c \in Call : src[c] = None =>
    /\ result[c] = "confirmed" => chain[c] = "ok"
    /\ result[c] = "exec_failed" => chain[c] = "failed"
    /\ result[c] = "timeout"
         => settledAt[c] - started[c] >= budget[c] \/ settledAt[c] = MaxNow

JoinedInv ==
  \A c \in Call : src[c] # None /\ result[c] # None => result[src[c]] = result[c]

PollInv == OwnInv /\ JoinedInv /\ DeadlineInv /\ SightInv

-----------------------------------------------------------------------------
\* A timeout is a number of ticks.
LEMMA TimeoutNat ==
  ASSUME NEW t \in Timeouts \cup {0}
  PROVE  t \in Nat
<1>1. Timeouts \subseteq Nat
  BY SubmitterAssumption
<1>2. CASE t \in Timeouts
  BY <1>1, <1>2
<1>3. CASE t = 0
  BY <1>3
<1> QED
  BY <1>2, <1>3

\* The initial states satisfy both invariants.
LEMMA InitInv == Init => IInv /\ PollInv
<1> SUFFICES ASSUME Init PROVE IInv /\ PollInv
  OBVIOUS
<1> USE SubmitterAssumption DEF Init
<1>1. TypeOK
  BY DEF TypeOK, PC, Outcome, TxState
<1>2. CallInv /\ TimeInv /\ EntryInv /\ AwaitInv
  BY DEF CallInv, TimeInv, EntryInv, AwaitInv, Loop
<1>3. Protected
  BY DEF Protected, Live, Open, Owner
<1>4. PollInv
  BY OutcomeAssumption DEF PollInv, OwnInv, JoinedInv, DeadlineInv, SightInv, NoSignature,
     Outcome
<1> QED
  BY <1>1, <1>2, <1>3, <1>4 DEF IInv

-----------------------------------------------------------------------------
(* The steps of a submission under way: what they have in common *)

StaysOpen(c) ==
  /\ \E l \in Loop : pc' = [pc EXCEPT ![c] = l]
  /\ UNCHANGED doneVars

Settles(c) ==
  \E r \in Outcome :
    /\ Settle(c, r)
    /\ r = "confirmed" => chain[c] = "ok"
    /\ r = "exec_failed" => chain[c] = "failed"
    /\ r = "timeout" => pc[c] = "polling" /\ now >= deadline[c]

Frame(c) ==
  /\ pc[c] \in Loop
  /\ UNCHANGED <<now, callVars, mapVars>>
  /\ StaysOpen(c) \/ Settles(c)
  /\ chain' = chain \/ (chain[c] = "none" /\ chain' = [chain EXCEPT ![c] = "pool"])
  /\ doubt' \in {doubt, doubt \cup {c}, doubt \ {c}}

RetriesBounded(c) ==
  pc[c] \in {"idle", "sending", "polling", "asking"} => retries[c] <= MaxRetries

\* The local variables after a step of c: in range, and unchanged elsewhere.
LocalsOK(c) ==
  /\ retries' \in [Call -> 0..(MaxRetries + 1)]
  /\ deadline' \in [Call -> 0..MaxNow]
  /\ pollErrs' \in [Call -> 0..(MaxPollErrors - 1)]
  /\ \A d \in Call : d # c => retries'[d] = retries[d] /\ deadline'[d] = deadline[d]
  /\ RetriesBounded(c)'
  /\ pc'[c] \in {"polling", "asking"} =>
       \/ deadline'[c] = deadline[c] /\ pc[c] \in {"polling", "asking"}
       \/ deadline'[c] >= started[c] + budget[c]
       \/ deadline'[c] = MaxNow

\* A promise that settles keeps the locals in range.
LEMMA SettleLocals ==
  ASSUME TypeOK, NEW c \in Call, NEW r \in Outcome, Settle(c, r)
  PROVE  LocalsOK(c)
  BY SubmitterAssumption DEF Settle, LocalsOK, RetriesBounded, TypeOK

\* The end of an iteration stays open or settles.
LEMMA IterationFrame ==
  ASSUME TypeOK, NEW c \in Call, NEW n \in 0..(MaxRetries + 1), NextIteration(c, n)
  PROVE  (StaysOpen(c) \/ Settles(c)) /\ LocalsOK(c)
<1>1. CASE n > MaxRetries /\ Settle(c, "exhausted")
  <2>1. "exhausted" \in Outcome
    BY DEF Outcome
  <2> QED
    BY <1>1, <2>1, SettleLocals DEF Settles
<1>2. CASE /\ n <= MaxRetries
           /\ retries' = [retries EXCEPT ![c] = n]
           /\ pc' = [pc EXCEPT ![c] = "sending"]
           /\ UNCHANGED <<deadline, pollErrs, doneVars>>
  BY <1>2, SubmitterAssumption DEF StaysOpen, Loop, LocalsOK, RetriesBounded, TypeOK
<1> QED
  BY <1>1, <1>2 DEF NextIteration

\* So does the catch block.
LEMMA ClassifyFrame ==
  ASSUME TypeOK, NEW c \in Call, NEW e \in ErrClass, retries[c] <= MaxRetries, Classify(c, e)
  PROVE  (StaysOpen(c) \/ Settles(c)) /\ LocalsOK(c)
<1>1. retries[c] + 1 \in 0..(MaxRetries + 1)
  BY SubmitterAssumption DEF TypeOK
<1>2. CASE /\ retries' = [retries EXCEPT ![c] = @ + 1]
           /\ pc' = [pc EXCEPT ![c] = "refreshing"]
           /\ UNCHANGED <<deadline, pollErrs, doneVars>>
  BY <1>1, <1>2, SubmitterAssumption DEF StaysOpen, Loop, LocalsOK, RetriesBounded, TypeOK
<1>3. CASE NextIteration(c, retries[c] + 1)
  BY <1>1, <1>3, IterationFrame
<1>4. CASE Settle(c, "non_retryable")
  <2>1. "non_retryable" \in Outcome
    BY DEF Outcome
  <2> QED
    BY <1>4, <2>1, SettleLocals DEF Settles
<1> QED
  BY <1>2, <1>3, <1>4 DEF Classify

\* Every step of Advance fits the frame.
LEMMA AdvanceFrame ==
  ASSUME IInv, NEW c \in Call, Advance(c)
  PROVE  Frame(c) /\ LocalsOK(c)
<1> USE SubmitterAssumption DEF IInv
<1>0. "timeout" \in Outcome /\ "rejected" \in Outcome /\ "confirmed" \in Outcome
      /\ "exec_failed" \in Outcome
  BY DEF Outcome
<1>1. CASE SendOk(c)
  <2>1. /\ now \in 0..MaxNow /\ budget[c] \in Nat /\ started[c] \in 0..MaxNow
        /\ started[c] <= now
    <3>1. budget[c] \in Timeouts \cup {0}
      BY DEF TypeOK
    <3>2. budget[c] \in Nat
      BY <3>1, TimeoutNat
    <3>3. now \in 0..MaxNow /\ started[c] \in 0..MaxNow
      BY DEF TypeOK
    <3>4. started[c] <= now
      BY DEF TimeInv
    <3> QED
      BY <3>2, <3>3, <3>4
  <2> DEFINE dl == MinOf(MaxNow, now + MaxOf(budget[c] - (now - started[c]), PollFloor))
  <2>2. dl \in 0..MaxNow /\ (dl >= started[c] + budget[c] \/ dl = MaxNow)
    BY <2>1 DEF MinOf, MaxOf
  <2> HIDE DEF dl
  <2>3. /\ pc[c] = "sending"
        /\ chain' = [chain EXCEPT ![c] = IF @ = "none" THEN "pool" ELSE @]
        /\ deadline' = [deadline EXCEPT ![c] = dl]
        /\ pollErrs' = [pollErrs EXCEPT ![c] = 0]
        /\ pc' = [pc EXCEPT ![c] = "polling"]
        /\ doubt' = doubt \ {c}
        /\ UNCHANGED <<now, callVars, retries, doneVars, mapVars>>
    BY <1>1 DEF SendOk, dl
  <2>4. Frame(c)
    BY <2>3 DEF Frame, StaysOpen, Loop, TypeOK
  <2>5. LocalsOK(c)
    BY <2>2, <2>3 DEF LocalsOK, RetriesBounded, TypeOK, CallInv
  <2> QED
    BY <2>4, <2>5
<1>2. CASE \E e \in ErrClass : SendErr(c, e)
  <2>1. PICK e \in ErrClass : SendErr(c, e)
    BY <1>2
  <2>2. pc[c] = "sending" /\ retries[c] <= MaxRetries /\ Classify(c, e)
    BY <2>1 DEF SendErr, CallInv
  <2> QED
    BY <2>1, <2>2, ClassifyFrame DEF SendErr, Frame, Loop
<1>3. CASE RefreshDone(c)
  <2>1. CASE NextIteration(c, retries[c])
    <3>1. retries[c] \in 0..(MaxRetries + 1)
      BY DEF TypeOK
    <3> QED
      BY <1>3, <2>1, <3>1, IterationFrame DEF RefreshDone, Frame, Loop
  <2>2. CASE Settle(c, "rejected")
    BY <1>0, <1>3, <2>2, SettleLocals DEF RefreshDone, Frame, Settles, Loop
  <2> QED
    BY <1>3, <2>1, <2>2 DEF RefreshDone
<1>4. CASE PollHead(c)
  <2>1. CASE now >= deadline[c] /\ Settle(c, "timeout")
    BY <1>0, <1>4, <2>1, SettleLocals DEF PollHead, Frame, Settles, Loop
  <2>2. CASE pc' = [pc EXCEPT ![c] = "asking"] /\ UNCHANGED <<loopVars, doneVars>>
    <3>1. LocalsOK(c)
      BY <1>4, <2>2 DEF PollHead, loopVars, LocalsOK, RetriesBounded, CallInv, TypeOK
    <3> QED
      BY <1>4, <2>2, <3>1 DEF PollHead, Frame, StaysOpen, Loop
  <2> QED
    BY <1>4, <2>1, <2>2 DEF PollHead
<1>5. CASE PollNotYet(c)
  <2>1. LocalsOK(c)
    BY <1>5 DEF PollNotYet, LocalsOK, RetriesBounded, CallInv, TypeOK
  <2> QED
    BY <1>5, <2>1 DEF PollNotYet, Frame, StaysOpen, Loop
<1>6. CASE PollReceipt(c)
  BY <1>0, <1>6, SettleLocals DEF PollReceipt, Frame, Settles, Loop
<1>7. CASE \E e \in ErrClass : PollError(c, e)
  <2>1. PICK e \in ErrClass : PollError(c, e)
    BY <1>7
  <2>2. pc[c] = "asking" /\ retries[c] <= MaxRetries
    BY <2>1 DEF PollError, CallInv
  <2>3. CASE Classify(c, e)
    BY <2>1, <2>2, <2>3, ClassifyFrame DEF PollError, Frame, Loop
  <2>4. CASE /\ pollErrs[c] + 1 < MaxPollErrors
             /\ pollErrs' = [pollErrs EXCEPT ![c] = @ + 1]
             /\ pc' = [pc EXCEPT ![c] = "polling"]
             /\ UNCHANGED <<retries, deadline, doneVars, doubt>>
    <3>1. LocalsOK(c)
      BY <2>2, <2>4 DEF LocalsOK, RetriesBounded, TypeOK
    <3> QED
      BY <2>1, <2>2, <2>4, <3>1 DEF PollError, Frame, StaysOpen, Loop
  <2> QED
    BY <2>1, <2>3, <2>4 DEF PollError
<1> QED
  BY <1>1, <1>2, <1>3, <1>4, <1>5, <1>6, <1>7 DEF Advance

\* The frame gives the types.
LEMMA FrameType ==
  ASSUME IInv, NEW c \in Call, Frame(c), LocalsOK(c)
  PROVE  TypeOK'
<1> USE DEF IInv
<1>1. pc' \in [Call -> PC] /\ chain' \in [Call -> TxState] /\ doubt' \in SUBSET Call
  BY DEF Frame, StaysOpen, Settles, Settle, Loop, PC, TxState, TypeOK
<1>2. /\ result' \in [Call -> Outcome \cup {None}]
      /\ settledAt' \in [Call -> 0..MaxNow]
      /\ timers' \in SUBSET Call
  BY DEF Frame, StaysOpen, Settles, Settle, doneVars, TypeOK
<1> QED
  BY <1>1, <1>2 DEF Frame, LocalsOK, callVars, mapVars, TypeOK

\* A step of c keeps what it is to be an owner or live, and lets nothing
\* shorten a submission that overran.
LEMMA FrameLive ==
  ASSUME IInv, NEW c \in Call, Frame(c)
  PROVE  /\ \A d \in Call : Owner(d)' <=> Owner(d)
         /\ \A d \in Call : Live(d)' /\ key[d] \in Key => Live(d)
         /\ \A k \in Key : Overran(k) => Overran(k)'
<1> USE DEF IInv
<1>1. /\ now' = now /\ key' = key /\ src' = src /\ started' = started
      /\ pc[c] \in Loop /\ src[c] = None
  BY DEF Frame, callVars, CallInv
<1>2. CASE StaysOpen(c)
  <2>1. /\ settledAt' = settledAt /\ timers' = timers
        /\ \A d \in Call : d # c => pc'[d] = pc[d]
        /\ pc'[c] \in Loop
    BY <1>2 DEF StaysOpen, doneVars, TypeOK
  <2>2. \A d \in Call : Owner(d)' <=> Owner(d)
    BY <1>1, <2>1 DEF Owner, Loop
  <2>3. \A d \in Call : Live(d)' <=> Live(d)
    BY <1>1, <2>1, <2>2 DEF Live, Open, Loop
  <2>4. \A d \in Call : Duration(d)' = Duration(d)
    BY <1>1, <2>1 DEF Duration, Loop
  <2>5. \A k \in Key : Overran(k) => Overran(k)'
    BY <1>1, <2>2, <2>4 DEF Overran
  <2> QED
    BY <2>2, <2>3, <2>5
<1>3. CASE Settles(c)
  <2>1. /\ \A d \in Call : d # c => pc'[d] = pc[d] /\ settledAt'[d] = settledAt[d]
        /\ pc'[c] = "done" /\ settledAt'[c] = now
        /\ timers' \in {timers, timers \cup {c}}
    BY <1>3 DEF Settles, Settle, TypeOK
  <2>2. \A d \in Call : Owner(d)' <=> Owner(d)
    BY <1>1, <2>1 DEF Owner, Loop
  <2>3. \A d \in Call : Live(d)' => Live(d)
    BY <1>1, <2>1, <2>2 DEF Live, Open, Owner, Loop
  <2>4. \A d \in Call : Duration(d)' = Duration(d)
    BY <1>1, <2>1 DEF Duration, Loop
  <2>5. \A k \in Key : Overran(k) => Overran(k)'
    BY <1>1, <2>2, <2>4 DEF Overran
  <2> QED
    BY <2>2, <2>3, <2>5
<1> QED
  BY <1>2, <1>3 DEF Frame

\* A step of a submission under way preserves the invariant.
LEMMA AdvanceInv ==
  ASSUME IInv, NEW c \in Call, Advance(c)
  PROVE  IInv'
<1> USE SubmitterAssumption DEF IInv
<1>0. Frame(c) /\ LocalsOK(c)
  BY AdvanceFrame
<1>1. TypeOK'
  BY <1>0, FrameType
<1>2. /\ now' = now /\ key' = key /\ src' = src /\ started' = started
      /\ inFlight' = inFlight /\ stamp' = stamp
      /\ pc[c] \in Loop /\ src[c] = None
  BY <1>0 DEF Frame, callVars, mapVars, CallInv
<1>3. CallInv'
  <2>1. \A d \in Call : d # c => /\ pc'[d] = pc[d] /\ result'[d] = result[d]
                                 /\ retries'[d] = retries[d]
    BY <1>0 DEF Frame, StaysOpen, Settles, Settle, doneVars, LocalsOK, TypeOK
  <2>2. pc'[c] = "done" \/ (pc'[c] \in Loop /\ result'[c] = result[c])
    BY <1>0 DEF Frame, StaysOpen, Settles, Settle, doneVars, TypeOK
  <2> QED
    BY <1>0, <1>2, <2>1, <2>2 DEF CallInv, LocalsOK, RetriesBounded, Loop
<1>4. TimeInv'
  <2>1. CASE StaysOpen(c)
    BY <1>2, <2>1 DEF StaysOpen, doneVars, TimeInv, TypeOK, Loop
  <2>2. CASE Settles(c)
    <3>1. /\ pc' = [pc EXCEPT ![c] = "done"]
          /\ settledAt' = [settledAt EXCEPT ![c] = now]
          /\ timers' = IF key[c] = NoKey THEN timers ELSE timers \cup {c}
      BY <2>2 DEF Settles, Settle
    <3>2. c \notin timers
      BY <1>2 DEF TimeInv, Loop
    <3>3. key[c] = NoKey \/ key[c] \in Key
      BY DEF TypeOK
    <3> QED
      BY <1>2, <3>1, <3>2, <3>3 DEF TimeInv, TypeOK
  <2> QED
    BY <1>0, <2>1, <2>2 DEF Frame
<1>5. EntryInv' /\ AwaitInv'
  BY <1>0, <1>2, FrameLive DEF EntryInv, AwaitInv, TypeOK
<1>6. Protected'
  BY <1>0, <1>2, FrameLive DEF Protected
<1> QED
  BY <1>1, <1>3, <1>4, <1>5, <1>6

\* Joining an entry makes neither an owner nor anything live.
LEMMA CoalesceInv ==
  ASSUME IInv, NEW c \in Call, NEW k \in Key, Coalesce(c, k)
  PROVE  IInv'
<1> USE SubmitterAssumption DEF IInv
<1>1. /\ pc[c] = "idle" /\ inFlight[k] # None
      /\ pc' = [pc EXCEPT ![c] = "awaiting"]
      /\ key' = [key EXCEPT ![c] = k]
      /\ src' = [src EXCEPT ![c] = inFlight[k]]
      /\ UNCHANGED <<now, budget, started, retries, deadline, pollErrs, result,
                     settledAt, inFlight, stamp, timers, chain, doubt>>
  BY DEF Coalesce, mapVars
<1>2. inFlight[k] \in Call /\ Owner(inFlight[k]) /\ key[inFlight[k]] = k /\ inFlight[k] # c
  BY <1>1 DEF EntryInv, TypeOK, Owner
<1>3. TypeOK'
  BY <1>1, <1>2 DEF TypeOK, PC
<1>4. CallInv' /\ TimeInv'
  BY <1>1, <1>2 DEF CallInv, TimeInv, TypeOK, Loop
<1>5. \A d \in Call : (Owner(d)' <=> Owner(d)) /\ (Owner(d) => d # c /\ key'[d] = key[d])
  BY <1>1, <1>2 DEF Owner, CallInv, TypeOK
<1>6. EntryInv'
  BY <1>1, <1>5 DEF EntryInv, TypeOK
<1>7. AwaitInv'
  BY <1>1, <1>2, <1>5 DEF AwaitInv, TypeOK
<1>8. \A d \in Call : Live(d)' => Live(d) /\ d # c
  BY <1>1, <1>5 DEF Live, Open, TypeOK, TimeInv
<1>9. \A j \in Key : Overran(j) => Overran(j)'
  BY <1>1, <1>5 DEF Overran, Duration, TypeOK
<1>10. Protected'
  BY <1>1, <1>8, <1>9 DEF Protected, TypeOK
<1> QED
  BY <1>3, <1>4, <1>6, <1>7, <1>10

\* A new submission starts only when its key has no entry, so nothing of the
\* key is live unless something overran, and then registers itself.
LEMMA StartInv ==
  ASSUME IInv, NEW c \in Call, NEW k \in Key \cup {NoKey}, NEW t \in Timeouts,
         StartSubmission(c, k, t)
  PROVE  IInv'
<1> USE SubmitterAssumption DEF IInv
<1>1. /\ pc[c] = "idle" /\ (k \in Key => inFlight[k] = None)
      /\ pc' = [pc EXCEPT ![c] = "sending"]
      /\ key' = [key EXCEPT ![c] = k]
      /\ budget' = [budget EXCEPT ![c] = t]
      /\ started' = [started EXCEPT ![c] = now]
      /\ inFlight' = [j \in Key |-> IF j = k THEN c ELSE inFlight[j]]
      /\ stamp' = [j \in Key |-> IF j = k THEN now ELSE stamp[j]]
      /\ UNCHANGED <<now, src, retries, deadline, pollErrs, result, settledAt,
                     timers, chain, doubt>>
  BY DEF StartSubmission
<1>2. src[c] = None /\ c \notin timers /\ \A j \in Key : inFlight[j] # c
  BY <1>1 DEF CallInv, TimeInv, EntryInv, Owner
<1>3. TypeOK'
  BY <1>1 DEF TypeOK, PC
<1>4. CallInv' /\ TimeInv'
  BY <1>1, <1>2 DEF CallInv, TimeInv, TypeOK, Loop
<1>5. \A d \in Call : Owner(d)' <=> (Owner(d) \/ d = c)
  BY <1>1, <1>2 DEF Owner, TypeOK
<1>6. ~Owner(c) /\ \A d \in Call : d # c => key'[d] = key[d] /\ started'[d] = started[d]
  BY <1>1 DEF Owner, TypeOK
<1>7. EntryInv'
  BY <1>1, <1>2, <1>5, <1>6 DEF EntryInv, TypeOK
<1>8. AwaitInv'
  BY <1>1, <1>2, <1>5, <1>6 DEF AwaitInv, TypeOK
<1>9. \A d \in Call : d # c => (Live(d)' <=> Live(d))
  BY <1>1, <1>5 DEF Live, Open, TypeOK
<1>10. \A j \in Key : Overran(j) => Overran(j)'
  <2> SUFFICES ASSUME NEW j \in Key, NEW d \in Call, Owner(d), key[d] = j,
                      Duration(d) > StaleAge - CleanupDelay
               PROVE  Owner(d)' /\ key'[d] = j /\ Duration(d)' > StaleAge - CleanupDelay
    BY DEF Overran
  <2> QED
    BY <1>1, <1>5, <1>6 DEF Duration, TypeOK
<1>11. Protected'
  <2> SUFFICES ASSUME NEW j \in Key, ~Overran(j)', NEW d \in Call, Live(d)', key'[d] = j
               PROVE  inFlight'[j] = d
    BY DEF Protected
  <2>1. \A e \in Call : Live(e) /\ key[e] = j => inFlight[j] = e
    BY <1>10 DEF Protected
  <2>2. CASE d = c
    BY <1>1, <2>2 DEF TypeOK
  <2>3. CASE d # c
    BY <1>1, <1>6, <1>9, <2>1, <2>3
  <2> QED
    BY <2>2, <2>3
<1> QED
  BY <1>3, <1>4, <1>7, <1>8, <1>11


\* A coalesced call that is answered was never an owner.
LEMMA CoalescedAnswerInv ==
  ASSUME IInv, NEW c \in Call, CoalescedAnswer(c)
  PROVE  IInv'
<1> USE SubmitterAssumption DEF IInv
<1>1. /\ pc[c] = "awaiting" /\ pc[src[c]] = "done"
      /\ pc' = [pc EXCEPT ![c] = "done"]
      /\ result' = [result EXCEPT ![c] = result[src[c]]]
      /\ UNCHANGED <<now, key, src, budget, started, retries, deadline, pollErrs,
                     settledAt, inFlight, stamp, timers, chain, doubt>>
  BY DEF CoalescedAnswer, callVars, loopVars, mapVars
<1>2. src[c] \in Call /\ src[c] # None /\ c \notin timers
  BY <1>1 DEF CallInv, TimeInv, TypeOK
<1>3. TypeOK'
  BY <1>1, <1>2 DEF TypeOK, PC
<1>4. CallInv' /\ TimeInv'
  BY <1>1, <1>2 DEF CallInv, TimeInv, TypeOK, Loop
<1>5. \A d \in Call : Owner(d)' <=> Owner(d)
  BY <1>1, <1>2 DEF Owner, TypeOK
<1>6. EntryInv' /\ AwaitInv'
  BY <1>1, <1>5 DEF EntryInv, AwaitInv, TypeOK
<1>7. \A d \in Call : (Live(d)' <=> Live(d)) /\ (Owner(d) => Duration(d)' = Duration(d))
  BY <1>1, <1>2, <1>5 DEF Live, Open, Owner, Duration, TypeOK
<1>8. \A j \in Key : Overran(j) => Overran(j)'
  BY <1>1, <1>5, <1>7 DEF Overran
<1>9. Protected'
  BY <1>1, <1>7, <1>8 DEF Protected
<1> QED
  BY <1>3, <1>4, <1>6, <1>9

\* The clean-up timer deletes the entry of its key whoever holds it; unless
\* something overran that is its own submission, the only live one.
LEMMA CleanupInv ==
  ASSUME IInv, NEW c \in Call, CleanupTimer(c)
  PROVE  IInv'
<1> USE SubmitterAssumption DEF IInv
<1>1. /\ c \in timers
      /\ timers' = timers \ {c}
      /\ inFlight' = [inFlight EXCEPT ![key[c]] = None]
      /\ stamp' = [stamp EXCEPT ![key[c]] = 0]
      /\ UNCHANGED <<now, pc, key, src, budget, started, retries, deadline, pollErrs,
                     result, settledAt, chain, doubt>>
  BY DEF CleanupTimer, callVars, loopVars
<1>2. key[c] \in Key /\ pc[c] = "done" /\ src[c] = None
  BY <1>1 DEF TimeInv
<1>3. TypeOK'
  BY <1>1, <1>2 DEF TypeOK
<1>4. CallInv' /\ TimeInv'
  BY <1>1 DEF CallInv, TimeInv
<1>5. EntryInv' /\ AwaitInv'
  BY <1>1, <1>2 DEF EntryInv, AwaitInv, Owner, TypeOK
<1>6. \A d \in Call : Live(d)' => Live(d) /\ d # c
  BY <1>1, <1>2 DEF Live, Open, Owner
<1>7. Live(c)
  BY <1>1 DEF Live
<1>8. \A j \in Key : Overran(j) => Overran(j)'
  BY <1>1 DEF Overran, Owner, Duration
<1>9. Protected'
  <2> SUFFICES ASSUME NEW j \in Key, ~Overran(j)', NEW d \in Call, Live(d)', key'[d] = j
               PROVE  inFlight'[j] = d
    BY DEF Protected
  <2>1. \A e \in Call : Live(e) /\ key[e] = j => inFlight[j] = e
    BY <1>8 DEF Protected
  <2>2. Live(d) /\ d # c /\ key[d] = j
    BY <1>1, <1>6
  <2>3. j # key[c]
    BY <1>7, <2>1, <2>2
  <2> QED
    BY <1>1, <2>1, <2>2, <2>3 DEF TypeOK
<1> QED
  BY <1>3, <1>4, <1>5, <1>9

\* The sweeper drops an entry older than StaleAge.  A live submission behind
\* it would have run for longer than StaleAge - CleanupDelay.
LEMMA SweepInv ==
  ASSUME IInv, Sweep
  PROVE  IInv'
<1> USE SubmitterAssumption DEF IInv
<1>1. /\ inFlight' = [k \in Key |-> IF Stale(k) THEN None ELSE inFlight[k]]
      /\ stamp' = [k \in Key |-> IF Stale(k) THEN 0 ELSE stamp[k]]
      /\ UNCHANGED <<now, pc, key, src, budget, started, retries, deadline, pollErrs,
                     result, settledAt, timers, chain, doubt>>
  BY DEF Sweep, callVars, loopVars
<1>2. TypeOK'
  BY <1>1 DEF TypeOK
<1>3. CallInv' /\ TimeInv' /\ AwaitInv'
  BY <1>1 DEF CallInv, TimeInv, AwaitInv, Owner
<1>4. EntryInv'
  BY <1>1 DEF EntryInv, Owner, TypeOK
<1>5. \A d \in Call : Live(d)' <=> Live(d)
  BY <1>1 DEF Live, Open, Owner
<1>6. \A j \in Key : Overran(j) => Overran(j)'
  BY <1>1 DEF Overran, Owner, Duration
<1>7. ASSUME NEW j \in Key, Stale(j), ~Overran(j), NEW d \in Call, Live(d), key[d] = j
      PROVE  FALSE
  <2>1. inFlight[j] = d
    BY <1>7 DEF Protected
  <2>2. Owner(d) /\ started[d] < now - StaleAge
    BY <1>7, <2>1 DEF EntryInv, Stale
  <2>3. started[d] \in Nat /\ now \in Nat /\ settledAt[d] \in Nat
    BY DEF TypeOK
  <2>4. CASE pc[d] # "done"
    BY <1>7, <2>2, <2>3, <2>4 DEF Overran, Duration
  <2>5. CASE pc[d] = "done"
    <3>1. d \in timers
      BY <1>7, <2>5 DEF Live, Open
    <3>2. now <= settledAt[d] + CleanupDelay
      BY <3>1 DEF TimeInv
    <3>3. settledAt[d] - started[d] > StaleAge - CleanupDelay
      BY <2>2, <2>3, <3>2
    <3> QED
      BY <1>7, <2>2, <2>5, <3>3 DEF Overran, Duration
  <2> QED
    BY <2>4, <2>5
<1>8. Protected'
  <2> SUFFICES ASSUME NEW j \in Key, ~Overran(j)', NEW d \in Call, Live(d)', key'[d] = j
               PROVE  inFlight'[j] = d
    BY DEF Protected
  <2>1. ~Overran(j) /\ Live(d) /\ key[d] = j
    BY <1>1, <1>5, <1>6
  <2>2. ~Stale(j)
    BY <1>7, <2>1
  <2> QED
    BY <1>1, <2>1, <2>2 DEF Protected
<1> QED
  BY <1>2, <1>3, <1>4, <1>8

\* Time passes only while no timer is due; what overran stays overrun.
LEMMA TickInv ==
  ASSUME IInv, Tick
  PROVE  IInv'
<1> USE SubmitterAssumption DEF IInv
<1>1. /\ now < MaxNow /\ now' = now + 1
      /\ \A c \in timers : now < settledAt[c] + CleanupDelay
      /\ UNCHANGED <<pc, key, src, budget, started, retries, deadline, pollErrs, result,
                     settledAt, inFlight, stamp, timers, chain, doubt>>
  BY DEF Tick, callVars, loopVars, mapVars
<1>2. TypeOK'
  BY <1>1 DEF TypeOK
<1>3. CallInv' /\ EntryInv' /\ AwaitInv'
  BY <1>1 DEF CallInv, EntryInv, AwaitInv, Owner
<1>4. TimeInv'
  BY <1>1 DEF TimeInv, TypeOK
<1>5. \A d \in Call : Live(d)' <=> Live(d)
  BY <1>1 DEF Live, Open, Owner
<1>6. \A j \in Key : Overran(j) => Overran(j)'
  <2> SUFFICES ASSUME NEW d \in Call, Duration(d) > StaleAge - CleanupDelay
               PROVE  Duration(d)' > StaleAge - CleanupDelay
    BY <1>1 DEF Overran, Owner
  <2> QED
    BY <1>1 DEF Duration, TypeOK
<1>7. Protected'
  BY <1>1, <1>5, <1>6 DEF Protected
<1> QED
  BY <1>2, <1>3, <1>4, <1>7

\* The chain touches nothing of the submitter.
LEMMA ChainInv ==
  ASSUME IInv, NEW c \in Call, ChainStep(c)
  PROVE  IInv'
<1>1. UNCHANGED <<now, pc, key, src, budget, started, retries, deadline, pollErrs, result,
                  settledAt, inFlight, stamp, timers, doubt>>
      /\ chain' \in [Call -> TxState]
  BY DEF ChainStep, callVars, loopVars, mapVars, IInv, TypeOK, TxState
<1> QED
  BY <1>1 DEF IInv, TypeOK, CallInv, TimeInv, EntryInv, AwaitInv, Protected, Overran, Live,
     Open, Owner, Duration

\* The invariant is inductive.
LEMMA NextInv ==
  ASSUME IInv, [Next]_vars
  PROVE  IInv'
<1>1. CASE UNCHANGED vars
  BY <1>1 DEF vars, IInv, TypeOK, CallInv, TimeInv, EntryInv, AwaitInv, Protected, Overran,
     Live, Open, Owner, Duration
<1> QED
  BY <1>1, CoalesceInv, StartInv, CoalescedAnswerInv, AdvanceInv, CleanupInv, SweepInv,
     ChainInv, TickInv DEF Next

-----------------------------------------------------------------------------
(* What callers are told *)

\* A step of a submission under way sees what its transaction did: the chain
\* has none as before, or a send was answered, or sight of it is lost.
LEMMA AdvanceSight ==
  ASSUME IInv, NEW c \in Call, Advance(c)
  PROVE  \/ c \in doubt'
         \/ pc'[c] \in {"polling", "asking"}
         \/ pc'[c] = "done" /\ result'[c] \in {"confirmed", "exec_failed", "timeout"}
         \/ /\ pc[c] \in {"sending", "refreshing"} /\ chain'[c] = chain[c]
            /\ c \in doubt => c \in doubt'
<1> USE DEF IInv
<1>1. ASSUME NEW e \in ErrClass, SendErr(c, e)
      PROVE  c \in doubt' \/ (chain' = chain /\ doubt' = doubt /\ pc[c] = "sending")
  BY <1>1 DEF SendErr
<1>2. ASSUME NEW e \in ErrClass, PollError(c, e)
      PROVE  c \in doubt' \/ pc'[c] = "polling"
  BY <1>2 DEF PollError, TypeOK
<1>3. CASE SendOk(c) \/ PollNotYet(c)
  BY <1>3 DEF SendOk, PollNotYet, TypeOK
<1>4. CASE PollHead(c) \/ PollReceipt(c)
  BY <1>4 DEF PollHead, PollReceipt, Settle, TypeOK
<1>5. CASE RefreshDone(c)
  BY <1>5 DEF RefreshDone
<1> QED
  BY <1>1, <1>2, <1>3, <1>4, <1>5 DEF Advance

\* A step of a submission under way keeps answers honest: it settles as
\* confirmed or failed on a receipt only, as timed out past its deadline, and
\* as failed without a signature only with nothing on the chain or in doubt.
LEMMA AdvancePoll ==
  ASSUME IInv, PollInv, NEW c \in Call, Advance(c)
  PROVE  PollInv'
<1> USE SubmitterAssumption, OutcomeAssumption DEF PollInv
<1>0. Frame(c) /\ LocalsOK(c)
  BY AdvanceFrame
<1>1. /\ now' = now /\ key' = key /\ src' = src /\ started' = started /\ budget' = budget
      /\ pc[c] \in Loop /\ src[c] = None /\ result[c] = None
  BY <1>0 DEF Frame, callVars, IInv, CallInv
<1>2. \A d \in Call : d # c => /\ pc'[d] = pc[d] /\ result'[d] = result[d]
                               /\ settledAt'[d] = settledAt[d] /\ chain'[d] = chain[d]
                               /\ (d \in doubt' <=> d \in doubt)
  BY <1>0 DEF Frame, StaysOpen, Settles, Settle, doneVars, IInv, TypeOK
<1>3. chain[c] \in {"ok", "failed"} => chain'[c] = chain[c]
  BY <1>0 DEF Frame
<1>4. \/ pc'[c] \in Loop /\ result'[c] = None
      \/ /\ pc'[c] = "done" /\ settledAt'[c] = now
         /\ result'[c] = "confirmed" => chain[c] = "ok"
         /\ result'[c] = "exec_failed" => chain[c] = "failed"
         /\ result'[c] = "timeout" => pc[c] = "polling" /\ now >= deadline[c]
  BY <1>0, <1>1 DEF Frame, StaysOpen, Settles, Settle, doneVars, IInv, TypeOK
<1>5. OwnInv'
  <2>1. ASSUME result'[c] = "timeout"
        PROVE  settledAt'[c] - started[c] >= budget[c] \/ settledAt'[c] = MaxNow
    <3>1. settledAt'[c] = now /\ now >= deadline[c] /\ pc[c] = "polling"
      BY <1>4, <2>1 DEF Outcome
    <3>2. now \in 0..MaxNow /\ started[c] \in Nat /\ deadline[c] \in 0..MaxNow
      BY DEF IInv, TypeOK
    <3>3. budget[c] \in Timeouts \cup {0}
      BY DEF IInv, TypeOK
    <3>4. budget[c] \in Nat
      BY <3>3, TimeoutNat
    <3>5. deadline[c] >= started[c] + budget[c] \/ deadline[c] = MaxNow
      BY <3>1 DEF DeadlineInv
    <3> QED
      BY <3>1, <3>2, <3>4, <3>5
  <2>2. /\ result'[c] = "confirmed" => chain'[c] = "ok"
        /\ result'[c] = "exec_failed" => chain'[c] = "failed"
    BY <1>3, <1>4 DEF Outcome, Loop
  <2> QED
    BY <1>1, <1>2, <2>1, <2>2 DEF OwnInv
<1>6. JoinedInv'
  BY <1>1, <1>2 DEF JoinedInv, IInv, TypeOK
<1>7. DeadlineInv'
  BY <1>0, <1>1, <1>2 DEF DeadlineInv, LocalsOK
<1>8. SightInv'
  <2>1. chain'[c] = "none" \/ c \in doubt' \/ pc'[c] \in {"polling", "asking"}
        \/ (pc'[c] = "done" /\ result'[c] \in {"confirmed", "exec_failed", "timeout"})
    BY AdvanceSight DEF SightInv
  <2>2. pc'[c] \in {"polling", "asking"} => result'[c] = None
    BY <1>4
  <2> QED
    BY <1>1, <1>2, <2>1, <2>2 DEF SightInv, NoSignature, Outcome
<1> QED
  BY <1>5, <1>6, <1>7, <1>8

\* A coalesced answer repeats that of its submission; a receipt never changes.
LEMMA OtherPoll ==
  ASSUME IInv, PollInv,
         \/ \E c \in Call, k \in Key : Coalesce(c, k)
         \/ \E c \in Call, k \in Key \cup {NoKey}, t \in Timeouts : StartSubmission(c, k, t)
         \/ \E c \in Call : CoalescedAnswer(c)
         \/ \E c \in Call : ChainStep(c)
  PROVE  PollInv'
<1> USE SubmitterAssumption, OutcomeAssumption
    DEF PollInv, IInv, OwnInv, JoinedInv, DeadlineInv, SightInv
<1>1. ASSUME NEW c \in Call, NEW k \in Key, Coalesce(c, k)
      PROVE  PollInv'
  <2>1. /\ pc[c] = "idle" /\ result[c] = None /\ src[c] = None
        /\ inFlight[k] \in Call /\ inFlight[k] # None
    BY <1>1 DEF Coalesce, EntryInv, CallInv, TypeOK, Owner
  <2> QED
    BY <1>1, <2>1 DEF Coalesce, mapVars, TypeOK
<1>2. ASSUME NEW c \in Call, NEW k \in Key \cup {NoKey}, NEW t \in Timeouts,
             StartSubmission(c, k, t)
      PROVE  PollInv'
  <2>1. pc[c] = "idle" /\ result[c] = None /\ src[c] = None
    BY <1>2 DEF StartSubmission, CallInv
  <2> QED
    BY <1>2, <2>1 DEF StartSubmission, TypeOK, Outcome, NoSignature
<1>3. ASSUME NEW c \in Call, CoalescedAnswer(c)
      PROVE  PollInv'
  <2>1. pc[c] = "awaiting" /\ src[c] # None /\ src[c] \in Call /\ src[src[c]] = None
    BY <1>3 DEF CoalescedAnswer, CallInv, AwaitInv, Owner, TypeOK
  <2>2. \A d \in Call : src[d] # None => src[d] # c
    BY <2>1 DEF AwaitInv, Owner
  <2> QED
    BY <1>3, <2>1, <2>2 DEF CoalescedAnswer, callVars, loopVars, mapVars, TypeOK
<1>4. ASSUME NEW c \in Call, ChainStep(c)
      PROVE  PollInv'
  BY <1>4 DEF ChainStep, callVars, loopVars, mapVars, TypeOK
<1> QED
  BY <1>1, <1>2, <1>3, <1>4

\* Answers stay honest through every step.
LEMMA NextPoll ==
  ASSUME IInv, PollInv, [Next]_vars
  PROVE  PollInv'
<1>1. CASE UNCHANGED <<pc, key, src, budget, started, deadline, result, settledAt, chain,
                       doubt>>
  BY <1>1 DEF PollInv, OwnInv, JoinedInv, DeadlineInv, SightInv
<1>2. CASE UNCHANGED vars \/ Tick \/ Sweep \/ \E c \in Call : CleanupTimer(c)
  BY <1>1, <1>2 DEF vars, Tick, Sweep, CleanupTimer, callVars, loopVars
<1> QED
  BY <1>2, AdvancePoll, OtherPoll DEF Next

\* A caller that joined hears what the owner hears, of the same submission.
LEMMA CallersHear ==
  ASSUME IInv, PollInv
  PROVE  HonestOutcome /\ TimeoutNotEarly
<1> SUFFICES ASSUME NEW c \in Call
             PROVE  /\ result[c] = "confirmed" => chain[Submission(c)] = "ok"
                    /\ result[c] = "exec_failed" => chain[Submission(c)] = "failed"
                    /\ result[c] \in NoSignature
                         => chain[Submission(c)] = "none" \/ Submission(c) \in doubt
                    /\ src[c] # None => key[Submission(c)] = key[c] /\ src[Submission(c)] = None
                    /\ result[c] = "timeout"
                         => \/ settledAt[Submission(c)] - started[Submission(c)]
                                 >= budget[Submission(c)]
                            \/ settledAt[Submission(c)] = MaxNow
  BY DEF HonestOutcome, TimeoutNotEarly
<1>1. None # "confirmed" /\ None # "exec_failed" /\ None # "timeout" /\ None \notin NoSignature
  BY OutcomeAssumption DEF Outcome, NoSignature
<1>2. CASE src[c] = None
  BY <1>2 DEF Submission, PollInv, OwnInv, SightInv
<1>3. CASE src[c] # None
  <2>1. src[c] \in Call /\ src[src[c]] = None /\ key[src[c]] = key[c]
    BY <1>3 DEF IInv, TypeOK, AwaitInv, Owner
  <2>2. result[c] # None => result[src[c]] = result[c]
    BY <1>3 DEF PollInv, JoinedInv
  <2> QED
    BY <1>1, <1>3, <2>1, <2>2 DEF Submission, PollInv, OwnInv, SightInv
<1> QED
  BY <1>2, <1>3

-----------------------------------------------------------------------------
(* The theorems *)

\* Both invariants hold in every behaviour.
THEOREM Invariance == Spec => [](IInv /\ PollInv)
  BY InitInv, NextInv, NextPoll, PTL DEF Spec

\* Every variable keeps its type; in particular retries and consecutive poll
\* errors never pass their limits.
THEOREM TypeCorrect == Spec => []TypeOK
<1>1. IInv => TypeOK
  BY DEF IInv
<1> QED
  BY <1>1, Invariance, PTL

\* Neither the timer nor the sweeper exposes a key that is still protected:
\* two live submissions of a key exist only if one of the key ran for more
\* than StaleAge - CleanupDelay.
THEOREM KeysAreProtected == Spec => []OneLivePerKey
<1>1. IInv => OneLivePerKey
  BY DEF IInv, Protected, OneLivePerKey
<1> QED
  BY <1>1, Invariance, PTL

\* No caller, coalesced or not, is told an outcome the chain does not show:
\* neither a success or an on-chain failure that did not happen, nor, unless
\* the submission lost sight of its transaction, a failure of one it has.
THEOREM OutcomesAreHonest == Spec => []HonestOutcome
<1>1. IInv /\ PollInv => HonestOutcome
  BY CallersHear
<1> QED
  BY <1>1, Invariance, PTL

\* Retries that restart the poll never make a submission's timeout early, and
\* every caller of it is told at that time.
THEOREM TimeoutsAreNotEarly == Spec => []TimeoutNotEarly
<1>1. IInv /\ PollInv => TimeoutNotEarly
  BY CallersHear
<1> QED
  BY <1>1, Invariance, PTL

=============================================================================
