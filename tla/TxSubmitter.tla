----------------------------- MODULE TxSubmitter -----------------------------
(***************************************************************************)
(* TransactionSubmitter of src/write/submitter.ts: the idempotency map that *)
(* lets calls with the same key share one submission, the two mechanisms   *)
(* that expire its entries (the timer set when a submission settles and    *)
(* the periodic sweeper), the send / retry loop and the confirmation poll. *)
(*                                                                         *)
(* A submission is named by the call that started it.  A transaction is    *)
(* named by its submission (every retry sends the same signed bytes).  The *)
(* chain and the JSON-RPC node are external: a request may fail before or  *)
(* after the node took the transaction, and a receipt may be late.         *)
(***************************************************************************)
EXTENDS Integers, FiniteSets

CONSTANTS
  Call,           \* calls of submitAndConfirm, each made at most once
  Key,            \* idempotency keys
  NoKey,          \* params.idempotencyKey absent
  None,           \* absent map entry / own submission
  Timeouts,       \* values of params.timeoutMs (in ticks)
  MaxRetries,     \* config.tx.maxRetries
  MaxPollErrors,  \* config.tx.maxPollErrors
  PollFloor,      \* the 5000 ms minimum of a poll
  CleanupDelay,   \* the 5 minute timer after a submission settles
  StaleAge,       \* the 10 minute age at which the sweeper drops an entry
  MaxNow          \* bound: the last tick of modelled time

ASSUME SubmitterAssumption ==
  /\ NoKey \notin Key
  /\ None \notin Call
  /\ Timeouts \subseteq Nat
  /\ MaxRetries \in Nat
  /\ MaxPollErrors \in Nat \ {0}
  /\ PollFloor \in Nat \ {0}
  /\ CleanupDelay \in Nat \ {0}
  /\ StaleAge \in Nat
  /\ CleanupDelay <= StaleAge
  /\ MaxNow \in Nat

VARIABLES
  now,        \* Date.now(), in ticks
  pc,         \* where each call stands
  key,        \* the key a call was made with
  src,        \* the submission a coalesced call awaits; None for an own one
  budget,     \* the timeout of a call
  started,    \* startTime of _submit
  retries,    \* retries of _submit
  deadline,   \* deadline of pollConfirmation
  pollErrs,   \* consecutiveErrors of pollConfirmation
  result,     \* the outcome a call was answered with
  settledAt,  \* when the promise of a submission settled
  inFlight,   \* inFlight: the submission registered under a key
  stamp,      \* inFlightTimestamps (meaningful where inFlight is set)
  timers,     \* submissions whose clean-up timer is still to fire
  chain,      \* fate of a submission's transaction on the chain
  doubt       \* history: submissions that have lost sight of their transaction

vars == <<now, pc, key, src, budget, started, retries, deadline, pollErrs,
          result, settledAt, inFlight, stamp, timers, chain, doubt>>

mapVars  == <<inFlight, stamp>>
callVars == <<key, src, budget, started>>
loopVars == <<retries, deadline, pollErrs>>    \* locals of _submit
doneVars == <<result, settledAt, timers>>

PC       == {"idle", "sending", "refreshing", "polling", "asking", "awaiting", "done"}
Outcome  == {"confirmed", "exec_failed", "non_retryable", "exhausted", "timeout", "rejected"}
ErrClass == {"blockhash", "nonce", "other"}
TxState  == {"none", "pool", "ok", "failed"}

ASSUME OutcomeAssumption == None \notin Outcome

TypeOK ==
  /\ now \in 0..MaxNow
  /\ pc \in [Call -> PC]
  /\ key \in [Call -> Key \cup {NoKey}]
  /\ src \in [Call -> Call \cup {None}]
  /\ budget \in [Call -> Timeouts \cup {0}]
  /\ started \in [Call -> 0..MaxNow]
  /\ retries \in [Call -> 0..(MaxRetries + 1)]
  /\ deadline \in [Call -> 0..MaxNow]
  /\ pollErrs \in [Call -> 0..(MaxPollErrors - 1)]
  /\ result \in [Call -> Outcome \cup {None}]
  /\ settledAt \in [Call -> 0..MaxNow]
  /\ inFlight \in [Key -> Call \cup {None}]
  /\ stamp \in [Key -> 0..MaxNow]
  /\ timers \in SUBSET Call
  /\ chain \in [Call -> TxState]
  /\ doubt \in SUBSET Call

Init ==
  /\ now = 0
  /\ pc = [c \in Call |-> "idle"]
  /\ key = [c \in Call |-> NoKey]
  /\ src = [c \in Call |-> None]
  /\ budget = [c \in Call |-> 0]
  /\ started = [c \in Call |-> 0]
  /\ retries = [c \in Call |-> 0]
  /\ deadline = [c \in Call |-> 0]
  /\ pollErrs = [c \in Call |-> 0]
  /\ result = [c \in Call |-> None]
  /\ settledAt = [c \in Call |-> 0]
  /\ inFlight = [k \in Key |-> None]
  /\ stamp = [k \in Key |-> 0]
  /\ timers = {}
  /\ chain = [c \in Call |-> "none"]
  /\ doubt = {}

MaxOf(a, b) == IF a >= b THEN a ELSE b
MinOf(a, b) == IF a <= b THEN a ELSE b

-----------------------------------------------------------------------------
(* submitAndConfirm *)

\* The key is registered: the call awaits the registered promise.
Coalesce(c, k) ==
  /\ pc[c] = "idle"
  /\ k \in Key
  /\ inFlight[k] # None
  /\ pc' = [pc EXCEPT ![c] = "awaiting"]
  /\ key' = [key EXCEPT ![c] = k]
  /\ src' = [src EXCEPT ![c] = inFlight[k]]
  /\ UNCHANGED <<now, budget, started, retries, deadline, pollErrs, result,
                 settledAt, mapVars, timers, chain, doubt>>

\* No key, or no entry for it: _submit runs up to its first await and the
\* promise is registered under the key.
StartSubmission(c, k, t) ==
  /\ pc[c] = "idle"
  /\ k \in Key => inFlight[k] = None
  /\ pc' = [pc EXCEPT ![c] = "sending"]
  /\ key' = [key EXCEPT ![c] = k]
  /\ budget' = [budget EXCEPT ![c] = t]
  /\ started' = [started EXCEPT ![c] = now]
  /\ inFlight' = [j \in Key |-> IF j = k THEN c ELSE inFlight[j]]
  /\ stamp' = [j \in Key |-> IF j = k THEN now ELSE stamp[j]]
  /\ UNCHANGED <<now, src, retries, deadline, pollErrs, result, settledAt,
                 timers, chain, doubt>>

\* The awaited promise has settled: the caller gets the same outcome, tagged
\* coalesced (src # None).
CoalescedAnswer(c) ==
  /\ pc[c] = "awaiting"
  /\ pc[src[c]] = "done"
  /\ pc' = [pc EXCEPT ![c] = "done"]
  /\ result' = [result EXCEPT ![c] = result[src[c]]]
  /\ UNCHANGED <<now, callVars, loopVars, settledAt,
                 mapVars, timers, chain, doubt>>

-----------------------------------------------------------------------------
(* _submit: how an iteration of the retry loop ends *)

\* The promise settles: promise.finally arms the clean-up timer of the key and
\* the locals of the async functions are gone.
Settle(c, r) ==
  /\ pc' = [pc EXCEPT ![c] = "done"]
  /\ result' = [result EXCEPT ![c] = r]
  /\ settledAt' = [settledAt EXCEPT ![c] = now]
  /\ timers' = IF key[c] = NoKey THEN timers ELSE timers \cup {c}
  /\ retries' = [retries EXCEPT ![c] = 0]
  /\ deadline' = [deadline EXCEPT ![c] = 0]
  /\ pollErrs' = [pollErrs EXCEPT ![c] = 0]

\* The loop condition retries <= maxRetries, with n retries done.
NextIteration(c, n) ==
  \/ /\ n <= MaxRetries
     /\ retries' = [retries EXCEPT ![c] = n]
     /\ pc' = [pc EXCEPT ![c] = "sending"]
     /\ UNCHANGED <<deadline, pollErrs, doneVars>>
  \/ /\ n > MaxRetries
     /\ Settle(c, "exhausted")

\* Mutant: a retry after a blockhash error is not counted.
ClassifyUncounted(c, e) ==
  \/ /\ e = "blockhash"
     /\ pc' = [pc EXCEPT ![c] = "refreshing"]
     /\ UNCHANGED <<loopVars, doneVars>>
  \/ e = "nonce" /\ NextIteration(c, retries[c] + 1)
  \/ e = "other" /\ Settle(c, "non_retryable")

\* The catch block: a blockhash error refreshes the cache and retries, a
\* nonce error retries, anything else is final.
Classify(c, e) ==
  \/ /\ e = "blockhash"
     /\ retries' = [retries EXCEPT ![c] = @ + 1]
     /\ pc' = [pc EXCEPT ![c] = "refreshing"]
     /\ UNCHANGED <<deadline, pollErrs, doneVars>>
  \/ e = "nonce" /\ NextIteration(c, retries[c] + 1)
  \/ e = "other" /\ Settle(c, "non_retryable")

\* rpc.sendTransaction answers with a signature: pollConfirmation starts.  A
\* deadline beyond the modelled time falls on its last tick.
SendOk(c) ==
  /\ pc[c] = "sending"
  /\ chain' = [chain EXCEPT ![c] = IF @ = "none" THEN "pool" ELSE @]
  /\ deadline' = [deadline EXCEPT ![c] =
        MinOf(MaxNow, now + MaxOf(budget[c] - (now - started[c]), PollFloor))]
  /\ pollErrs' = [pollErrs EXCEPT ![c] = 0]
  /\ pc' = [pc EXCEPT ![c] = "polling"]
  /\ doubt' = doubt \ {c}
  /\ UNCHANGED <<now, callVars, retries, doneVars, mapVars>>

\* sendTransaction throws.  With a transport error or a malformed signature
\* the node may have taken the transaction all the same.
SendErr(c, e) ==
  /\ pc[c] = "sending"
  /\ \/ UNCHANGED <<chain, doubt>>
     \/ /\ e = "other"
        /\ chain[c] = "none"
        /\ chain' = [chain EXCEPT ![c] = "pool"]
        /\ doubt' = doubt \cup {c}
  /\ Classify(c, e)
  /\ UNCHANGED <<now, callVars, mapVars>>

\* await blockhashCache.refresh(): a fresh or a stale hash lets the loop go on,
\* a throw (no hash was ever cached) leaves _submit: the promise rejects.
RefreshDone(c) ==
  /\ pc[c] = "refreshing"
  /\ \/ NextIteration(c, retries[c])
     \/ Settle(c, "rejected")
  /\ UNCHANGED <<now, callVars, mapVars, chain, doubt>>

-----------------------------------------------------------------------------
(* pollConfirmation *)

\* Mutant: a poll ends at the floor, whatever time the caller asked for.
PollFloorOnly(c) ==
  /\ pc[c] = "polling"
  /\ \/ /\ now < started[c] + PollFloor
        /\ pc' = [pc EXCEPT ![c] = "asking"]
        /\ UNCHANGED <<loopVars, doneVars>>
     \/ /\ now >= started[c] + PollFloor
        /\ Settle(c, "timeout")
  /\ UNCHANGED <<now, callVars, mapVars, chain, doubt>>

\* The loop head: ask the node again before the deadline, else time out.
PollHead(c) ==
  /\ pc[c] = "polling"
  /\ \/ /\ now < deadline[c]
        /\ pc' = [pc EXCEPT ![c] = "asking"]
        /\ UNCHANGED <<loopVars, doneVars>>
     \/ /\ now >= deadline[c]
        /\ Settle(c, "timeout")
  /\ UNCHANGED <<now, callVars, mapVars, chain, doubt>>

\* getTransaction answers null or "not found": also when the node lags.
PollNotYet(c) ==
  /\ pc[c] = "asking"
  /\ pollErrs' = [pollErrs EXCEPT ![c] = 0]
  /\ pc' = [pc EXCEPT ![c] = "polling"]
  /\ UNCHANGED <<now, callVars, retries, deadline, doneVars, mapVars, chain, doubt>>

\* Mutant: any receipt is reported as confirmed.
PollReceiptUnchecked(c) ==
  /\ pc[c] = "asking"
  /\ chain[c] \in {"ok", "failed"}
  /\ Settle(c, "confirmed")
  /\ UNCHANGED <<now, callVars, mapVars, chain, doubt>>

\* getTransaction answers with a receipt.
PollReceipt(c) ==
  /\ pc[c] = "asking"
  /\ \/ chain[c] = "ok" /\ Settle(c, "confirmed")
     \/ chain[c] = "failed" /\ Settle(c, "exec_failed")
  /\ UNCHANGED <<now, callVars, mapVars, chain, doubt>>

\* Any other failure of the round trip: tolerated until maxPollErrors in a
\* row, then thrown into the catch block of _submit.
PollError(c, e) ==
  /\ pc[c] = "asking"
  /\ \/ /\ pollErrs[c] + 1 < MaxPollErrors
        /\ pollErrs' = [pollErrs EXCEPT ![c] = @ + 1]
        /\ pc' = [pc EXCEPT ![c] = "polling"]
        /\ UNCHANGED <<retries, deadline, doneVars, doubt>>
     \/ /\ pollErrs[c] + 1 >= MaxPollErrors
        /\ Classify(c, e)
        /\ doubt' = doubt \cup {c}
  /\ UNCHANGED <<now, callVars, mapVars, chain>>

-----------------------------------------------------------------------------
(* Expiry of map entries, the chain, the clock *)

\* The setTimeout of promise.finally: deletes the key's entry, whichever
\* submission it belongs to by now.
CleanupTimer(c) ==
  /\ c \in timers
  /\ now >= settledAt[c] + CleanupDelay
  /\ timers' = timers \ {c}
  /\ inFlight' = [inFlight EXCEPT ![key[c]] = None]
  /\ stamp' = [stamp EXCEPT ![key[c]] = 0]
  /\ UNCHANGED <<now, pc, callVars, loopVars, result,
                 settledAt, chain, doubt>>

Stale(k) == inFlight[k] # None /\ stamp[k] < now - StaleAge

\* Mutant: the sweeper uses the delay of the clean-up timer as its age.
SweepEarly ==
  /\ \E k \in Key : inFlight[k] # None /\ stamp[k] < now - CleanupDelay
  /\ inFlight' = [k \in Key |->
       IF inFlight[k] # None /\ stamp[k] < now - CleanupDelay
         THEN None ELSE inFlight[k]]
  /\ stamp' = [k \in Key |->
       IF stamp[k] < now - CleanupDelay THEN 0 ELSE stamp[k]]
  /\ UNCHANGED <<now, pc, callVars, loopVars, result,
                 settledAt, timers, chain, doubt>>

\* The setInterval sweeper, when it finds something to drop.
Sweep ==
  /\ \E k \in Key : Stale(k)
  /\ inFlight' = [k \in Key |-> IF Stale(k) THEN None ELSE inFlight[k]]
  /\ stamp' = [k \in Key |-> IF Stale(k) THEN 0 ELSE stamp[k]]
  /\ UNCHANGED <<now, pc, callVars, loopVars, result,
                 settledAt, timers, chain, doubt>>

\* The chain executes a transaction it took, or drops it.
ChainStep(c) ==
  /\ chain[c] = "pool"
  /\ \E s \in {"ok", "failed", "none"} : chain' = [chain EXCEPT ![c] = s]
  /\ UNCHANGED <<now, pc, callVars, loopVars, result,
                 settledAt, mapVars, timers, doubt>>

\* Time passes; a tick is long, so timers that are due fire before the next.
Tick ==
  /\ now < MaxNow
  /\ \A c \in timers : now < settledAt[c] + CleanupDelay
  /\ now' = now + 1
  /\ UNCHANGED <<pc, callVars, loopVars, result,
                 settledAt, mapVars, timers, chain, doubt>>

\* One step of a submission that is under way.
Advance(c) ==
  \/ SendOk(c)
  \/ \E e \in ErrClass : SendErr(c, e)
  \/ RefreshDone(c)
  \/ PollHead(c)
  \/ PollNotYet(c)
  \/ PollReceipt(c)
  \/ \E e \in ErrClass : PollError(c, e)

Next ==
  \/ \E c \in Call, k \in Key : Coalesce(c, k)
  \/ \E c \in Call, k \in Key \cup {NoKey}, t \in Timeouts : StartSubmission(c, k, t)
  \/ \E c \in Call : CoalescedAnswer(c)
  \/ \E c \in Call : Advance(c)
  \/ \E c \in Call : CleanupTimer(c)
  \/ Sweep
  \/ \E c \in Call : ChainStep(c)
  \/ Tick

Spec == Init /\ [][Next]_vars

\* Every outstanding request is answered in the end and the event loop runs
\* what is ready; the clock advances.  Nothing is assumed of the chain.
Fairness ==
  /\ \A c \in Call : WF_vars(Advance(c)) /\ WF_vars(CoalescedAnswer(c))
  /\ \A c \in Call : WF_vars(CleanupTimer(c))
  /\ WF_vars(Tick)

FairSpec == Spec /\ Fairness

-----------------------------------------------------------------------------
(* Properties *)

Owner(c) == pc[c] # "idle" /\ src[c] = None
Open(c)  == Owner(c) /\ pc[c] # "done"

\* A submission that still protects its key: under way, or settled with its
\* clean-up timer pending.
Live(c) == Open(c) \/ c \in timers

Duration(c) == IF pc[c] = "done" THEN settledAt[c] - started[c] ELSE now - started[c]

\* Some submission under k took longer than the two expiry delays allow for.
Overran(k) == \E c \in Call : /\ Owner(c)
                              /\ key[c] = k
                              /\ Duration(c) > StaleAge - CleanupDelay

\* At most one submission per idempotency key is live (running, or settled
\* less than five minutes ago) unless one of that key ran for more than
\* StaleAge - CleanupDelay: the timer and the sweeper never expose a key that
\* is still protected (submitter.ts inFlight handling).
OneLivePerKey ==
  \A c, d \in Call :
    (c # d /\ Live(c) /\ Live(d) /\ key[c] = key[d] /\ key[c] \in Key)
      => Overran(key[c])

\* The submission that answers a call: its own, or the one it joined.
Submission(c) == IF src[c] = None THEN c ELSE src[c]

\* The failures that name no signature: CHAIN_005, CHAIN_999, a rejection.
NoSignature == {"non_retryable", "exhausted", "rejected"}

\* What a caller is told happened is what happened to the transaction of the
\* submission that answered it, made under the caller's key: confirmed and
\* failed-on-chain answers agree with the chain, and after a failure without
\* a signature (submitter.ts:96-124) the chain has nothing of it.  The stated
\* exception is doubt: the reply of a send the node took was lost, or the
\* poll of an answered send was broken off by maxPollErrors errors; then
\* "failed" says only that the submitter does not know.
HonestOutcome ==
  \A c \in Call :
    LET s == Submission(c) IN
      /\ result[c] = "confirmed" => chain[s] = "ok"
      /\ result[c] = "exec_failed" => chain[s] = "failed"
      /\ result[c] \in NoSignature => chain[s] = "none" \/ s \in doubt
      /\ src[c] # None => key[s] = key[c] /\ src[s] = None

\* "timeout" is told only after the time given to the submission that answers
\* (or at the end of the modelled time), however many retries restarted the
\* poll deadline, to its own caller and to those that joined.  A joined call's
\* own timeoutMs is not looked at (submitter.ts:39-41): one that joins late is
\* told when the submission it joined is.
TimeoutNotEarly ==
  \A c \in Call :
    LET s == Submission(c) IN
      result[c] = "timeout"
        => settledAt[s] - started[s] >= budget[s] \/ settledAt[s] = MaxNow

\* Every call is answered: retries are counted, polls end at their deadline,
\* and a coalesced call outlives the removal of the entry it joined.
EveryCallAnswered == \A c \in Call : (pc[c] # "idle") ~> (pc[c] = "done")
=============================================================================
