----------------------------- MODULE BecknBridge -----------------------------
(***************************************************************************)
(* The Beckn bridge (src/gateway/inbound-bap.ts, inbound-bpp.ts,           *)
(* outbound-bap.ts, beckn.ts, beckn-schemas.ts, beckn-auth.ts and          *)
(* chain-client.ts): HTTP requests of Beckn peers become instructions on   *)
(* chain, and triggers from the chain become requests to peers.            *)
(*                                                                         *)
(* A route runs without a break up to its submission; while it waits for   *)
(* the chain the other requests go on.  The network repeats requests as it *)
(* likes, and the peers' clocks are the bridge's.  A message is a record   *)
(* of what the routes look at:                                             *)
(*   route, txn, uuid   the transaction id, and whether it has uuid form   *)
(*   flaw               "none", or the part that is malformed              *)
(*   at, ttl            timestamp, and None or a duration [n, unit]        *)
(*   auth               None or [created, expires, key, signer]            *)
(*   bpp, state         sender, and the state of the order                 *)
(*   reply              it answers a request of this bridge                *)
(***************************************************************************)
EXTENDS Integers, FiniteSets

CONSTANTS
  N,                 \* bound: HTTP requests, numbered as they arrive
  Msgs,              \* the messages peers send by themselves
  Triggers,          \* on-chain Search and Confirm triggers: [kind, hash, life, bpp]
  Registry,          \* keys the resolver knows
  Verifier,          \* deps.verifyBapSignature is injected
  RequireSignature,  \* deps.requireSignature
  ExpectedBpps,      \* deps.expectedBpps, None when absent
  Skew,              \* 60 s of clock skew
  MaxTime, MaxCrashes,
  None

VARIABLES
  clock,
  calls,     \* request -> [pc, msg, status]
  seen,      \* seenTransactions, in memory
  fired,     \* triggers handled
  posted,    \* messages this bridge sent
  attempts,  \* history: [req, action, txn, epoch]: submissions started
  chain,     \* requests whose instruction landed
  epoch      \* restarts so far

Requests == 1 .. N
vars == <<clock, calls, seen, fired, posted, attempts, chain, epoch>>

NoCall == [pc |-> "idle", msg |-> None, status |-> 0]

Init ==
  /\ clock = 0
  /\ calls = [r \in Requests |-> NoCall]
  /\ seen = {} /\ fired = {} /\ posted = {}
  /\ attempts = {} /\ chain = {} /\ epoch = 0

-----------------------------------------------------------------------------
(***************************************************************************)
(* parseIso8601DurationMs: a duration with a Y or an M, minutes included,  *)
(* is None.  One tick is a second; longer units outlast the model.         *)
(***************************************************************************)
Duration(ttl) == CASE ttl.unit \in {"Y", "M", "TM"} -> None
                   [] ttl.unit = "TS"               -> ttl.n
                   [] OTHER                         -> MaxTime + ttl.n

(* validateBecknEnvelope, and validateBecknEnvelopeFreshness with one now. *)
Fresh(m) == m.ttl # None /\ Duration(m.ttl) # None => m.at + Duration(m.ttl) >= clock
Envelope(m) ==
  /\ m.flaw \notin {"version", "timestamp"}
  /\ m.ttl # None => Duration(m.ttl) # None
  /\ Fresh(m)

(***************************************************************************)
(* validateBecknRequest: required fields and formats.  The ids must be     *)
(* uuids.  The pattern for ttl is a plain string in which \d means the     *)
(* letter d, so no duration with a digit matches it.                       *)
(***************************************************************************)
TtlPattern(ttl) == FALSE
ContextSchema(m) == m.uuid /\ (m.ttl # None => TtlPattern(m.ttl))
MessageSchema(m) == m.flaw # "fields"
Schema(m) == ContextSchema(m) /\ MessageSchema(m)

(* verifyBecknAuthHeader. *)
VerifyAuth(m) ==
  /\ m.auth # None
  /\ m.auth.created <= clock + Skew
  /\ m.auth.expires >= clock
  /\ m.auth.key \in Registry
  /\ m.auth.signer = m.auth.key
BadSignature(m) == Verifier /\ ~VerifyAuth(m)

Valid(m) == Envelope(m) /\ Schema(m) /\ Fresh(m)
Success(m) == m.state \in {"COMPLETED", "FULFILLED"}

-----------------------------------------------------------------------------
(* A peer answers a /search or /confirm of ours under its transaction id. *)
Answers(p) ==
  {m \in [route : {"on_search", "on_confirm"}, txn : {p.txn}, uuid : {p.uuid},
          flaw : {"none"}, at : {clock}, ttl : {None}, bpp : {p.bpp}, reply : {TRUE},
          auth : {[created |-> clock, expires |-> clock + 1,
                   key |-> p.bpp, signer |-> p.bpp]},
          state : {"COMPLETED"}] :
     m.route = IF p.route = "search" THEN "on_search" ELSE "on_confirm"}
Offered == Msgs \cup UNION {Answers(p) : p \in posted}

Answer(r, m, s) ==
  /\ calls' = [calls EXCEPT ![r] = [pc |-> "done", msg |-> m, status |-> s]]
  /\ UNCHANGED <<attempts, seen>>

(* resolvedSubmit: the submission starts and the route waits for it. *)
Submit(r, m, action) ==
  /\ calls' = [calls EXCEPT ![r] = [pc |-> "submit", msg |-> m, status |-> 0]]
  /\ attempts' = attempts \cup {[req |-> r, action |-> action, txn |-> m.txn,
                                 epoch |-> epoch]}

Arrives(r, m, routes) ==
  /\ m.route \in routes
  /\ calls[r].pc = "idle"
  /\ \A q \in 1 .. r - 1 : calls[q].pc # "idle"
Rest == UNCHANGED <<clock, fired, posted, chain, epoch>>

(* POST /search and /select of mountInboundBap. *)
OnRequest(r, m) ==
  /\ Arrives(r, m, {"search", "select"})
  /\ \/ BadSignature(m) /\ Answer(r, m, 401)
     \/ ~BadSignature(m) /\ ~Valid(m) /\ Answer(r, m, 400)
     \/ ~BadSignature(m) /\ Valid(m) /\ Submit(r, m, m.route) /\ UNCHANGED seen
  /\ Rest

(* POST /on_search of mountOnSearchCallback. *)
OnSearch(r, m) ==
  /\ Arrives(r, m, {"on_search"})
  /\ \/ ~Valid(m) /\ Answer(r, m, 400)
     \/ Valid(m) /\ Submit(r, m, "PublishCatalogResponse") /\ UNCHANGED seen
  /\ Rest

(* POST /on_select of mountInboundBppCallbacks. *)
OnSelect(r, m) ==
  /\ Arrives(r, m, {"on_select"})
  /\ Answer(r, m, IF Valid(m) THEN 200 ELSE 400)
  /\ Rest

(* POST on the routes of becknRouter, which acknowledge and do no more. *)
OnBare(r, m) ==
  /\ Arrives(r, m, {"init", "confirm"})
  /\ Answer(r, m, CASE m.flaw = "oversized"   -> 413
                    [] m.flaw = "contentType" -> 415
                    [] m.flaw # "none"        -> 400
                    [] OTHER                  -> 200)
  /\ Rest

(***************************************************************************)
(* POST /on_confirm of mountOnConfirmCallback.  The rate limiter in front  *)
(* of it may refuse anything.                                              *)
(***************************************************************************)
Unauthorized(m) == BadSignature(m) \/ (RequireSignature /\ m.auth = None)
UnknownBpp(m)   == ExpectedBpps # None /\ m.bpp \notin ExpectedBpps
Outcome(m) == IF Success(m) THEN "CompleteTask" ELSE "FailTask"

\* Mutant: the id is left to be recorded after the submission.
OnConfirmLate(r, m) ==
  /\ Arrives(r, m, {"on_confirm"})
  /\ IF ~Valid(m) \/ Unauthorized(m) \/ UnknownBpp(m) \/ m.txn \in seen
     THEN Answer(r, m, 400)
     ELSE Submit(r, m, Outcome(m)) /\ UNCHANGED seen
  /\ Rest

OnConfirm(r, m) ==
  /\ Arrives(r, m, {"on_confirm"})
  /\ \/ Answer(r, m, 429)
     \/ ~Valid(m) /\ Answer(r, m, 400)
     \/ Valid(m) /\ Unauthorized(m) /\ Answer(r, m, 401)
     \/ Valid(m) /\ ~Unauthorized(m) /\ UnknownBpp(m) /\ Answer(r, m, 403)
     \/ /\ Valid(m) /\ ~Unauthorized(m) /\ ~UnknownBpp(m)
        /\ \/ m.txn \in seen /\ Answer(r, m, 409)
           \/ /\ m.txn \notin seen
              /\ seen' = seen \cup {m.txn}
              /\ Submit(r, m, Outcome(m))
  /\ Rest

(***************************************************************************)
(* SvmChainClient.submit ends: the transaction landed, or sending it threw *)
(* (it may have landed all the same), and the route answers.               *)
(***************************************************************************)
SubmitEnds(r) ==
  /\ calls[r].pc = "submit"
  /\ \E status \in {IF calls[r].msg.route \in {"search", "select"} THEN 202 ELSE 200, 500} :
       /\ calls' = [calls EXCEPT ![r].pc = "done", ![r].status = status]
       /\ chain' \in {chain \cup {r}} \cup (IF status = 500 THEN {chain} ELSE {})
  /\ UNCHANGED <<clock, seen, fired, posted, attempts, epoch>>

(***************************************************************************)
(* handleSearchTrigger and handleConfirmTrigger: the transaction id is the *)
(* first 36 characters of a hash in hex, which has no dashes; only a       *)
(* /search has a ttl.  Whether the peer takes it makes no difference.      *)
(***************************************************************************)
HandleTrigger(t) ==
  /\ t \in Triggers \ fired
  /\ fired' = fired \cup {t}
  /\ posted' = posted \cup
       {[route |-> t.kind, txn |-> t.hash, uuid |-> FALSE, flaw |-> "none", at |-> clock,
         ttl |-> IF t.kind = "search"
                 THEN [n |-> IF t.life < 1 THEN 1 ELSE t.life, unit |-> "TS"]
                 ELSE None,
         auth |-> None, bpp |-> t.bpp, state |-> "CREATED", reply |-> FALSE]}
  /\ UNCHANGED <<clock, calls, seen, attempts, chain, epoch>>

(* The process restarts: what it waited for is lost, and so is `seen'. *)
Crash ==
  /\ epoch < MaxCrashes
  /\ epoch' = epoch + 1
  /\ seen' = {}
  /\ calls' = [r \in Requests |-> IF calls[r].pc = "submit"
                                  THEN [calls[r] EXCEPT !.pc = "lost"] ELSE calls[r]]
  /\ UNCHANGED <<clock, fired, posted, attempts, chain>>

Tick ==
  /\ clock < MaxTime
  /\ clock' = clock + 1
  /\ UNCHANGED <<calls, seen, fired, posted, attempts, chain, epoch>>

Receive(r, m) == \/ OnRequest(r, m) \/ OnSearch(r, m) \/ OnSelect(r, m)
                 \/ OnBare(r, m) \/ OnConfirm(r, m)

Next ==
  \/ \E r \in Requests, m \in Offered : Receive(r, m)
  \/ \E r \in Requests : SubmitEnds(r)
  \/ \E t \in Triggers : HandleTrigger(t)
  \/ Crash \/ Tick

Spec == Init /\ [][Next]_vars

-----------------------------------------------------------------------------
Outcomes == {a \in attempts : a.action \in {"CompleteTask", "FailTask"}}

(***************************************************************************)
(* Between restarts a transaction gets one outcome: however callbacks for  *)
(* it are repeated or overlap, at most one CompleteTask or FailTask is     *)
(* submitted ("commit before submit to prevent double-trigger").           *)
(***************************************************************************)
OutcomeOnce ==
  \A a, b \in Outcomes : a.txn = b.txn /\ a.epoch = b.epoch => a = b

(***************************************************************************)
(* A transaction id is used up only by a callback that passed every gate   *)
(* and was submitted: a malformed or unsigned callback, or one from a      *)
(* stranger, never makes the bridge refuse the BPP's own callback as a     *)
(* duplicate.                                                              *)
(***************************************************************************)
OnlySubmittedBlocks ==
  \A r \in Requests :
    calls[r].pc = "done" /\ calls[r].status = 409 =>
      \E a \in Outcomes : a.txn = calls[r].msg.txn

(***************************************************************************)
(* The two halves of the callback gate: it lets one outcome through, and   *)
(* only that outcome closes it.                                            *)
(***************************************************************************)
CallbackSound == OutcomeOnce /\ OnlySubmittedBlocks

(***************************************************************************)
(* A peer's answer to a request of this bridge, under the transaction id   *)
(* the request had, is not refused as malformed.                           *)
(***************************************************************************)
OwnRequestAnswerable ==
  \A r \in Requests : calls[r].pc # "idle" /\ calls[r].msg.reply =>
                        calls[r].status # 400
=============================================================================
