----------------------------- MODULE ToolServer -----------------------------
(***************************************************************************)
(* The MCP tool server: concurrent tool calls run the handlers of          *)
(* ToolHandlers over what the process shares between them: the blockhash   *)
(* cache, the submitter's in-flight map, the active wallets, the token     *)
(* metadata registry and the Foundry work directory.                       *)
(*                                                                         *)
(* Every await of a handler is an action of its own, so calls interleave   *)
(* at awaits only.  The synchronous steps (check, wallet, keypair) read    *)
(* nothing another call can change between them and the await before, so   *)
(* making each an action adds no behaviour.  The submitter is used through *)
(* what TxSubmitter shows about it: a submission ends confirmed (then the  *)
(* transaction is on chain), timed out (it may be) or failed.  It does not *)
(* throw here, because refresh() can only throw on a cold cache and every  *)
(* submission comes after a successful read of the blockhash.              *)
(***************************************************************************)
EXTENDS ToolHandlers, FiniteSets, FiniteSetsExt

CONSTANTS
  Calls,      \* the tool calls
  Scopes,     \* session.sub of the callers
  WalletsOf,  \* [Scopes -> SUBSET wallet ids]: the wallet store's content
  Actives,    \* the active wallets to start from
  Loads,      \* the requests under study, a subset of [Calls -> Request]
  MaxHash,    \* bound: the chain's blockhash is renewed this often
  MaxTries,   \* stands for the 11 refresh attempts of batch_transfer and
              \* the rounds of the airdrop's 30 s poll
  None

(***************************************************************************)
(* Calls are of tools the server offers.  Memos and idempotency_keys are   *)
(* texts, sequences of their pieces; only transfer_native takes an         *)
(* idempotency_key.  None is no answer and no result.                      *)
(***************************************************************************)
ASSUME ToolsAssumption ==
  /\ \A r \in Loads : \A c \in Calls :
       /\ r[c].tool \in DOMAIN Handlers
       /\ r[c].memo \in Seq(STRING) /\ r[c].idempotency_key \in Seq(STRING)
       /\ r[c].tool # "transfer_native" => r[c].idempotency_key = <<>>
  /\ None \notin {"ok", "timeout", "failed", "error", "rejected", "invalid",
                  "no_wallet", "not_found", "unavailable", "limited",
                  "denied", "confirmed"}

VARIABLES
  req,       \* call -> its request
  pc,        \* call -> position in its handler, 0 before the wrapper's gate
  ans,       \* call -> its answer, None while it runs
  loc,       \* call -> the handler's local variables
  cache,     \* BlockhashCache.current, None when cold
  tip,       \* the blockhash the node would answer now
  landed,    \* transactions on chain
  inFlight,  \* submitter.inFlight: idempotency key -> submission
  active,    \* activeWalletCache: scope -> wallet id or None
  known,     \* metadataRegistry: the mints whose decimals are known
  space      \* the Foundry work directory: Contract.sol and out/

vars == <<req, pc, ans, loc, cache, tip, landed, inFlight, active, known, space>>

Wallets == UNION {WalletsOf[s] : s \in Scopes}

(***************************************************************************)
(* A transaction is the bytes that are signed, so equal transactions have  *)
(* one signature.  The content of what forge_create deploys is the         *)
(* artifact it read; a memo is content, the idempotency_key is not.        *)
(***************************************************************************)
TxOf(c) ==
  [tool |-> req[c].tool, payer |-> loc[c].wallet, target |-> req[c].target,
   content |-> IF loc[c].code = None THEN req[c].content ELSE loc[c].code,
   memo |-> req[c].memo, scale |-> loc[c].scale, hash |-> loc[c].hash,
   fresh |-> loc[c].fresh]

Here(c)   == Handlers[req[c].tool][pc[c]]
Field(c, f) == IF f = "entry" THEN Here(c).entry ELSE TxOf(c)[f]

(***************************************************************************)
(* The idempotency key: the tool's name, fields that hold no separator,    *)
(* and then the memo and the caller's key, each behind its mark when it is *)
(* not empty.  These two are joined as text, so that a memo that holds the *)
(* mark "-i:" reads like a shorter memo followed by an idempotency_key.    *)
(***************************************************************************)
Marked(mark, text) == IF text = <<>> THEN <<>> ELSE <<mark>> \o text
Suffix(memo, key)  == Marked("-m:", memo) \o Marked("-i:", key)
\* Mutant: the key leaves out the name of the tool.
KeyOfUnnamed(c) == <<"", [f \in Here(c).key |-> Field(c, f)],
                     Suffix(req[c].memo, req[c].idempotency_key)>>
KeyOf(c)  == <<req[c].tool, [f \in Here(c).key |-> Field(c, f)],
               Suffix(req[c].memo, req[c].idempotency_key)>>

At(c, op) == /\ ans[c] = None
             /\ pc[c] > 0
             /\ Here(c).op = op

Continue(c) ==
  /\ pc' = [pc EXCEPT ![c] = @ + 1]
  /\ ans' = IF pc[c] = Len(Handlers[req[c].tool])
            THEN [ans EXCEPT ![c] = "ok"] ELSE ans

(***************************************************************************)
(* The handler answers a and ends; inside an entry of a batch only that    *)
(* entry ends (batch_execute with atomic = true ends the batch).           *)
(***************************************************************************)
Stop(c, a) ==
  LET i == Here(c).entry
      later == {j \in pc[c] + 1 .. Len(Handlers[req[c].tool]) :
                  Handlers[req[c].tool][j].entry # i}
  IN  \/ /\ i = 0
         /\ ans' = [ans EXCEPT ![c] = a]
         /\ UNCHANGED pc
      \/ /\ i # 0
         /\ later # {}
         /\ pc' = [pc EXCEPT ![c] = Min(later)]
         /\ UNCHANGED ans
      \/ /\ i # 0
         /\ later = {} \/ req[c].tool = "batch_execute"
         /\ ans' = [ans EXCEPT ![c] = "ok"]
         /\ UNCHANGED pc

Set(c, f, v) == loc' = [loc EXCEPT ![c] = [@ EXCEPT ![f] = v]]

Local == [wallet |-> None, hash |-> None, last |-> None, got |-> None,
          tries |-> 0, fresh |-> None, code |-> None, built |-> FALSE,
          scale |-> "right", tx |-> None, joined |-> None, done |-> {},
          sent |-> FALSE]

Init ==
  /\ req \in Loads
  /\ pc = [c \in Calls |-> 0]
  /\ ans = [c \in Calls |-> None]
  /\ loc = [c \in Calls |-> [Local EXCEPT !.wallet = req[c].wallet]]
  /\ cache = None
  /\ tip = 0
  /\ landed = {}
  /\ inFlight = [k \in {} |-> None]
  /\ active \in Actives
  /\ known = {}
  /\ space = [src |-> None, out |-> None]

(***************************************************************************)
(* instrumentServer: authenticate(), requireCapability, rateLimiter.check, *)
(* runInScope.  The first three may throw (no valid bearer token, an empty *)
(* bucket: both are SessionGateway's business).                            *)
(***************************************************************************)
Gate(c) ==
  /\ pc[c] = 0 /\ ans[c] = None
  /\ \/ /\ TOOL_CAPS(req[c].tool) \subseteq CAPABILITY_SCOPES
        /\ pc' = [pc EXCEPT ![c] = 1]
        /\ UNCHANGED ans
     \/ /\ ans' = [ans EXCEPT ![c] =
                     IF TOOL_CAPS(req[c].tool) \subseteq CAPABILITY_SCOPES
                     THEN "limited" ELSE "denied"]
        /\ UNCHANGED pc
  /\ UNCHANGED <<req, loc, cache, tip, landed, inFlight, active, known, space>>

Answer(c) ==
  /\ At(c, "unavailable")
  /\ Stop(c, "unavailable")
  /\ UNCHANGED <<req, loc, cache, tip, landed, inFlight, active, known, space>>

Validate(c) ==
  /\ At(c, "check")
  /\ Continue(c) \/ Stop(c, "rejected")
  /\ UNCHANGED <<req, loc, cache, tip, landed, inFlight, active, known, space>>

(***************************************************************************)
(* walletId = from_wallet ?? getActiveWalletId(), or the active one only.  *)
(***************************************************************************)
PickWallet(c) ==
  /\ At(c, "wallet") \/ At(c, "active") \/ At(c, "maybe")
  /\ LET w == IF Here(c).op = "wallet" /\ req[c].wallet # None
              THEN req[c].wallet ELSE active[req[c].scope]
     IN  IF w = None /\ Here(c).op # "maybe"
         THEN Stop(c, "no_wallet") /\ UNCHANGED loc
         ELSE Continue(c) /\ Set(c, "wallet", w)
  /\ UNCHANGED <<req, cache, tip, landed, inFlight, active, known, space>>

(* LocalSignerFactory.getSigner: the wallet must be in the caller's scope. *)
GetSigner(c) ==
  /\ At(c, "signer")
  /\ IF loc[c].wallet \in WalletsOf[req[c].scope]
     THEN Continue(c) ELSE Stop(c, "error")
  /\ UNCHANGED <<req, loc, cache, tip, landed, inFlight, active, known, space>>

(* An RPC call, process, HTTP request or builder, without effect here. *)
External(c) ==
  /\ \/ /\ At(c, "await") \/ At(c, "sign")
        /\ Continue(c) \/ Stop(c, "error")
     \/ /\ At(c, "build")
        /\ Continue(c) \/ Stop(c, "invalid")
     \/ /\ At(c, "find")
        /\ Continue(c) \/ Stop(c, "error") \/ Stop(c, "not_found")
     \/ /\ At(c, "tolerate")
        /\ Continue(c)
  /\ UNCHANGED <<req, loc, cache, tip, landed, inFlight, active, known, space>>

NewKeypair(c) ==
  /\ At(c, "keypair")
  /\ Set(c, "fresh", c)
  /\ Continue(c)
  /\ UNCHANGED <<req, cache, tip, landed, inFlight, active, known, space>>

(***************************************************************************)
(* BlockhashCache.  getBlockhash answers from a cache less than 20 s old   *)
(* (its age is not kept: a warm cache may be too old or not); otherwise,   *)
(* and always for refresh(), the node is asked, and its answer             *)
(* (a hash that was the tip when the node answered) is stored when the     *)
(* await resumes: answers of concurrent refreshes can be stored out of     *)
(* order.  A failed call falls back to what is cached.                     *)
(***************************************************************************)
CacheHit(c) ==
  /\ At(c, "blockhash")
  /\ loc[c].got = None
  /\ cache # None
  /\ Set(c, "hash", cache)
  /\ Continue(c)
  /\ UNCHANGED <<req, cache, tip, landed, inFlight, active, known, space>>

Refreshing(c) == \/ At(c, "blockhash")
                 \/ At(c, "distinct")
                 \/ At(c, "refresh")

NodeAnswers(c) ==
  /\ Refreshing(c)
  /\ loc[c].got = None
  /\ Set(c, "got", tip)
  /\ UNCHANGED <<req, pc, ans, cache, tip, landed, inFlight, active, known, space>>

(* What each caller of refresh() does with the hash h it returns. *)
UseHash(c, h) ==
  \/ /\ Here(c).op = "blockhash"
     /\ loc' = [loc EXCEPT ![c].hash = h, ![c].got = None]
     /\ Continue(c)
  \/ /\ Here(c).op = "refresh"
     /\ loc' = [loc EXCEPT ![c].got = None]
     /\ Continue(c)
  \/ /\ Here(c).op = "distinct"
     /\ h # loc[c].last
     /\ loc' = [loc EXCEPT ![c].hash = h, ![c].last = h, ![c].got = None,
                           ![c].tries = 0]
     /\ Continue(c)
  \/ /\ Here(c).op = "distinct"
     /\ h = loc[c].last
     /\ loc[c].tries < MaxTries
     /\ loc' = [loc EXCEPT ![c].got = None, ![c].tries = @ + 1]
     /\ UNCHANGED <<pc, ans>>
  \/ /\ Here(c).op = "distinct"
     /\ h = loc[c].last
     /\ loc[c].tries = MaxTries
     /\ loc' = [loc EXCEPT ![c].got = None, ![c].tries = 0]
     /\ Stop(c, "error")

RefreshStores(c) ==
  /\ ans[c] = None
  /\ loc[c].got # None
  /\ cache' = loc[c].got
  /\ UseHash(c, loc[c].got)
  /\ UNCHANGED <<req, tip, landed, inFlight, active, known, space>>

RefreshFails(c) ==
  /\ Refreshing(c)
  /\ loc[c].got = None
  /\ IF cache # None
     THEN UseHash(c, cache)
     ELSE Stop(c, "error") /\ UNCHANGED loc
  /\ UNCHANGED <<req, cache, tip, landed, inFlight, active, known, space>>

(***************************************************************************)
(* submitter.submitAndConfirm: a keyed submission already in the in-flight *)
(* map is joined, else the call submits (and registers) its own.           *)
(***************************************************************************)
SubmitJoins(c) ==
  /\ At(c, "submit")
  /\ loc[c].tx = None /\ loc[c].joined = None
  /\ Here(c).key # NoKey /\ KeyOf(c) \in DOMAIN inFlight
  /\ Set(c, "joined", KeyOf(c))
  /\ UNCHANGED <<req, pc, ans, cache, tip, landed, inFlight, active, known, space>>

SubmitStarts(c) ==
  /\ At(c, "submit")
  /\ loc[c].tx = None /\ loc[c].joined = None
  /\ Here(c).key = NoKey \/ KeyOf(c) \notin DOMAIN inFlight
  /\ loc' = [loc EXCEPT ![c].tx = TxOf(c), ![c].sent = TRUE]
  /\ inFlight' = IF Here(c).key = NoKey THEN inFlight
                 ELSE [k \in DOMAIN inFlight \cup {KeyOf(c)} |->
                         IF k = KeyOf(c)
                         THEN [tx |-> TxOf(c), result |-> None]
                         ELSE inFlight[k]]
  /\ UNCHANGED <<req, pc, ans, cache, tip, landed, active, known, space>>

(* The handler looks at the result of its submission (or the joined one). *)
Result(c, r, tx) ==
  /\ loc' = [loc EXCEPT ![c].tx = None, ![c].joined = None,
               ![c].done = IF r = "failed" THEN @
                           ELSE @ \cup {[entry |-> Here(c).entry, tx |-> tx,
                                         own |-> TxOf(c), key |-> Here(c).key,
                                         result |-> r]}]
  /\ \/ (r = "confirmed" \/ (r = "timeout" /\ Here(c).entry # 0)) /\ Continue(c)
     \/ r = "timeout" /\ Here(c).entry = 0 /\ Stop(c, "timeout")
     \/ r = "failed" /\ Stop(c, "failed")

SubmitEnds(c) ==
  /\ At(c, "submit")
  /\ loc[c].tx # None
  /\ \E r \in {"confirmed", "timeout", "failed"} :
       /\ \/ r # "failed" /\ landed' = landed \cup {loc[c].tx}
          \/ r # "confirmed" /\ UNCHANGED landed
       /\ inFlight' = IF Here(c).key = NoKey THEN inFlight
                      ELSE [inFlight EXCEPT ![KeyOf(c)].result = r]
       /\ Result(c, r, loc[c].tx)
  /\ UNCHANGED <<req, cache, tip, active, known, space>>

JoinEnds(c) ==
  /\ At(c, "submit")
  /\ loc[c].joined # None
  /\ inFlight[loc[c].joined].result # None
  /\ Result(c, inFlight[loc[c].joined].result, inFlight[loc[c].joined].tx)
  /\ UNCHANGED <<req, cache, tip, landed, inFlight, active, known, space>>

(* An entry of the map is dropped five minutes after its submission ended. *)
Forget ==
  /\ \E k \in DOMAIN inFlight :
       /\ inFlight[k].result # None
       /\ \A c \in Calls : loc[c].joined # k
       /\ inFlight' = [j \in DOMAIN inFlight \ {k} |-> inFlight[j]]
  /\ UNCHANGED <<req, pc, ans, loc, cache, tip, landed, active, known, space>>

(***************************************************************************)
(* ensureAta: the result of the submission is not looked at, and the catch *)
(* block only runs when submitAndConfirm throws.                           *)
(***************************************************************************)
AtaSubmitted(c) ==
  /\ At(c, "ata")
  /\ \/ landed' = landed \cup {[TxOf(c) EXCEPT !.tool = "ata", !.hash = None]}
     \/ UNCHANGED landed
  /\ Set(c, "sent", TRUE)
  /\ Continue(c)
  /\ UNCHANGED <<req, cache, tip, inFlight, active, known, space>>

(***************************************************************************)
(* getTokenMetadata answers null when the RPC call fails, and the handler  *)
(* then scales the amount by 9 decimals.                                   *)
(***************************************************************************)
ReadMetadata(c) ==
  /\ At(c, "metadata")
  /\ \/ known' = known \cup {req[c].target} /\ UNCHANGED loc
     \/ /\ req[c].target \notin known
        /\ Set(c, "scale", "default")
        /\ UNCHANGED known
  /\ Continue(c)
  /\ UNCHANGED <<req, cache, tip, landed, inFlight, active, space>>

RegisterMetadata(c) ==
  /\ At(c, "register")
  /\ known' = known \cup {c}
  /\ Continue(c)
  /\ UNCHANGED <<req, loc, cache, tip, landed, inFlight, active, space>>

(***************************************************************************)
(* cast call reads; cast send sends a transaction, and the process may     *)
(* fail after it did.                                                      *)
(***************************************************************************)
RunCast(c) ==
  /\ At(c, "cast")
  /\ \/ UNCHANGED <<loc, landed>>
     \/ /\ Set(c, "sent", TRUE)
        /\ landed' \in {landed, landed \cup {TxOf(c)}}
  /\ Continue(c) \/ Stop(c, "error")
  /\ UNCHANGED <<req, cache, tip, inFlight, active, known, space>>

(***************************************************************************)
(* rpc.faucet returns a signature that may never land (a mock faucet); the *)
(* airdrop tool polls for it, batch_execute does not.                      *)
(***************************************************************************)
AskFaucet(c) ==
  /\ At(c, "faucet")
  /\ \/ /\ loc' = [loc EXCEPT ![c].tx = TxOf(c), ![c].sent = TRUE]
        /\ landed' \in {landed, landed \cup {TxOf(c)}}
        /\ Continue(c)
     \/ Stop(c, "error") /\ UNCHANGED <<loc, landed>>
  /\ UNCHANGED <<req, cache, tip, inFlight, active, known, space>>

\* Mutant: the faucet poll has no last try.
PollLandedForever(c) ==
  /\ At(c, "landed")
  /\ loc[c].tx \in landed
  /\ Continue(c)
  /\ UNCHANGED <<req, loc, cache, tip, landed, inFlight, active, known, space>>

(***************************************************************************)
(* One round of the poll: the transaction is found and has succeeded; or   *)
(* it is not found, and may land while the handler sleeps; or the call     *)
(* ends, because the transaction failed on chain, the RPC call failed or   *)
(* the deadline has passed.                                                *)
(***************************************************************************)
PollLanded(c) ==
  /\ At(c, "landed")
  /\ \/ /\ loc[c].tx \in landed
        /\ loc' = [loc EXCEPT ![c].done = {[entry |-> 0, tx |-> loc[c].tx,
                                            own |-> TxOf(c), key |-> NoKey,
                                            result |-> "confirmed"]}]
        /\ Continue(c)
        /\ UNCHANGED landed
     \/ /\ loc[c].tries < MaxTries
        /\ Set(c, "tries", loc[c].tries + 1)
        /\ landed' \in {landed, landed \cup {loc[c].tx}}
        /\ UNCHANGED <<pc, ans>>
     \/ Stop(c, "error") /\ UNCHANGED <<loc, landed>>
  /\ UNCHANGED <<req, cache, tip, inFlight, active, known, space>>

(***************************************************************************)
(* foundry.ts: one work directory for every call.                          *)
(***************************************************************************)
WriteSource(c) ==
  /\ At(c, "workspace")
  /\ space' = [src |-> req[c].content, out |-> None]
  /\ Continue(c)
  /\ UNCHANGED <<req, loc, cache, tip, landed, inFlight, active, known>>

ForgeBuilds(c) ==
  /\ At(c, "forge")
  /\ ~loc[c].built
  /\ space' = [space EXCEPT !.out = space.src]
  /\ Set(c, "built", TRUE)
  /\ UNCHANGED <<req, pc, ans, cache, tip, landed, inFlight, active, known>>

ForgeEnds(c) ==
  /\ At(c, "forge")
  /\ \/ loc[c].built /\ Continue(c)
     \/ Stop(c, "error")
  /\ UNCHANGED <<req, loc, cache, tip, landed, inFlight, active, known, space>>

ReadArtifact(c) ==
  /\ At(c, "artifact")
  /\ IF space.out = None
     THEN Stop(c, "error") /\ UNCHANGED loc
     ELSE Continue(c) /\ Set(c, "code", space.out)
  /\ UNCHANGED <<req, cache, tip, landed, inFlight, active, known, space>>

(* setActiveWalletId: the cache first, then the sidecar file (WalletStore). *)
ChangeActive(c) ==
  /\ At(c, "setactive")
  /\ active' = [active EXCEPT ![req[c].scope] = loc[c].wallet]
  /\ Continue(c)
  /\ UNCHANGED <<req, loc, cache, tip, landed, inFlight, known, space>>

Step1(c) ==
  \/ Gate(c) \/ Answer(c) \/ Validate(c) \/ PickWallet(c) \/ GetSigner(c)
  \/ External(c) \/ NewKeypair(c) \/ CacheHit(c) \/ NodeAnswers(c)
  \/ RefreshStores(c) \/ RefreshFails(c) \/ SubmitJoins(c) \/ SubmitStarts(c)
  \/ SubmitEnds(c) \/ JoinEnds(c) \/ AtaSubmitted(c) \/ ReadMetadata(c)
  \/ RegisterMetadata(c) \/ RunCast(c) \/ AskFaucet(c) \/ PollLanded(c)
  \/ WriteSource(c) \/ ForgeBuilds(c) \/ ForgeEnds(c) \/ ReadArtifact(c) \/ ChangeActive(c)

(***************************************************************************)
(* The chain renews its blockhash.  startRefresh's timer asks for it every *)
(* 20 s and stores the answer when it arrives, which can be late: a hash   *)
(* the node has given out since.                                           *)
(***************************************************************************)
NewBlock ==
  /\ tip < MaxHash
  /\ tip' = tip + 1
  /\ UNCHANGED <<req, pc, ans, loc, cache, landed, inFlight, active, known, space>>

TimerRefreshes ==
  /\ cache' \in 0 .. tip
  /\ UNCHANGED <<req, pc, ans, loc, tip, landed, inFlight, active, known, space>>

Next ==
  \/ \E c \in Calls : Step1(c)
  \/ Forget \/ NewBlock \/ TimerRefreshes

(* Every await ends: RPC calls, processes and submissions have deadlines. *)
Fairness == \A c \in Calls : WF_vars(Step1(c))
Spec == Init /\ [][Next]_vars /\ Fairness

-----------------------------------------------------------------------------
Refusals == {"rejected", "invalid", "no_wallet", "not_found", "unavailable",
             "limited", "denied"}

TypeOK ==
  /\ pc \in [Calls -> 0 .. 20]
  /\ ans \in [Calls -> Refusals \cup {None, "ok", "timeout", "failed", "error"}]
  /\ cache \in 0 .. MaxHash \cup {None}
  /\ tip \in 0 .. MaxHash
  /\ active \in [Scopes -> Wallets \cup {None}]

HoldsMark(memo) == \E i \in DOMAIN memo : memo[i] = "-i:"

(***************************************************************************)
(* A transaction that a tool reports as confirmed is on chain, and is the  *)
(* one the call signed itself.  Only a keyed call can be told of another   *)
(* one, which it joined: that agrees with its own in the tool, in every    *)
(* field of the key, the blockhash included, and in the memo, unless one   *)
(* of the two memos of a transfer_native holds the text "-i:", the one     *)
(* case in which the key as it is put together does not tell memos apart.  *)
(* What a tool counts as a success without looking at the outcome is not   *)
(* reported as confirmed: a TIMEOUT entry of batch_transfer, the faucet    *)
(* operation of batch_execute, ensureAta's own transaction, cast send.     *)
(***************************************************************************)
OkMeansLanded ==
  \A c \in Calls : \A d \in loc[c].done :
    d.result = "confirmed" =>
      /\ d.tx \in landed
      /\ d.key = NoKey => d.tx = d.own
      /\ \A f \in {"tool"} \cup (d.key \ {"entry"}) : d.tx[f] = d.own[f]
      /\ \/ d.tx.memo = d.own.memo
         \/ /\ req[c].tool = "transfer_native"
            /\ HoldsMark(d.tx.memo) \/ HoldsMark(d.own.memo)

(***************************************************************************)
(* A call that is answered with a refusal (bad input, whether a check or   *)
(* the builder of a transaction finds it, no wallet, not found, not        *)
(* available, over the limit, missing capability) has sent nothing to the  *)
(* chain: all of these come before the first effect of every handler,      *)
(* mint_tokens with its token account included.  The exception is the      *)
(* recipient of a transfer_token: it is decoded in the second ensureAta,   *)
(* after the sender's own token account was submitted.                     *)
(***************************************************************************)
RefusedNoEffect ==
  \A c \in Calls :
    ans[c] \in Refusals /\ loc[c].sent =>
      req[c].tool = "transfer_token" /\ ans[c] = "invalid"

(***************************************************************************)
(* Two successive entries of a batch_transfer never use the same blockhash,*)
(* so that identical transfers next to each other are two transactions.    *)
(***************************************************************************)
NeighboursDistinct ==
  \A c \in Calls : \A d, e \in loc[c].done :
    e.entry = d.entry + 1 /\ d.entry > 0 => d.tx # e.tx

(***************************************************************************)
(* What the description of transfer_native's idempotency_key promises: two *)
(* parallel transfers with different keys are two submissions, so when     *)
(* both are confirmed they are two transactions.                           *)
(***************************************************************************)
DistinctSubmissions ==
  \A c, d \in Calls :
    /\ req[c].tool = "transfer_native" /\ req[d].tool = "transfer_native"
    /\ req[c].idempotency_key # req[d].idempotency_key
    => \A e \in loc[c].done, f \in loc[d].done : e.tx # f.tx

(* Every tool call is eventually answered, whatever fails. *)
EveryToolCallAnswered == \A c \in Calls : <>(ans[c] # None)
=============================================================================
