# TLA+ verification of eto-mcp

This directory is a formal model of the parts of eto-mcp where several things
happen at once and something of value depends on the order: submitting
transactions, issuing and revoking credentials, moving money in the bank BPP,
running a provider's tasks behind its credential gate, the tools of the server over
the state they share, sessions and wallets across restarts, the Beckn bridge, the
mesh, rotating and verifying signing keys, and delivering notifications. Every module
is translated from the TypeScript source; `PROJECT.json` maps each definition to
the lines it stands for.

    cd tla
    tlc -config Streams.cfg Streams                      # one run
    tlapm TxSubmitter_proofs.tla                         # one proof module

Contents: 1 inventory, 2 plan, 3 modules, 4 runs, 5 disagreements between code and
comments, 6 bounds, 7 fairness, 8 proofs, 9 what is not covered.

## 1. Inventory of the system

eto-mcp is a Model Context Protocol server (`src/`) for the ETO chain, with a
Beckn gateway, credential issuers and an indexer, plus "keepers" (`keeper/`):
Beckn provider processes (BPPs), one of them a bank. `mesh/` is a bridge
prototype and `signing-service/` a Rust FROST signer.

All TypeScript parts are single-threaded and asynchronous: the code between two
`await`s is atomic, and everything else can interleave at every `await`, in
timers, in `setInterval` callbacks, and across processes through the chain.
That is the granularity of every module here: one action per stretch of code
between awaits.

| Component | State | Operations | Interacts with | Hard behaviour | Correct when |
|---|---|---|---|---|---|
| Transaction submitter (`write/submitter.ts`) | `inFlight` and its timestamps, per-call retry and poll counters | `submitAndConfirm`, `_submit`, `pollConfirmation`, clean-up timer, sweeper | node (JSON-RPC), blockhash cache, every writing tool | calls racing on one key, expiry by two mechanisms, lost replies, retries against a deadline | a key is not exposed while its submission lives; answers agree with the chain; every call is answered |
| Credential issuers (`issuers/*.ts`) | a dedupe store per issuer, credentials on the chain | `issue`, `issueKycTest`, `issueBankMock...`, `issueBankCredential`, revoke | third-party verifiers, pinner, chain, store | check-then-act across two awaits, chain success with a failed store, crash between the two | rows stand for minted credentials; callers of a slot converge; a repeated request does not mint |
| Mock USD ledger (`bank/mock-usd-ledger.ts`) | snapshot in memory, JSON file, promise tail | `credit`, `debit`, `recordRamp`, `getBalance`, `open` | file system | failed write after the memory changed, crash around the rename, sums beyond safe integers | money adds up; an acknowledged operation survives; a refused one leaves no trace |
| Bank money handlers (`bank/handlers/*`) | none of their own: effects on rails and chain | `executeOnramp`, `executeOfframp`, `executeWire` | payment rails, chain, treasury, operations desk | a step of several fails, or its reply is lost | issued eUSD stays backed; the answer is true; a fee is taken for work done |
| JWKS and server key (`signing/jwks.ts`, `server-key.ts`) | current key, overlap entry, epoch, instance | `rotateServerKey`, `getCurrentJwks`, load at start | minter, JWKS route | in-place swap of a shared object, window edges, restart | tokens in flight keep verifying; retired keys do not |
| Counterparty verifier (`a2a/counterparty-verifier.ts`) | JWKS cache by origin | `verifyCounterpartyAttestation`, `fetchJwksWithCache` | remote JWKS route, clock | concurrent refetches, 304 with a stale entry, unreachable server | the cache cannot be observed, except where it is meant to |
| Subscription tools (`tools/subscription.ts`) | subscriptions with buffers and intervals | subscribe (3 kinds), unsubscribe, poll | node, WebSocket manager | overlapping async interval callbacks, answers out of order | blocks in order, none left out, buffers bounded |
| WebSocket manager (`read/ws-manager.ts`) | socket, reconnect timer, subscriptions, message buffer | connect, subscribe, unsubscribe, handleMessage, reconnect | node, subscription tools | loss of the socket at any moment | the open socket carries every subscription; reconnection never stops |
| Tools (`tools/*.ts`) with blockhash cache and token registry | cached hash with an age, in-flight map, active wallet per scope, token metadata, the forge directory | 92 tools, each checks, reads, builds, signs, submits | submitter, wallets, node, forge, faucet | two calls over one cached hash, a join answered for another's submission, the wallet switched between two awaits | what is reported as confirmed is a landed transaction of the call; a refusal comes before the first effect; every call is answered |
| Sessions and OAuth (`gateway/session.ts`, `oauth-provider.ts`) | clients, codes, refresh tokens, retired tokens, deny list; a file for each | register, authorise, exchange, rotate, revoke, verify | HTTP routes, persisted store | a restart between two of the writes of one handler, a token that comes back | a grant is answered once; revoked stays revoked; answered is on disk |
| Rate limiter (`gateway/rate-limiter.ts`) | token buckets | check, refill, cleanup | HTTP routes | a bucket forgotten too early | no more than a bucket and its refill per minute |
| Beckn bridge (`gateway/beckn*`, `inbound-*`, `outbound-bap.ts`, `chain-client.ts`) | `seenTransactions`, requests in flight | search, select, confirm, on_search, on_select, on_confirm | chain, registry, peers | redelivered callbacks, a submission that fails after the id was noted, restarts | one outcome per transaction; only a submitted outcome shuts the gate |
| Callback delivery (`gateway/outbound-bpp.ts`, `inbound-bap-callback.ts`) | the attempt in flight | group rows, check the address, post, retry | catalog, BAP | a post that timed out and was received | the report says what happened; every envelope is whole |
| Wallet store (`signing/wallet-store.ts`, `local-signer.ts`) | wallets in memory per scope, one encrypted file and its temporary file, the legacy file | load, migrate, create, import, save | file system | overlapping saves over one temporary path, crashes in the migration | an answered wallet is in the file |
| BPP runtime and service BPPs (`keeper/templates/bpp`, `keeper/lib/cred-gate.ts`, `keeper/bpps/*`) | event queue, `seenTaskIds`, the task in dispatch, handlers still running | register, self check, push, close, dispatch, gate, handle, complete, fail | chain, agent cards, external models | redelivery, a handler that outlives its timeout, a lost reply of `completeTask`, revocation between two awaits | one verdict per task, with its own result; a revocation shuts the gate; no event is left in the queue |
| Bank accounts and cards (`bank/handlers/open-*`, `issue-card.ts`, `credential-ledger.ts`) | ledger entries, credentials on the chain | open checking, open savings, issue card | issuers, chain, operations desk | the ledger is written before the credential exists; the telling may fail too | no entry without a credential goes untold |
| Bank yield (`bank/yield.ts`) | balances and last period, on chain and in rows | `applyYield`, `accrueOne`, `accrueAll` | chain, the caller's store | one commit of several fails, a tick repeated, two ticks at once | no period's interest twice |
| Indexer (`services/indexer/`) | rows of traces and revocations, party directory, amounts | ingest, query, feed, travel-rule report | Postgres | rows that arrive between two queries of one report | windows partition; both parties' reports agree |
| Mesh validator (`mesh/validator.ts`) and contract (`EtoMeshBridge.sol`) | attestations, requests; locked ether, used attestations | attest, transfer, verify, loop; lock, release | two chains | balance read and credit four awaits apart; reentrant recipients, reverts | a credit rests on a stored attestation; the contract stays solvent and pays an attestation once |
| FROST service | key shares, audit log | dkg, sign, revoke | signers | none across requests: one lock | signatures verify |
| Encodings, models, errors, config, servers | none | - | - | pure functions and I/O | known-answer tests |

## 2. Plan

The order is by what goes wrong most expensively.

1. *Done.* `TxSubmitter`; `CredentialIssuer` with the abstract `BindingRegister` it
   implements, and `BankRevocation` composed with it; `MockUsdLedger`; `BankMoney`;
   `Attestation`; `PollSubscription`; `WsSubscription`; `BppRuntime` over `CredentialGate` and
   `ServiceHandlers`. Proofs of `TxSubmitter`, of `CredentialIssuer`, its refinement included, and of
   `BppRuntime`.
2. *Done.* `ToolServer` over `ToolHandlers`; `SessionGateway`, `RateLimiter`, `WalletStore`; `BecknBridge`,
   `BecknCallback`; `BankAccounts`, `YieldAccrual`; `AuditTrail`; `MeshValidator`, `MeshBridge`.
3. *Done.* Proofs of every safety property of the runs `books`, `gateway`, `streams` and `tools`: `ToolServer`, `SessionGateway`, `RateLimiter`,
   `WalletStore`, `Attestation`, `BecknBridge`, `MeshValidator`, `BankRevocation`, `MockUsdLedger`, `BankMoney`, `BankAccounts`, `MeshBridge`, `PollSubscription`, `WsSubscription`,
   and with a theory of powers, of folds and of sorting `YieldAccrual`, `BecknCallback` and `AuditTrail`.
4. *With TLC.* The liveness properties, which are outside the prover's reach.
5. *If the code grows.* The FROST service when it becomes distributed; the memo ingester's cursor; the tax sketch.

## 3. The modules

Each module's header says what is state, what is history and what is external.
History variables (marked `history:`) are written and never read by an action.
Definitions named in a comment starting with `Mutant:` are altered copies of the
definition that follows them; no specification uses them. They exist to show
that each property can be violated by a plausible mistake.

**TxSubmitter** (`write/submitter.ts`). A call is the promise of one
`submitAndConfirm`; `pc` says which await it stands at. `StartSubmission` and
`Coalesce` are the two sides of the map lookup on line 39, `SendOk`,
`SendErr`, `Classify` and `RefreshDone` are the body of the retry loop,
`PollNotYet`, `PollReceipt`, `PollError` and `PollHead` the confirmation loop, `Settle`
the `finally` that arms the timer, `CleanupTimer` and `Sweep` the two ways an entry
goes. Time is a counter; delays are constants with the one relation the code's
values have (clean-up delay at most the stale age).

**CredentialIssuer**, **BindingRegister**, **BankRevocation** (`issuers/`). The six issuers
share a flow: checks, `Lookup` in the store, `Verify` with the third party, `Pin`,
`Submit` to the chain, `Persist`, and `Reload` for the loser of a race. They differ in
which checks stand before the lookup and which after it (`PreChecks`, `PostChecks`), and in
the write: first writer wins (`PutIfAbsent`) or overwrite of an own row (`OverwriteOwn`).
`BindingRegister` says what this amounts to: a slot is empty or bound to a card, a
binding never changes its card, and a request is granted by the binding in place or
refused. `BankRevocation` EXTENDS the issuers with the revoke calls of the two bank
issuers on the same rows.

**MockUsdLedger** (`bank/mock-usd-ledger.ts`). `Enqueue` is a call joining the promise
tail, `Mutate` the synchronous part that changes memory, `Persist` the write, `Crash` and
`Open` the restart. `SafeMax` stands for `Number.MAX_SAFE_INTEGER`, so that integers up to `SafeMax + 1` are exact; a sum beyond is rounded as a double is
(`Double`: to a multiple of the gap between neighbours, ties to the even one). The run reaches sums that are rounded and files that do not open again.

**BankMoney** (`bank/handlers/`). Each handler is its sequence of external calls; each
call succeeds, is refused, or takes effect and loses its reply. The world is the set of
effects an operation has had; the bank's position is computed from it. Atomic units,
cents and the two roundings are kept.

**Attestation** (`signing/jwks.ts`, `signing/server-key.ts`, `a2a/counterparty-verifier.ts`).
One server rotates and restarts, one verifier runs concurrent verifications through its
cache. A kid is the tuple its hash is computed from, so equal kids mean equal inputs.

**PollSubscription**, **WsSubscription** (`tools/subscription.ts`, `read/ws-manager.ts`). The
two transports of a subscription: `setInterval` callbacks that overlap, and a socket that
comes and goes with a resubscription on every open.

**BppRuntime**, **CredentialGate**, **ServiceHandlers** (`keeper/templates/bpp/`, `keeper/lib/cred-gate.ts`,
`keeper/bpps/`). `CredentialGate` has the three gates as functions of a card, a requirement list and the time.
`ServiceHandlers` has each handler as its awaits and what each may lead to; `work[t]` is the await of task
`t`'s handler. `BppRuntime` EXTENDS both: `FindAgentCard`, `RegisterAgent` and `Preflight` are the start of
`main`, `Push`, `Close` and `Park` the event queue, `Take` the loop with its duplicate check, `GateLoad`, `GateFails` and
`GateDecides` the gate on both sides of its await, `HandlerSettles` and `HandlerTimeout` the two ends of `withTimeout`,
`HandlerRuns` a step of any handler, one that timed out included, and `Submit` the call to the chain. The
example mains wire stubs at the seams (a look-up that finds nothing, a seeded card); the model takes the
interfaces at those places, not the stubs.

**ToolHandlers**, **ToolServer** (`tools/*.ts`, `write/blockhash-cache.ts`, `read/token-metadata.ts`). `ToolHandlers` has one
definition per tool: the sequence of its steps in source order, with the fields its idempotency key names.
`ToolServer` says what a step does: `Gate` is the capability check and rate limit around every handler, `PickWallet`
and `GetSigner` the wallet of the caller's scope, `CacheHit`, `NodeAnswers`, `RefreshStores` and `RefreshFails` the blockhash
cache, `TimerRefreshes` its timer, whose answer may be stored late, `SubmitStarts`, `SubmitJoins`, `SubmitEnds`, `JoinEnds` and `Forget` the submitter as its callers see it,
`AtaSubmitted` the end of `ensureAta`, `PollLanded` a round of the airdrop's poll, `RunCast` a read or a send of `cast`. A
transaction is the record of the fields it is built from, so equal fields mean one transaction. The key of a submission is the tool, fields without a separator, and the text of memo and
`idempotency_key` (`Suffix`), which is concatenated as in the code: two different pairs can have one text.

**SessionGateway**, **RateLimiter** (`gateway/`). A handler of `SessionGateway` changes memory at once and then has a list of files to
write (`todo`) and an answer to give; `Persist` writes one, `Deliver` answers, `Crash` reloads what is on disk (`LoadAll`). A file is
written whole, because `atomicWriteJson` renames. `booted`, a history, is the time of the last start: entries that had expired by then were not loaded. `RateLimiter` counts tokens in fractions of a minute so that a refill is exact;
`allowed`, a history, has the calls of the last minute with the tokens each left, which tells two calls of one second apart.

**WalletStore** (`signing/wallet-store.ts`, `local-signer.ts`). Files are inodes: `Open` truncates the one the temporary name stands for, or makes it,
`Write` fills it, `Rename` moves the name. Two savers that opened one inode share its content. `Stat`, `Read` and
`Migrated` are the load with the legacy migration, each of which may fail and then counts as nothing found; `blind`, a history, notes a save made after a failed load of a file that was there.

**BecknBridge**, **BecknCallback** (`gateway/`). A message is the record of what the gates look at: route, transaction id and whether it is a
UUID, one flaw, time, ttl, signature, sender, order state. `OnRequest`, `OnSearch`, `OnSelect`, `OnConfirm` and `OnBare` are the
pipelines of the routes up to their first await, `SubmitEnds` the end of the chain call, `HandleTrigger` the outbound side, `Answers` a peer that
answers under the id it was sent. `BecknCallback` has `Providers` as a fold of `AddRow` over the catalog rows, and both
senders: `dispatchOnSearch` groups the rows and posts once, `postOnSearch` posts the envelope it is given and retries.

**BankAccounts**, **YieldAccrual** (`keeper/bpps/bank/`). The three openings are one flow: checks, ledger entry, credential,
and the flag when the credential failed. Savings look up the checking credential on chain, a card its account in the mock ledger. `YieldAccrual` keeps the integer arithmetic of `applyYield` on a rate of `Num/Den` and a
scale of `Scale`; ticks overlap and commits land in any order. What one application may add by rounding the multiplier is part of the bound
(`AtMostCompounded`): the rate compounded is `Num/Den` plus half a unit of the scale.

**AuditTrail** (`services/indexer/`). The two tables, the windowed (`Selected`) and ordered (`SortedAt`) queries, `ReadTraces` and `ReadRevocations` as the two queries of a
feed (`seen`, a history field, is the size of the table when the traces were read), `Resolve` and `Entry` as the lookups of a report, one trace a step, while `ingestTrace`, `ingestRevocation`, `LearnParty` and `LearnAmount` go on.

**MeshValidator**, **MeshBridge** (`mesh/`). Each RPC of a request is a step, and so are those of the attestation loop; blocks and spending come in
between. A chain name in a body is any text (`Name`), read and credited by the comparisons of the code (`ReadOn`, `CreditedOn`). `MeshBridge` has `release` up to the call of the recipient, what the recipient may do (`lock`, another `release`), and `Returned` or `Reverted`.

**Sums** has the sum of a function over a finite set, as `BankMoney` and `MockUsdLedger` use it.

**Books**, **Gateway**, **Streams** put components side by side (section 4): `Books` has `BankRevocation`, `MockUsdLedger`, `BankMoney`, `BankAccounts`, `YieldAccrual`,
`AuditTrail` and `MeshBridge`; `Gateway` has `SessionGateway`, `RateLimiter`, `WalletStore`, `Attestation`, `BecknBridge`, `BecknCallback` and `MeshValidator`; `Streams` has
`PollSubscription`, `WsSubscription` and the queue of `MockUsdLedger`. They state the assumptions of their parts as ASSUMEs.

## 4. The runs

`Books`, `Gateway` and `Streams` compose several components that share no state; `MCBooks` and `MCGateway` give two of them the values for TLC. A behaviour is of one of
the components, chosen by the variable `part` in `BooksInit`, `GatewayInit` or `StreamsInit`, which no step changes: the states of the run are the disjoint union of the states of the parts, and a property speaks of its part. Each part has the
bounds it would have in a run of its own; the variables of the parts that do not run have no value.

| Run | Instance | What it shows |
|---|---|---|
| `submit`: OneLivePerKey, HonestOutcome, TimeoutNotEarly, EveryCallAnswered | 2 calls, 1 key, 1 retry, 3 ticks | Two calls of submitAndConfirm with one key, retries, poll errors, lost replies and both expiry mechanisms: a key is not exposed while its submission is live (unless one overran the two delays), answers match the chain (a failure without a signature unless the submission lost sight of its transaction), a submission does not time out before its caller asked for it, and every call is answered. |
| `streams`: NotificationsFaithful, Resubscribed, CatchesUp, Reconnects, QueueDrains | 2 polls in flight, 3 kinds, 3 heights; 2 subscriptions, 4 notifications; 2 ledger operations, amounts around the safe limit, 1 crash | The three long-lived loops of the process: overlapping polls with answers out of order, a socket that is lost and comes back, and the write queue of the USD ledger with failing writes. Notifications are faithful to the chain, every live subscription is sent again, and catching up, reconnecting and draining the queue always happen. |
| `issuers`: MintingSound, CallersConverge, Refines, EveryRequestAnswered | 2 requests, 6 issuers, 1 key, 2 cards, all faults | Two requests race through the six issuers with crashes, lost replies and failing stores: rows stand for minted credentials, a retry never mints again, flawed requests mint nothing, callers converge, the issuers implement the abstract binding register, and every request is answered. |
| `books`: RevocationSound, LedgerSound, BooksSound, AnswerTrue, NoSilentOrphan, YieldNeverDouble, ReportsReconcile, BridgeSound | 2 issue and 2 revoke calls; 3 ledger, money and account calls; 3 ticks over 2 accounts and 2 periods; 2 reports; 3 attestations of 1 or 2 wei | The modules that keep books: revocation registry, USD ledger, ramps and wires, account opening, yield accrual, audit feed and travel-rule reports, bridge contract, each with its lost replies, refused calls and crashes. The books add up, answers are true, no credential is left behind unflagged, yield is paid once, reports agree with what was ingested and the contract never pays out twice. |
| `gateway`: GrantOnce, RevokedStaysRevoked, AnsweredDurable, RateBound, AloneDurable, RotationSound, CallbackSound, DeliveredAsReported, CreditAttested | 2 clients, 3 tokens, 1 crash; 2 categories over two minutes; 2 wallet calls, 2 crashes; 2 verifications, 1 rotation, 1 restart; 2 callbacks out of 14, 2 triggers, 1 crash; up to 3 rows, 3 attempts; 2 mesh requests, an unknown chain name among them | The edge of the process: OAuth codes and refresh families with crashes between persist and answer, rate limits, wallet file, signing keys and verifier cache, Beckn callbacks, callback delivery and the mesh validator. Grants are used once, revocations outlive restarts, answered changes are on disk, a token bucket never exceeds its rate, a rotation does not break tokens in flight, a confirmed order is submitted once, deliveries are reported as they went, and a credit rests on an attested balance. |
| `bpp_runtime`: OneVerdictPerTask, VerdictIsOwn, RevocationTakesEffect, GatesAgree, RegisteredOnce, EveryEventDispatched | 2 tasks, 2 events, 6 providers, 2 requirement lists, 1 crash, 2 seconds | A provider process of each kind with redelivered events, handlers that hang or time out and run on, revocations, lost replies and a crash: one verdict per task, with the result of its own handler; a revocation shuts the gate at once; the three gates agree; one registration; and every event is dispatched. |
| `tools`: OkMeansLanded, RefusedNoEffect, NeighboursDistinct, EveryToolCallAnswered | 2 calls of every pair in `AllLoads`, transfers whose keys read alike among them, 2 scopes, 2 blockhashes | Two concurrent tool calls over the shared blockhash cache, in-flight map, active wallet, token metadata and forge directory: what a tool reports as confirmed is on chain and is the call's own transaction or one it joined by its key, a refused call has sent nothing (the recipient of transfer_token excepted), neighbouring transfers of a batch are distinct transactions, and every call is answered. |
| `issuer_double_mint` (violation): OneMintPerSlot | 2 requests, 1 issuer, no faults | The nullifier is not reserved before the chain transaction: two concurrent worldcoin requests mint twice. |
| `jwks_across_restarts` (violation): VerifiableAcrossRestarts | 1 token, 1 verification, 1 restart, key file | With the key file in place a token minted before a restart is answered unknown-kid, because the kid contains the start time of the process. |
| `tools_twice` (violation): DistinctSubmissions | the same transfer twice with two keys | Two transfers whose idempotency keys differ are built over one cached blockhash: they are the same transaction, and the second is reported OK though it moved nothing. |
| `wallet_acked` (violation): AckedWalletDurable | as `gateway` | Two createWallet calls save over one temporary file: a wallet whose caller was answered is missing after a restart. |
| `beckn_answerable` (violation): OwnRequestAnswerable | as `gateway` | The bridge sends requests under the first 36 characters of a hash and refuses a callback whose transaction_id is not a UUID: the answer to its own request is refused. |

## 5. Where the code and its comments disagree

Five runs check a sentence of the repository and find the code doing something else.

1. `issuer_double_mint`: "Reserve the nullifier *before* sending the chain tx" (`src/issuers/worldcoin.ts:376`).
   The row is written after the transaction: two concurrent requests mint two credentials (and
   then converge on one row, which `CallersConverge` shows).
2. `jwks_across_restarts`: the key file makes tokens "verifiable across restarts"
   (`src/signing/server-key.ts:80`). The kid contains the start time of the process.
3. `tools_twice`: an `idempotency_key` is for "parallel transfers that share from/to/amount/memo to guarantee distinct
   submissions" (`src/tools/transfer.ts:35`). Over one cached blockhash they are one transaction, and both calls are answered with it.
4. `wallet_acked`: the file per scope "is what makes P0-01 (wallet persistence across reconnects) work"
   (`src/signing/local-signer.ts:87`). Two overlapping saves share one temporary path and an answered wallet is lost. `AloneDurable` shows that
   nothing is lost, through migrations and crashes, as long as saves do not overlap.
5. `beckn_answerable`: callbacks "MUST echo the `transaction_id`" (`tests/fixtures/beckn/README.md:58`). The bridge's own ids are
   36 characters of a hash, which its schema refuses when they come back.

Three definitions state a sentence the code does not keep and have no run, one step being enough to see it: `BalancesSafe` of `MockUsdLedger` (an
amount is "Always a non-negative safe integer", `keeper/bpps/bank/mock-usd-ledger.ts:39`; sums are not checked), `TierRespected` of `RateLimiter` (a bucket is
sized by the first category a key asks for, `src/gateway/rate-limiter.ts:42`), and `OwnAttestationVerifies` of `MeshValidator` (`verifyAttestation` leaves
out a field `signAttestation` signed, `mesh/validator.ts:145`).

Three more sentences are narrower in the code than they read, and the properties state what the code does:
"When two callers race with the same key, both await the same underlying submission"
(`src/write/submitter.ts:34`) holds only while no submission of the key overran the sweeper's age, which is
the exception `OneLivePerKey` names, and the caller that joins gets the outcome of the submission it joined, a timeout that is early by its own `timeoutMs` included
(`TimeoutNotEarly`); a notification "each time a new block is produced"
(`src/tools/subscription.ts:267`) may come twice when two scans overlap, so `NothingSkipped` is about blocks
left out and not about repeats; and the WebSocket manager gives every notification to every subscription
(`src/read/ws-manager.ts:193`).

The comment of `applyYield` says its scale "locks ≪ 1 atomic-unit drift over realistic horizons (e.g. 100 years × $1B principal"
(`keeper/bpps/bank/yield.ts:49`). Rounding the multiplier to a scale of 10^12 moves a balance by up to half of balance / 10^12 each time it is applied, 500 atomic units
for 10^15 of them ($1B). `YieldNeverDouble` allows this rounding once per period, and the proof needs it: without the half unit it is false.

In the BPP template, "a stalled handler is killed by the `handlerTimeoutSec` budget"
(`keeper/templates/bpp/README.md:44`) is true of the waiting only: `withTimeout` fails the task and the handler
goes on (`HandlerRuns`); `VerdictIsOwn` shows that nothing of it reaches a verdict. And a task whose `completeTask` or
`failTask` threw stays without a verdict: the error is logged and a redelivery is dropped as a duplicate.

What the models show besides, and the properties therefore do not promise: a submission answered `failed` without a signature has its transaction on chain all the same if the
reply of the send was lost or the poll was broken off by errors (`src/write/submitter.ts:96`; `HonestOutcome` names these two as its exception); a confirmed order whose submission failed is refused as a duplicate
when it is sent again, since the id was noted before (`src/gateway/inbound-bpp.ts:223`), and a restart forgets the ids; a callback that timed out may
have been received, so up to three arrive (`src/gateway/inbound-bap-callback.ts:183`); a savings entry without its credential is never flagged
(`keeper/bpps/bank/handlers/open-savings.ts:132`); a card may be issued on a checking account that is only in the mock ledger, opening or orphaned (`keeper/bpps/bank/handlers/issue-card.ts:276`); burned eUSD is neither pushed nor flagged when `flagReconciliation` throws (`keeper/bpps/bank/handlers/offramp.ts:152`); a settlement ingested between the reads of two parties is in one report and not in the other (`ReportsReconcile` says when); a tick whose one commit failed loses the rows of those that landed, and commits that land out of order move a balance on chain back
(`keeper/bpps/bank/yield.ts:88`); a second trace of one transaction is dropped by `ON CONFLICT (tx_signature)` (`src/services/indexer/postgres-event-source.ts:339`); the mesh
credits without locking, so two transfers may rest on one balance, and a lost reply leaves a credited transfer `failed`; in a batch only neighbouring transfers are
distinct (`src/tools/transfer.ts:223`); two transfers of which one has the memo `a-i:b` and the other the memo `a` with `idempotency_key` `b` have one key (`src/tools/transfer.ts:98`), so that the one that joins is told of a transaction with the other memo,
although "distinct memos never coalesce" (line 33), which is the exception of `OkMeansLanded`; a `batch_transfer` counts a TIMEOUT as a success (line 249), `batch_execute` does not poll for its airdrop, and `ensureAta` does not look at the result of its submission;
the recipient of `transfer_token`, "base58 or 0x" by its description, is decoded as base58 in the second `ensureAta`, after the first one submitted a transaction (`src/tools/token.ts:207`, the exception of `RefusedNoEffect`);
a restart in the very second a revoked access token expires lets it through until the second is over (`src/gateway/session.ts:103` against `:180`), and drops a code that could still be exchanged (`src/gateway/oauth-provider.ts:45` against `:150`);
a wallet file that cannot be read or decrypted is an empty map, which the next save writes over it, a failing `stat` lets the migration overwrite it, and legacy wallets that could not be decrypted at the first load are not migrated once the new file exists (`src/signing/wallet-store.ts:198`, `:208`, `:267`);
a `from_chain` the mesh does not know is read as ETO and a `to_chain` it does not know credited on Ethereum, and the two attestations of such a transfer name different sources (`mesh/validator.ts:235`, `:277`); and two compilations share one forge directory (`src/tools/foundry.ts:55`), the second clearing the output of the first.

## 6. Bounds

The bounds are the constants of the `.cfg` files; every one is named in its module.

* *Actors.* The races in this code are between two requests and a third party that arrives late
  (a retry, a reader, a revocation). Runs have two or three of the actors that race and one or two of
  the things they race for; the theorems of section 8 remove the bound
  for every safety property they state.
* *Time.* Ticks are the unit of the shortest delay; constants keep the order of the real delays
  (poll floor < clean-up delay < stale age; window < lifetime), and `MaxNow` lets time pass each of
  them at least once after an event that starts it (for signing keys: after what happens in the first second; a fetch may span the end of a window).
* *Counters.* Retries, poll errors, rotations and restarts go one or two past the limit that
  changes behaviour.
* *Buffers.* `Cap`, `MaxBuf` and `KeepBuf` are small enough that every run overflows them.
* *Amounts.* A few values on both sides of each threshold: zero, an amount below a cent, one that rounds,
  one above the safe limit.
* *Faults.* A fault may strike any number of calls, each once; crashes are bounded by a count.

`SYMMETRY` is declared for sets whose members no definition tells apart, and only in runs without
liveness properties. Deadlock is not checked where a run may simply be out of calls (each call is
made at most once).

In `ToolServer` tools with the same sequence of steps behave alike, so `Tools` has one of each; every one of them runs beside the partner that shares the most state
with it (itself, or one that writes what it reads), with the same and with different contents where calls can be joined. In `BecknBridge` the messages are the honest one and, for each gate, one
that fails only there. In `AuditTrail` traces lie on both sides of every window bound and of the threshold. In `SessionGateway` three tokens are enough for a code, its refresh
token and the rotation of that; one crash may fall between any two writes.

## 7. Fairness

Weak fairness of what the JavaScript runtime guarantees: a settled promise's continuation
runs, a timer that is due fires, an interval keeps firing. Nothing is assumed of the node or the
network except where a property is about recovery: `CatchesUp` needs a request that is sent
infinitely often to be answered infinitely often (strong fairness of the answer), and
`Reconnects` that a connection attempted for ever is accepted at some time, and `EveryEventDispatched` that the card
loader and the chain answer or refuse each call, since the runtime gives them no timeout. Of handlers nothing is
assumed there: they may hang at any await. `EveryToolCallAnswered` assumes of the
node, the faucet and forge that each call ends, with an answer or an error (the code sets no timeout of its own on these; `fetch` and the child process end by themselves). Calls, produced
blocks, failures, crashes, revocations and rotations are never fair: they may happen or not.

## 8. Proofs

TLC checks the instances above; the following hold for every value of the constants that
satisfies the ASSUMEs of the modules.

**TxSubmitter_proofs.** `KeysAreProtected` needs to know where the entry of a key comes from and when it
may go: the inductive invariant adds that a call's stage and its fields agree (`CallInv`), that no
time stamp lies in the future and a settled submission's timer is due (`TimeInv`), that an entry was made by
an owner of that key at the recorded time (`EntryInv`), that a coalesced call awaits a submission of its own key
(`AwaitInv`) and that a live submission is registered unless one of its key overran (`Protected`). The
argument is arithmetic on three delays, from `CleanupDelay <= StaleAge` alone. A second invariant
(`PollInv`) gives `OutcomesAreHonest` and `TimeoutsAreNotEarly`: the deadline a poll works with is never
before the time its caller asked for, since a retry takes the remainder and the floor only adds; a submission that has
not lost sight of its transaction knows there is none on chain until a send is answered (`SightInv`); and a joined call
repeats the answer of the submission it joined (`JoinedInv`).

**CredentialIssuer_proofs.** `IInv` is the type invariant, `Stages` (what is known at each await), and the
three facts the flow maintains together: rows are minted, grants are own, and a grant agrees with the row of its
slot. `CallersDoConverge` and the refinement `IssuersImplementRegister` follow from it; `NeverRemints` and
`FlawedNeverMint` have invariants of their own over the history variables (`SeqInv`, `FlawInv`), and `MintingIsSound` puts the three together as the run states them. The refinement
maps the store to bindings (slot to card) and needs the invariant because a step of the register may only bind
an unbound slot. Assumptions: `None` is no request, card or slot.

**BppRuntime_proofs.** `TInv` adds to the types that there is a current task at every await of `dispatchOne`. `OneVerdict` and
`VerdictsAreOwn` share the invariant `VInv`: a landed verdict is of a seen task and not of the one in dispatch
(`LandedInv`), so a submission cannot repeat a task; the task at the gate has not run, a task whose handler is awaited has
not timed out, and a completion about to be submitted is of a handler that succeeded (`DispatchInv`); a settled
handler never moves again (`HandlerKeepsSettled`). `RevocationsTakeEffect` needs that while a barred task stands at the gate its
card, and the copy the gate holds, have nothing unrevoked (`BarredInv`), which revocations only make truer. `RegistersOnce`
needs that `registerAgent` is reached only with no card registered. `GatesDoAgree` is a statement about functions: the near-miss rank
of a credential is 5 exactly if the default gate would take it, and the maximum over the card is 5 exactly if one is.
Assumptions: cards and requirements have the shape the types give them, and a provider's own issuer set is not empty.

**Sums_proofs.** The laws of finite sums the books need: the sum of integers is an integer, it splits, it adds term by term, it grows with its terms, it is not changed by zeros,
and it can be taken over an image (`SumReindex`). `MapThenSumSet` takes elements away in an order CHOOSE fixes; the key lemma is `SumRemove`, that any element may be taken away first. It
is proved by induction over subsets (`SubsetInduct`), which comes from the least counterexample of a set of naturals.

**Books_proofs.** A behaviour of `Books` is one of a component (`PartStep`), so each property is proved for its component first (`BridgeSolvent`, `AccountsReconciled`,
`MoneyBacked`, `UsdLedgerSound`) and carried over.
*Bridge*: the storage a revert brings back has to be sound as well (`SoundStorage` of both).
*Accounts*: `NoSilentOrphan` is about the end of an opening and needs what is known at each await of it, and what was known of the linked checking account when it was looked up (`Linked`): on chain for savings; for a card an entry of the mock ledger, which stays accounted for (`KnownGrows`).
*Money*: `OpInv` says which effects an operation has had at each call it is about to make, with at most one in doubt; `AnswerTrue` and `FeeEarned` follow. `Backed` is a
statement about sums: `EffectOrder` and `Backing` say of one operation that eUSD is minted only for cents that cleared and wires go out only locked; row by row what is owed is covered
(`RowCovered`), and the laws of `Sums_proofs` add the rows up. The two exceptions of `Backed` (a reference confirmed twice, a wire refunded after a lost release) are hypotheses of the property itself.
*Ledger*: memory and file each add up over their own log (`AddsUp`), exactly as long as what was paid in does not exceed 2^53 (`DoubleExact`, `LogGrows`), an operation waits in the queue once, and only its head can be in memory already (`QueueInv`).
*Revocation*: `RvInv` contains the invariant of the issuers, since a call must trust the row it read before its transaction: `BankRowsStand` shows that no issuer replaces the row of a bank slot.
*Yield*: the invariant says of a row, of the balance on chain and of every commit on its way that it is within what its periods give (`YieldInv`). The arithmetic is in two lemmas: one application of n periods multiplies by at most
`(Num/Den)^n` and half a unit of the scale (`RoundingOnce`), and that is below the n-th power of the multiplier with the half unit added (`AccruedBound`), from the laws of powers (`PowerSum`, `PowerProduct`), which are proved from the recursive function behind `Power` by
induction with a set for the predicate (`PowersExist`, `PowerLaws`).
*Reports*: `SortedAt` puts at place k the element with k - 1 before it. In a finite strictly ordered set the ranks are 0, 1, ... up to its size, each taken once (`RanksCount`, by counting), so the sorted sequence has the elements it is made of, ascending (`SortSound`), and
sorting two sets of which one lies wholly below the other is sorting them one after the other (`SortSplits`); adjacent windows are such sets (`FeedsSplit`). Of a report, `ReportOk` says that its entries are those of the traces it has come to, without the missing ones, each
once: a lookup that failed for one transaction says nothing of another because a transaction is in the table once (`IngestKeeps`), and the authority of a report is a party to each of its traces, so that the entry does not depend on whose report it is (`EntryIs`). `FeedSeen` ties a feed to the rows its snapshot had; `ListedBetween` is what remains when one party lists a row and the other does not.

**Gateway_proofs.** *Sessions*: what an answer promises is written as a predicate on each of the five maps (`ClientsFor` ... `DenyFor`). The invariant says that memory and disk keep the promises of all answers given, and that the
answer under way has its promises kept by memory and by every file not in `todo` any more (`PendingOk`): a crash then falls back on a disk that keeps the old promises, and `Deliver` comes when `todo` is empty.
*Beckn*: ids in `seen` are those an outcome was submitted for, attempts of earlier processes have older epochs.
*Mesh*: a request past its balance check has an attestation stored for it of the balance it read (`Balance`), one at its credit also the state that follows (`Evidence`); attestations are never taken away.
*Wallets*: as long as no saves overlapped, and none came from a failed load, at most one runs, the inode it opened is the temporary file's and its snapshot has all that must not be lost (`Alone`). That a free inode exists is counted from the assumption on `Inodes`.
*Rotation*: a kid is made once, with one key (`KeyOf`, whose witness function grows with each rotation and restart); a JWKS reply holds what was in its window when it was sent (`ServedOk`, `InWindow`), and a verdict is a function of the reply (`Verdict`), whether it came as 200 or 304.
*Rate*: `Paid` says for every second of the past that the calls since then and the tokens left are at most a full bucket and the refill since; the cleanup forgets a bucket only after `Idle >= Minute`, when no call of it is in the last minute.
*Callback*: what is posted is `Providers` of the rows, or for the retrying sender the rows themselves, and an attempt is counted when it is made, before anything can have been received (`CallbackInv`). That `Providers` has each provider once with all its items is an induction over the rows: the fold of the library is a recursive
function over sets of positions, which exists (`GatherExists`) and takes the last row last (`GatherNext`); one row adds a provider or lengthens one entry (`AddRowOk`), and the reference `ItemsOf` grows in the same way (`FlattenIsLast`).

**Streams_proofs.** `WsInv` adds to `Resubscribed` that the reconnect timer is armed only while the socket is closed. `PollInv` has one part for each kind of subscription: the log counts up from the first answer and the
buffer is its end (`Blocks`), a scan under way has told every block before its next (`Scanning`), each account change starts where the last ended (`Linked`). `CappedConcat` is the lemma that
keeping the end of a buffer at every append is keeping the end of the whole.

**ToolServer_proofs.** First the handlers alone: `WellOrdered` is the order of steps the properties rest on (refusals before effects but for `transfer_token`, bindings before a transaction is named, one set of key fields a tool, a distinct blockhash before the signature of each
entry of a batch), and `HandlersOrdered` proves it of each of the 92 sequences, in three groups (`Reads`, `Submits`, `Looked`) and six tools of their own. Then the calls: `ToolInv` says of each call what was sent and named by a step before its
position (`CallOk`), that confirmed names are on chain (`OnChain`), that an in-flight entry agrees with its key on every field and that the text of its key is spelled from its memo (`FlightOk`, `Spelled`), and that a waiting call has its entry (`Waits`), alone (`Alone`). What a key's text tells of the memo is `MemoRead`: two memos without the mark `-i:` in them, or two without an `idempotency_key`, are equal when the texts are. A step goes on, jumps to the next entry, or ends the call
(`Continues`, `Stops`); the actions are instances of these. Assumption: the tools of `Loads` are tools, and `None` is no answer.

The theorems for the runs hold for the fair specification, of which fairness is not used. Assumptions on constants say that sets of actors are finite where something is counted or summed, that amounts, limits and durations are naturals (amounts of the money handlers integers: the code checks
their sign), that `None` is none of the values it stands beside, and three relations of the code's own values: `CleanupDelay <= StaleAge`, `Idle >= Minute` (`rate-limiter.ts`), and a temporary inode can always be made. `YieldAccrual` assumes a positive scale and denominator and a multiplier of at least one (`applyYield` pays nothing for `apy_bps <= 0`), `AuditTrail` that slots and the ranks of signatures are naturals, `BecknCallback` that rows
are sequences with sequences of items and that there is a first attempt.

What stays with TLC, and why:

* every liveness property (`EveryCallAnswered`, `CatchesUp`, `Reconnects`, `QueueDrains`, `EveryRequestAnswered`, `EveryEventDispatched`,
  `EveryToolCallAnswered`): fairness and ENABLED are outside the prover's reach.

All the other properties of the passing runs, the refinement included, are stated by a theorem.
The prover has no induction over data with an operator for the predicate. Where a proof needs one, it is made with a set in the predicate's place
(`NatInduct`, `SubsetInduct` of `Sums_proofs`): the set of numbers, or of subsets, for which the statement holds.

## 9. Not modelled

Section 1 lists the parts; `PROJECT.json` gives the reason for each that has no module. In short: byte encodings,
hashes, schemas as far as no gate looks at them, and message texts are functions of data without
state of their own; the language-model, search and image providers, the chain, the node, Postgres and the file
system are external and appear only as what the code can observe of them. The nonce manager, error recovery, fee estimates, the
simulator, the response cache and the rotation of wallet keys are not called by any tool or server. The FROST service handles each
request under one lock; its arithmetic is on 32-byte scalars. The memo ingester decodes and inserts.
In the modules themselves: promise rejections nobody handles (`submitter.ts:49`) end the process or not
depending on runtime flags and are left out; `disconnect()` of the WebSocket manager has no caller; the map of a
`subscribe_logs` scan is the one of `subscribe_blocks` with transactions, a block without a matching log being
one whose notification nobody misses.
