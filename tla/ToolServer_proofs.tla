------------------------- MODULE ToolServer_proofs -------------------------
(***************************************************************************)
(* Proofs about the tool server.  The first part is about the handlers     *)
(* alone: the order of their steps, for each of the 92 tools.  The second  *)
(* is about concurrent calls that run them.                                *)
(***************************************************************************)
EXTENDS ToolServer, WellFoundedInduction, NaturalsInduction, TLAPS

(* The fields of a key, and the kinds of steps: what sends something to the *)
(* chain, what may refuse the call, what names a transaction in the answer. *)
KeyFields == {"payer", "target", "content", "fresh", "hash", "entry"}
Effects   == {"submit", "ata", "faucet", "cast"}
Refusing  == {"check", "build", "wallet", "active", "find", "unavailable"}
Naming    == {"submit", "landed"}

(***************************************************************************)
(* The order of a handler's steps.  Nothing but a builder refuses the call *)
(* after an effect (but in an entry of a batch, which ends alone); entries *)
(* of a batch come in order, each with one submission at its end; a tool   *)
(* that asks the faucet submits nothing itself; the poll for a faucet      *)
(* transaction follows the request for it; the signature and submission of *)
(* an entry follow its own distinct blockhash.                             *)
(***************************************************************************)
Single(s) ==
  s.entry \in Nat /\ s.key \subseteq KeyFields /\ (s.op = "landed" => s.entry = 0)
Later(s, u) ==
  /\ s.op \in Effects /\ u.op \in Refusing => u.entry > 0 \/ u.op = "build"
  /\ s.entry <= u.entry
  /\ s.op = "submit" /\ s.entry > 0 => s.entry < u.entry
Pairs(s, u) == s.op = "faucet" => u.op # "submit"
Follows(s, u) ==
  /\ u.op = "landed" => s.op = "faucet" /\ s.entry = u.entry
  /\ u.entry > 0 =>
       IF u.op \in {"sign", "submit"}
       THEN s.entry = u.entry /\ s.op \in {"distinct", "sign"}
       ELSE s.entry = u.entry => s.op \notin {"distinct", "sign", "submit"}
Leads(s) == s.op # "landed" /\ (s.entry > 0 => s.op \notin {"sign", "submit"})
Spans(h) == DOMAIN h = 1..Len(h)
WellOrdered(h) ==
  /\ Len(h) \in Nat \ {0} /\ Spans(h)
  /\ Leads(h[1])
  /\ \A i \in 1..Len(h) :
       /\ Single(h[i])
       /\ h[i].op = "submit" /\ h[i].entry > 0 => "hash" \in h[i].key
  /\ \A i, j \in 1..Len(h) : 
        /\ Pairs(h[i], h[j])
        /\ i < j => Later(h[i], h[j])
        /\ j = i + 1 => Follows(h[i], h[j])

(***************************************************************************)
(* The handlers in which nothing at all refuses the call after an effect.  *)
(***************************************************************************)
Early(h) ==
  \A i, j \in 1..Len(h) :
    i < j /\ h[i].op \in Effects /\ h[j].op \in Refusing => h[j].entry > 0

(* A step that sends and names nothing, and a submission outside batches. *)
Quiet(s) == s.op \notin {"submit", "ata", "faucet", "cast", "landed"} /\ s.key = {} /\ s.entry = 0
Sends(s) == s.op = "submit" /\ s.key \subseteq KeyFields /\ s.entry = 0

(* The steps handlers are written with: all are quiet, but for submissions. *)
LEMMA Vocabulary ==
  /\ Quiet(Check) /\ Quiet(Build) /\ Quiet(Wallet) /\ Quiet(ActiveWallet)
  /\ Quiet(MaybeActive) /\ Quiet(Signer) /\ Quiet(Await) /\ Quiet(Find)
  /\ Quiet(Tolerate) /\ Quiet(Blockhash) /\ Quiet(Keypair) /\ Quiet(Sign)
  /\ Quiet(Metadata) /\ Quiet(Register) /\ Quiet(Workspace) /\ Quiet(Forge)
  /\ Quiet(Artifact) /\ Quiet(Unavailable) /\ Quiet(SetActive)
  /\ \A k \in SUBSET KeyFields : Sends(Submit(k))
  /\ NoKey \in SUBSET KeyFields
BY DEF Quiet, Sends, NoKey, Step, Check, Build, Wallet, ActiveWallet, MaybeActive, Signer, Await,
  Find, Tolerate, Blockhash, Keypair, Sign, Metadata, Register, Workspace, Forge, Artifact,
  Unavailable, SetActive, Submit

(* A handler with at most one submission, at its end. *)
Linear(h) ==
  /\ Len(h) \in Nat \ {0} /\ Spans(h)
  /\ \A i \in 1..Len(h) : Quiet(h[i]) \/ (i = Len(h) /\ Sends(h[i]))

(* A handler whose only submission is its last step is well ordered. *)
LEMMA LinearOrdered == ASSUME NEW h, Linear(h) PROVE WellOrdered(h) /\ Early(h)
<1>1. Len(h) \in Nat /\ Len(h) > 0 /\ Spans(h)
  BY DEF Linear
<1>2. Leads(h[1])
  BY <1>1 DEF Linear, Leads, Quiet, Sends
<1>3. \A i \in 1..Len(h) : h[i].entry = 0 /\ Single(h[i])
  BY <1>1 DEF Linear, Quiet, Sends, Single
<1>4. ASSUME NEW i \in 1..Len(h), NEW j \in 1..Len(h)
      PROVE  /\ Pairs(h[i], h[j])
             /\ i < j => Later(h[i], h[j])
             /\ j = i + 1 => Follows(h[i], h[j])
  <2>1. Pairs(h[i], h[j])
    BY <1>1 DEF Linear, Quiet, Sends, Pairs
  <2>2. i < j => Later(h[i], h[j])
    BY <1>1, <1>3 DEF Linear, Quiet, Sends, Later, Naming, Effects
  <2>3. j = i + 1 => Follows(h[i], h[j])
    BY <1>1, <1>3 DEF Linear, Quiet, Sends, Follows
  <2> QED
    BY <2>1, <2>2, <2>3
<1>5. Early(h)
  BY <1>1 DEF Linear, Quiet, Sends, Early, Effects
<1> QED
  BY <1>1, <1>2, <1>3, <1>4, <1>5 DEF WellOrdered

(* The tools that submit nothing. *)
LEMMA Reads ==
  /\ Linear(get_balance)
  /\ Linear(get_account)
  /\ Linear(get_transaction)
  /\ Linear(get_block)
  /\ Linear(search)
  /\ Linear(get_chain_stats)
  /\ Linear(get_block_height)
  /\ Linear(get_account_transactions)
  /\ Linear(query_memos)
  /\ Linear(list_validators)
  /\ Linear(get_epoch_info)
  /\ Linear(get_vote_accounts)
  /\ Linear(get_health)
  /\ Linear(create_wallet)
  /\ Linear(import_wallet)
  /\ Linear(list_wallets)
  /\ Linear(get_wallet)
  /\ Linear(set_active_wallet)
  /\ Linear(derive_address)
  /\ Linear(session_info)
  /\ Linear(estimate_fee)
  /\ Linear(get_token_info)
  /\ Linear(get_token_balance)
  /\ Linear(list_token_holdings)
  /\ Linear(call_contract)
  /\ Linear(read_contract)
  /\ Linear(encode_calldata)
  /\ Linear(get_contract_info)
  /\ Linear(resolve_cross_vm_address)
  /\ Linear(inspect_uth)
  /\ Linear(get_stake_info)
  /\ Linear(zk_bn254_ops)
  /\ Linear(list_agents)
  /\ Linear(get_agent)
  /\ Linear(send_a2a_message)
  /\ Linear(read_a2a_messages)
  /\ Linear(list_a2a_channels)
  /\ Linear(list_mcp_services)
  /\ Linear(get_mcp_service)
  /\ Linear(create_swarm)
  /\ Linear(get_swarm)
  /\ Linear(batch_query)
  /\ Linear(forge_compile)
  /\ Linear(cast_abi_encode)
  /\ Linear(anchor_init)
  /\ Linear(anchor_build)
  /\ Linear(anchor_test)
  /\ Linear(beckn_search)
  /\ Linear(beckn_select)
  /\ Linear(beckn_init)
  /\ Linear(beckn_confirm)
  /\ Linear(beckn_rate)
  /\ Linear(credential_request)
  /\ Linear(credential_attach)
  /\ Linear(credential_verify)
  /\ Linear(credential_revoke)
  /\ Linear(bank_open_checking)
  /\ Linear(bank_onramp)
  /\ Linear(bank_offramp)
  /\ Linear(bank_wire)
  /\ Linear(bank_transfer_funds)
BY Vocabulary DEF Linear, Spans, get_balance, get_account, get_transaction, get_block,
  search, get_chain_stats, get_block_height, get_account_transactions,
  query_memos, list_validators, get_epoch_info, get_vote_accounts, get_health,
  create_wallet, import_wallet, list_wallets, get_wallet, set_active_wallet,
  derive_address, session_info, estimate_fee, get_token_info,
  get_token_balance, list_token_holdings, call_contract, read_contract,
  encode_calldata, get_contract_info, resolve_cross_vm_address, inspect_uth,
  get_stake_info, zk_bn254_ops, list_agents, get_agent, send_a2a_message,
  read_a2a_messages, list_a2a_channels, list_mcp_services, get_mcp_service,
  create_swarm, get_swarm, batch_query, forge_compile,
  cast_abi_encode, anchor_init, anchor_build, anchor_test, beckn_search,
  beckn_select, beckn_init, beckn_confirm, beckn_rate, credential_request,
  credential_attach, credential_verify, credential_revoke, bank_open_checking,
  bank_onramp, bank_offramp, bank_wire, bank_transfer_funds

(* The tools that submit once, at their end. *)
LEMMA Submits ==
  /\ Linear(transfer_native)
  /\ Linear(burn_tokens)
  /\ Linear(deploy_evm_contract)
  /\ Linear(deploy_wasm_contract)
  /\ Linear(deploy_move_module)
  /\ Linear(deploy_svm_program)
  /\ Linear(cross_vm_call)
  /\ Linear(create_stake)
  /\ Linear(delegate_stake)
  /\ Linear(deactivate_stake)
  /\ Linear(withdraw_stake)
  /\ Linear(zk_prove)
  /\ Linear(zk_verify)
  /\ Linear(create_agent)
  /\ Linear(pause_agent)
  /\ Linear(resume_agent)
  /\ Linear(create_a2a_channel)
  /\ Linear(close_a2a_channel)
  /\ Linear(register_mcp_service)
  /\ Linear(call_mcp_service)
  /\ Linear(join_swarm)
  /\ Linear(swarm_propose)
  /\ Linear(swarm_vote)
  /\ Linear(forge_create)
BY Vocabulary DEF KeyFields, Linear, Spans, transfer_native, burn_tokens,
  deploy_evm_contract, deploy_wasm_contract, deploy_move_module,
  deploy_svm_program, cross_vm_call, create_stake, delegate_stake,
  deactivate_stake, withdraw_stake, zk_prove, zk_verify, create_agent,
  pause_agent, resume_agent, create_a2a_channel, close_a2a_channel,
  register_mcp_service, call_mcp_service, join_swarm, swarm_propose,
  swarm_vote, forge_create

(* The handlers are those of the table. *)
LEMMA Looked ==
  /\ Handlers["transfer_token"] = transfer_token
  /\ \A t \in DOMAIN Handlers \ {"transfer_token"} : Handlers[t] \in
     {get_balance, get_account, get_transaction, get_block, search, get_chain_stats,
      get_block_height, get_account_transactions, query_memos, list_validators,
      get_epoch_info, get_vote_accounts, airdrop, get_health, create_wallet,
      import_wallet, list_wallets, get_wallet, set_active_wallet, derive_address,
      session_info, transfer_native, batch_transfer, estimate_fee, create_token,
      mint_tokens, burn_tokens, get_token_info, get_token_balance,
      list_token_holdings, deploy_evm_contract, deploy_wasm_contract, deploy_move_module,
      deploy_svm_program, call_contract, read_contract, encode_calldata,
      get_contract_info, cross_vm_call, resolve_cross_vm_address, inspect_uth,
      create_stake, delegate_stake, deactivate_stake, withdraw_stake, get_stake_info,
      zk_prove, zk_verify, zk_bn254_ops, create_agent, list_agents, get_agent,
      pause_agent, resume_agent, create_a2a_channel, send_a2a_message, read_a2a_messages,
      list_a2a_channels, close_a2a_channel, register_mcp_service, call_mcp_service,
      list_mcp_services, get_mcp_service, create_swarm, join_swarm, swarm_propose,
      swarm_vote, get_swarm, batch_query, batch_execute, forge_compile, forge_create,
      cast_call, cast_abi_encode, anchor_init, anchor_build, anchor_test, beckn_search,
      beckn_select, beckn_init, beckn_confirm, beckn_rate, credential_request,
      credential_attach, credential_verify, credential_revoke, bank_open_checking,
      bank_onramp, bank_offramp, bank_wire, bank_transfer_funds}
BY DEF Handlers

(* airdrop polls for what it asked the faucet for. *)
LEMMA AirdropOrdered == WellOrdered(airdrop) /\ Early(airdrop)
BY DEF airdrop, Check, Faucet, Landed, Step, WellOrdered, Spans, Leads, Single, Pairs, Later, Follows,
  Naming, Effects, Refusing, KeyFields, Early

(* cast_call checks its input before it runs cast. *)
LEMMA CastCallOrdered == WellOrdered(cast_call) /\ Early(cast_call)
BY DEF cast_call, Check, Cast, Step, WellOrdered, Spans, Leads, Single, Pairs, Later, Follows,
  Naming, Effects, Refusing, KeyFields, Early

(* batch_execute: each entry is its own. *)
LEMMA BatchExecuteOrdered == WellOrdered(batch_execute) /\ Early(batch_execute)
BY DEF batch_execute, Await, Faucet, InEntry, Step, WellOrdered, Spans, Leads, Single, Pairs, Later,
  Follows, Naming, Effects, Refusing, KeyFields, Early

(* create_token registers the metadata after its submission. *)
LEMMA CreateTokenOrdered == WellOrdered(create_token) /\ Early(create_token)
BY DEF create_token, Wallet, Signer, Keypair, Blockhash, Sign, Submit, NoKey, Register, Step,
  WellOrdered, Spans, Leads, Single, Pairs, Later, Follows, Naming, Effects, Refusing, KeyFields, Early

(* mint_tokens checks everything before it creates a token account. *)
LEMMA MintTokensOrdered == WellOrdered(mint_tokens) /\ Early(mint_tokens)
BY DEF mint_tokens, Wallet, Signer, Blockhash, Metadata, Check, EnsureAta, Build, Sign, Submit,
  NoKey, Step, WellOrdered, Spans, Leads, Single, Pairs, Later, Follows, Naming, Effects, Refusing,
  KeyFields, Early

(* transfer_token creates the sender's token account before the recipient *)
(* is decoded.                                                            *)
LEMMA TransferTokenOrdered == WellOrdered(transfer_token)
BY DEF transfer_token, Wallet, Signer, Blockhash, Metadata, Check, EnsureAta, Build, Sign, Submit,
  NoKey, Step, WellOrdered, Spans, Leads, Single, Pairs, Later, Follows, Naming, Effects, Refusing,
  KeyFields, Early

(* batch_transfer takes a distinct blockhash before each submission. *)
LEMMA BatchTransferOrdered == WellOrdered(batch_transfer) /\ Early(batch_transfer)
<1> DEFINE K == {"entry", "payer", "target", "content", "hash"}
           a == Wallet  b == Signer
           c1 == InEntry(Check, 1)  d1 == InEntry(Step("distinct"), 1)
           s1 == InEntry(Sign, 1)   u1 == InEntry(Submit(K), 1)
           c2 == InEntry(Check, 2)  d2 == InEntry(Step("distinct"), 2)
           s2 == InEntry(Sign, 2)   u2 == InEntry(Submit(K), 2)
           c3 == InEntry(Check, 3)  d3 == InEntry(Step("distinct"), 3)
           s3 == InEntry(Sign, 3)   u3 == InEntry(Submit(K), 3)
<1> DEFINE h == batch_transfer
<1>1. /\ Len(h) = 14 /\ DOMAIN h = 1..14
      /\ h[1] = a /\ h[2] = b /\ h[3] = c1 /\ h[4] = d1 /\ h[5] = s1
      /\ h[6] = u1 /\ h[7] = c2 /\ h[8] = d2 /\ h[9] = s2 /\ h[10] = u2
      /\ h[11] = c3 /\ h[12] = d3 /\ h[13] = s3 /\ h[14] = u3
  <2> HIDE DEF a, b, c1, d1, s1, u1, c2, d2, s2, u2, c3, d3, s3, u3
  <2>1. /\ Transfer(1) = <<c1, d1, s1, u1>> /\ Transfer(2) = <<c2, d2, s2, u2>>
        /\ Transfer(3) = <<c3, d3, s3, u3>>
    BY Zenon DEF Transfer, c1, d1, s1, u1, c2, d2, s2, u2, c3, d3, s3, u3, K
  <2>2. h = <<a, b>> \o <<c1, d1, s1, u1>> \o <<c2, d2, s2, u2>> \o <<c3, d3, s3, u3>>
    BY <2>1 DEF batch_transfer, a, b
  <2> QED
    BY <2>2
<1>2. /\ a.op = "wallet" /\ a.key = {} /\ a.entry = 0
      /\ b.op = "signer" /\ b.key = {} /\ b.entry = 0
      /\ c1.op = "check" /\ c1.key = {} /\ c1.entry = 1
      /\ d1.op = "distinct" /\ d1.key = {} /\ d1.entry = 1
      /\ s1.op = "sign" /\ s1.key = {} /\ s1.entry = 1
      /\ u1.op = "submit" /\ u1.key = K /\ u1.entry = 1
      /\ c2.op = "check" /\ c2.key = {} /\ c2.entry = 2
      /\ d2.op = "distinct" /\ d2.key = {} /\ d2.entry = 2
      /\ s2.op = "sign" /\ s2.key = {} /\ s2.entry = 2
      /\ u2.op = "submit" /\ u2.key = K /\ u2.entry = 2
      /\ c3.op = "check" /\ c3.key = {} /\ c3.entry = 3
      /\ d3.op = "distinct" /\ d3.key = {} /\ d3.entry = 3
      /\ s3.op = "sign" /\ s3.key = {} /\ s3.entry = 3
      /\ u3.op = "submit" /\ u3.key = K /\ u3.entry = 3
  BY DEF Wallet, Signer, InEntry, Check, Sign, Submit, Step
<1>3. K \subseteq KeyFields /\ "hash" \in K /\ K # {}
  BY DEF KeyFields
<1> HIDE DEF h, a, b, c1, d1, s1, u1, c2, d2, s2, u2, c3, d3, s3, u3, K
<1>4. Len(h) = 14 /\ \A i \in 1..14 : h[i].entry \in 0..3
  BY <1>1, <1>2
<1>5. Leads(h[1]) /\ \A i \in 1..14 : Single(h[i])
  BY <1>1, <1>2, <1>3 DEF Leads, Single
<1>6. \A i \in 1..14 : h[i].op = "submit" /\ h[i].entry > 0 => "hash" \in h[i].key
  BY <1>1, <1>2, <1>3
<1>7. \A i, j \in 1..14 : Pairs(h[i], h[j])
  BY <1>1, <1>2 DEF Pairs
<1>8. \A i, j \in 1..14 : i < j => Later(h[i], h[j])
  BY <1>1, <1>2, <1>3 DEF Later, Effects, Refusing
<1>9. \A i, j \in 1..14 : j = i + 1 => Follows(h[i], h[j])
  BY <1>1, <1>2, <1>3 DEF Follows
<1>10. WellOrdered(h)
  <2>1. Len(h) \in Nat \ {0} /\ 1..Len(h) = 1..14 /\ Spans(h)
    BY <1>1, <1>4 DEF Spans
  <2> QED
    BY <2>1, <1>5, <1>6, <1>7, <1>8, <1>9, Zenon DEF WellOrdered
<1>11. Early(h)
  BY <1>1, <1>2 DEF Early, Effects, Refusing
<1> QED
  BY <1>10, <1>11 DEF h

(* Every one of the 92 handlers is well ordered, and transfer_token is the *)
(* only one that can refuse a call after it sent something.                *)
LEMMA HandlersOrdered ==
  ASSUME NEW t \in DOMAIN Handlers
  PROVE  WellOrdered(Handlers[t]) /\ (t # "transfer_token" => Early(Handlers[t]))
BY Looked, Reads, Submits, LinearOrdered, AirdropOrdered, BatchExecuteOrdered, CreateTokenOrdered,
  MintTokensOrdered, TransferTokenOrdered, BatchTransferOrdered, CastCallOrdered

-----------------------------------------------------------------------------
(* Calls.  The predicates of this part take a call apart: r is its request, *)
(* p its position, a its answer and l its local variables.                  *)

(* The local variables of a handler. *)
Fields == {"wallet", "hash", "last", "got", "tries", "fresh", "code", "built", "scale", "tx",
           "joined", "done", "sent"}

Steps(r) == Handlers[r.tool]

(* What is known of a request. *)
Asked(r) ==
  /\ r.tool \in DOMAIN Handlers
  /\ r.memo \in Seq(STRING) /\ r.idempotency_key \in Seq(STRING)
  /\ r.tool # "transfer_native" => r.idempotency_key = <<>>

(* TxOf and KeyOf. *)
Tx(r, l) ==
  [tool |-> r.tool, payer |-> l.wallet, target |-> r.target,
   content |-> IF l.code = None THEN r.content ELSE l.code,
   memo |-> r.memo, scale |-> l.scale, hash |-> l.hash, fresh |-> l.fresh]
Key(r, p, l) ==
  <<r.tool, [f \in Steps(r)[p].key |->
               IF f = "entry" THEN Steps(r)[p].entry ELSE Tx(r, l)[f]],
    Suffix(r.memo, r.idempotency_key)>>

(* The transaction x a call of tool t is told of agrees with its own, o. *)
SameMemo(t, x, o) ==
  x.memo = o.memo \/ (t = "transfer_native" /\ (HoldsMark(x.memo) \/ HoldsMark(o.memo)))
Matches(t, k, x, o) ==
  /\ k = {} => x = o
  /\ \A f \in {"tool"} \cup (k \ {"entry"}) : x[f] = o[f]
  /\ SameMemo(t, x, o)
Named(r, l) ==
  \A d \in l.done :
    d.entry \in Nat /\ (d.result = "confirmed" => Matches(r.tool, d.key, d.tx, d.own))
Apart(D) == \A d, e \in D : e.entry = d.entry + 1 /\ d.entry > 0 => d.tx # e.tx

(* What was sent or named comes from a step up to q. *)
SentBy(r, q, l) == l.sent => \E i \in 1..Len(Steps(r)) : i <= q /\ Steps(r)[i].op \in Effects
DoneBy(r, q, l) ==
  \A d \in l.done : \E i \in 1..Len(Steps(r)) :
    i <= q /\ Steps(r)[i].op \in Naming /\ Steps(r)[i].entry = d.entry
PaidBy(r, q, l) == l.tx # None => \E i \in 1..Len(Steps(r)) : i <= q /\ Steps(r)[i].op = "faucet"

(* Before an entry e has its blockhash, last is the one of the entry before *)
(* it, if that was submitted; afterwards it is e's own, and another one.    *)
HashBefore(e, l) == \A d \in l.done : d.entry > 0 /\ d.entry = e - 1 => d.tx.hash = l.last
OwnHash(e, l) == /\ l.hash = l.last
                 /\ \A d \in l.done : d.entry > 0 /\ d.entry = e - 1 => d.tx.hash # l.last

(* What holds of them at a position. *)
Placed(r, p, l) ==
  LET s == Steps(r)[p]
  IN  /\ s.op # "submit" => PaidBy(r, p - 1, l) /\ l.joined = None
      /\ s.op = "submit" /\ l.tx # None => l.tx = Tx(r, l)
      /\ s.op = "landed" => l.tx = Tx(r, l)
      /\ s.entry > 0 => IF s.op \in {"sign", "submit"} THEN OwnHash(s.entry, l)
                                                       ELSE HashBefore(s.entry, l)

(* What holds of the local variables wherever the call is. *)
Kept(r, l) ==
  /\ DOMAIN l = Fields
  /\ l.sent \in BOOLEAN
  /\ Named(r, l)
  /\ Apart(l.done)

(* The invariant of one call. *)
CallOk(r, p, a, l) ==
  /\ p \in Nat
  /\ Kept(r, l)
  /\ a \in Refusals /\ l.sent => r.tool = "transfer_token" /\ a = "invalid"
  /\ a = None =>
       /\ p <= Len(Steps(r))
       /\ SentBy(r, p, l)
       /\ DoneBy(r, p - 1, l)
       /\ p = 0 => l.got = None /\ l.tx = None /\ l.joined = None
       /\ p > 0 => Placed(r, p, l)

(* A call comes to a submission with nothing under way. *)
Fresh(r, p, a, l) ==
  a = None /\ p > 0 /\ Steps(r)[p].op = "submit" => l.tx = None /\ l.joined = None

(* None is no answer of a tool and no result of a submission. *)
LEMMA NoneIsNoAnswer ==
  None \notin Refusals /\ None \notin {"ok", "timeout", "failed", "error", "confirmed"}
BY ToolsAssumption DEF Refusals

(***************************************************************************)
(* What the order of a handler says about where a call has been.           *)
(***************************************************************************)
LEMMA DoneBefore ==
  ASSUME NEW r, r.tool \in DOMAIN Handlers, NEW p \in 1..Len(Steps(r)), NEW l,
         DoneBy(r, p, l), NEW d \in l.done, d.entry > 0
  PROVE  /\ d.entry \in Nat /\ d.entry <= Steps(r)[p].entry
         /\ d.entry = Steps(r)[p].entry => Steps(r)[p].op = "submit"
<1> DEFINE h == Steps(r)
<1>1. WellOrdered(h)
  BY HandlersOrdered DEF Steps
<1> HIDE DEF h
<1>2. PICK i \in 1..Len(h) : i <= p /\ h[i].op \in Naming /\ h[i].entry = d.entry
  BY DEF DoneBy, h
<1>3. Len(h) \in Nat /\ p \in 1..Len(h) /\ Single(h[i]) /\ Single(h[p])
  BY <1>1 DEF WellOrdered, h
<1>4. h[i].op = "submit" /\ h[i].entry \in Nat /\ h[p].entry \in Nat
  BY <1>2, <1>3 DEF Single, Naming
<1>5. CASE i = p
  BY <1>2, <1>4, <1>5 DEF h
<1>6. CASE i < p
  <2>1. Later(h[i], h[p])
    BY <1>1, <1>3, <1>6 DEF WellOrdered
  <2>2. h[i].entry < h[p].entry
    BY <1>2, <1>4, <2>1 DEF Later
  <2> QED
    BY <1>2, <1>4, <2>2 DEF h
<1> QED
  BY <1>2, <1>3, <1>5, <1>6

(* What is done before position p belongs to an earlier entry. *)
LEMMA DoneEarlier ==
  ASSUME NEW r, r.tool \in DOMAIN Handlers, NEW p \in 1..Len(Steps(r)), NEW l,
         DoneBy(r, p - 1, l), NEW d \in l.done, d.entry > 0
  PROVE  d.entry \in Nat /\ d.entry < Steps(r)[p].entry
<1> DEFINE h == Steps(r)
<1>1. WellOrdered(h)
  BY HandlersOrdered DEF Steps
<1> HIDE DEF h
<1>2. PICK i \in 1..Len(h) : i <= p - 1 /\ h[i].op \in Naming /\ h[i].entry = d.entry
  BY DEF DoneBy, h
<1>3. Len(h) \in Nat /\ p \in 1..Len(h) /\ Single(h[i]) /\ Single(h[p]) /\ i < p
  BY <1>1, <1>2 DEF WellOrdered, h
<1>4. h[i].op = "submit" /\ h[i].entry \in Nat /\ h[p].entry \in Nat
  BY <1>2, <1>3 DEF Single, Naming
<1>5. Later(h[i], h[p])
  BY <1>1, <1>3 DEF WellOrdered
<1> QED
  BY <1>2, <1>4, <1>5 DEF Later, h

(***************************************************************************)
(* The handler goes on.                                                    *)
(***************************************************************************)
LEMMA GoesOn ==
  ASSUME NEW r, r.tool \in DOMAIN Handlers, NEW p \in 1..Len(Steps(r)), NEW l,
         Kept(r, l), SentBy(r, p, l), DoneBy(r, p, l), PaidBy(r, p, l), l.joined = None,
         Steps(r)[p].op = "faucet" => l.tx = Tx(r, l),
         Steps(r)[p].entry > 0 =>
           CASE Steps(r)[p].op \in {"distinct", "sign"} -> OwnHash(Steps(r)[p].entry, l)
             [] Steps(r)[p].op = "submit" ->
                  \A d \in l.done : d.entry = Steps(r)[p].entry => d.tx.hash = l.last
             [] OTHER -> HashBefore(Steps(r)[p].entry, l),
         NEW a, a = IF p = Len(Steps(r)) THEN "ok" ELSE None
  PROVE  CallOk(r, p + 1, a, l) /\ Fresh(r, p + 1, a, l)
<1> DEFINE h == Steps(r)
           s == h[p]
           u == h[p + 1]
<1>1. WellOrdered(h) /\ Len(h) \in Nat /\ p \in Nat
  BY HandlersOrdered DEF Steps, WellOrdered
<1>2. CASE p = Len(h)
  <2>1. a = "ok" /\ a # None /\ a \notin Refusals
    BY <1>2, NoneIsNoAnswer DEF Refusals
  <2> QED
    BY <1>1, <2>1 DEF CallOk, Fresh
<1>3. CASE p # Len(h)
  <2>1. a = None /\ p + 1 \in 1..Len(h) /\ a \notin Refusals /\ p + 1 - 1 = p
    BY <1>1, <1>3, NoneIsNoAnswer
  <2> HIDE DEF h
  <2>2. Later(s, u) /\ Follows(s, u) /\ Single(s) /\ Single(u)
    BY <1>1, <2>1 DEF WellOrdered, h
  <2>3. SentBy(r, p + 1, l)
    BY <1>1 DEF SentBy
  <2>4. u.op = "submit" => l.tx = None
    BY <1>1, <2>1 DEF PaidBy, WellOrdered, Pairs, h
  <2>5. u.op = "landed" => l.tx = Tx(r, l)
    BY <2>2 DEF Follows, h
  <2>6. s.entry \in Nat /\ u.entry \in Nat /\ s.entry <= u.entry
    BY <2>2 DEF Single, Later
  <2>7. ASSUME u.entry > 0, u.op \in {"sign", "submit"} PROVE OwnHash(u.entry, l)
    BY <2>2, <2>7 DEF Follows, h
  <2>8. ASSUME u.entry > 0, u.op \notin {"sign", "submit"} PROVE HashBefore(u.entry, l)
    <3>1. CASE s.entry = u.entry
      BY <2>2, <2>8, <3>1 DEF Follows, h
    <3>2. CASE s.entry # u.entry
      <4> SUFFICES ASSUME NEW d \in l.done, d.entry > 0, d.entry = u.entry - 1
                   PROVE  d.tx.hash = l.last
        BY DEF HashBefore
      <4>1. /\ d.entry \in Nat /\ d.entry <= s.entry
            /\ d.entry = s.entry => s.op = "submit"
        BY DoneBefore DEF h
      <4>2. d.entry = s.entry /\ s.entry > 0 /\ s.op = "submit"
        BY <2>6, <3>2, <4>1
      <4> QED
        BY <4>2 DEF h
    <3> QED
      BY <3>1, <3>2
  <2>9. Placed(r, p + 1, l)
    BY <2>1, <2>4, <2>5, <2>7, <2>8 DEF Placed, h
  <2> QED
    BY <1>1, <2>1, <2>3, <2>4, <2>9 DEF CallOk, Fresh, h
<1> QED
  BY <1>2, <1>3

(***************************************************************************)
(* The handler answers a from position p, or its entry of a batch ends.    *)
(***************************************************************************)
LEMMA Least == ASSUME NEW S \in SUBSET Nat, S # {} PROVE Min(S) \in S /\ \A x \in S : Min(S) <= x
<1>1. PICK m \in S : \A x \in S : ~(<<x, m>> \in OpToRel(<, Nat))
  BY WFMin, NatLessThanWellFounded, Zenon
<1>2. \A a, b \in Nat : a < b => <<a, b>> \in OpToRel(<, Nat)
  BY DEF OpToRel
<1>3. \A x \in S : ~(x < m)
  BY <1>1, <1>2, Zenon
<1>4. \A x \in S : m <= x
  BY <1>3
<1> QED
  BY <1>4 DEF Min

(* A call that is answered has nothing left to come. *)
LEMMA Ends ==
  ASSUME NEW r, NEW p \in Nat, NEW l, Kept(r, l), NEW a, a # None,
         a \in Refusals /\ l.sent => r.tool = "transfer_token" /\ a = "invalid"
  PROVE  CallOk(r, p, a, l) /\ Fresh(r, p, a, l)
BY DEF CallOk, Fresh

(* An entry ends and the handler goes on with the next one: the entry in *)
(* between was not submitted, so every hash is new to it.                *)
LEMMA Jumps ==
  ASSUME NEW r, r.tool \in DOMAIN Handlers, NEW p \in 1..Len(Steps(r)), NEW l,
         Kept(r, l), SentBy(r, p, l), DoneBy(r, p - 1, l), PaidBy(r, p, l), l.joined = None,
         Steps(r)[p].entry # 0,
         NEW S, S = {j \in p + 1 .. Len(Steps(r)) : Steps(r)[j].entry # Steps(r)[p].entry},
         S # {}, NEW j, j = Min(S)
  PROVE  CallOk(r, j, None, l) /\ Fresh(r, j, None, l)
<1> DEFINE h == Steps(r)
           s == h[p]
           u == h[j]
<1>1. WellOrdered(h) /\ Len(h) \in Nat /\ p \in Nat
  BY HandlersOrdered DEF Steps, WellOrdered
<1>2. j \in S /\ \A x \in S : j <= x
  <2>1. S \in SUBSET Nat
    BY <1>1
  <2> QED
    BY <2>1, Least
<1> HIDE DEF h
<1>3. /\ j \in 1..Len(h) /\ j - 1 \in 1..Len(h) /\ p < j /\ j \in Nat /\ p <= j - 1
      /\ s.entry # u.entry
  BY <1>1, <1>2 DEF h
<1>4. h[j - 1].entry = s.entry
  <2>1. CASE j - 1 = p
    BY <2>1
  <2>2. CASE j - 1 # p
    BY <1>1, <1>2, <1>3, <2>2 DEF h
  <2> QED
    BY <2>1, <2>2
<1>5. /\ Later(s, u) /\ Follows(h[j - 1], u) /\ Single(s) /\ Single(u)
  <2>1. j = j - 1 + 1
    BY <1>3
  <2> QED
    BY <1>1, <1>3, <2>1 DEF WellOrdered, h
<1>6. s.entry \in Nat /\ u.entry \in Nat /\ 0 < s.entry /\ s.entry < u.entry
  BY <1>3, <1>5 DEF Single, Later, h
<1>7. u.op \notin {"sign", "submit", "landed"}
  BY <1>4, <1>5, <1>6 DEF Follows, Single
<1>8. HashBefore(u.entry, l)
  <2> SUFFICES ASSUME NEW d \in l.done, d.entry > 0, d.entry = u.entry - 1 PROVE FALSE
    BY DEF HashBefore
  <2>1. d.entry \in Nat /\ d.entry < s.entry
    BY DoneEarlier DEF h
  <2> QED
    BY <1>6, <2>1
<1>9. SentBy(r, j, l) /\ PaidBy(r, j - 1, l) /\ DoneBy(r, j - 1, l)
  <2>1. \A i \in 1..Len(h) : (i <= p => i <= j /\ i <= j - 1) /\ (i <= p - 1 => i <= j - 1)
    BY <1>1, <1>3
  <2>2. SentBy(r, j, l)
    BY <2>1 DEF SentBy, h
  <2>3. PaidBy(r, j - 1, l)
    BY <2>1 DEF PaidBy, h
  <2>4. DoneBy(r, j - 1, l)
    BY <2>1 DEF DoneBy, h
  <2> QED
    BY <2>2, <2>3, <2>4
<1>10. Placed(r, j, l)
  BY <1>6, <1>7, <1>8, <1>9 DEF Placed, h
<1> QED
  BY <1>3, <1>7, <1>9, <1>10, NoneIsNoAnswer DEF CallOk, Fresh, h

(***************************************************************************)
(* A refusal comes before everything a handler sends, but for the builder  *)
(* that decodes transfer_token's recipient.                                *)
(***************************************************************************)
LEMMA RefusesFirst ==
  ASSUME NEW r, r.tool \in DOMAIN Handlers, NEW p \in 1..Len(Steps(r)), NEW l,
         l.sent, SentBy(r, p, l), Steps(r)[p].op \in Refusing, Steps(r)[p].entry = 0
  PROVE  r.tool = "transfer_token" /\ Steps(r)[p].op = "build"
<1> DEFINE h == Steps(r)
<1>1. WellOrdered(h) /\ Len(h) \in Nat /\ (r.tool # "transfer_token" => Early(h))
  BY HandlersOrdered DEF Steps, WellOrdered
<1> HIDE DEF h
<1>2. PICK i \in 1..Len(h) : i <= p /\ h[i].op \in Effects
  BY DEF SentBy, h
<1>3. i # p
  BY <1>2 DEF Effects, Refusing, h
<1>4. Later(h[i], h[p])
  BY <1>1, <1>2, <1>3 DEF WellOrdered, h
<1>5. h[p].op = "build"
  BY <1>2, <1>4 DEF Later, h
<1>6. ~Early(h)
  BY <1>1, <1>2, <1>3 DEF Early, h
<1> QED
  BY <1>1, <1>5, <1>6 DEF h

(* What a position says that is left without a submission. *)
LEMMA Leaving ==
  ASSUME NEW r, r.tool \in DOMAIN Handlers, NEW p, NEW l, CallOk(r, p, None, l), p > 0,
         Steps(r)[p].op # "submit"
  PROVE  /\ p \in 1..Len(Steps(r)) /\ Kept(r, l) /\ SentBy(r, p, l) /\ DoneBy(r, p - 1, l)
         /\ DoneBy(r, p, l) /\ PaidBy(r, p, l) /\ l.joined = None
         /\ Steps(r)[p].entry > 0 => IF Steps(r)[p].op = "sign" THEN OwnHash(Steps(r)[p].entry, l)
                                     ELSE HashBefore(Steps(r)[p].entry, l)
         /\ Steps(r)[p].op = "landed" => l.tx = Tx(r, l)
<1>1. p \in Nat /\ p <= Len(Steps(r)) /\ Len(Steps(r)) \in Nat
  BY HandlersOrdered DEF CallOk, Steps, WellOrdered
<1>2. p \in 1..Len(Steps(r)) /\ p - 1 <= p
  BY <1>1
<1>3. Kept(r, l) /\ SentBy(r, p, l) /\ DoneBy(r, p - 1, l) /\ Placed(r, p, l)
  BY DEF CallOk
<1>4. DoneBy(r, p, l)
  BY <1>1, <1>3 DEF DoneBy
<1>5. PaidBy(r, p - 1, l) /\ l.joined = None
  BY <1>3 DEF Placed
<1>6. PaidBy(r, p, l)
  BY <1>1, <1>5 DEF PaidBy
<1> QED
  BY <1>2, <1>3, <1>4, <1>5, <1>6 DEF Placed

-----------------------------------------------------------------------------
(* Submissions in flight: fl is the in-flight map, land what is on chain.   *)

(* A call at its submission, and one that is its owner in the map. *)
Busy(r, p, a) == a = None /\ p > 0 /\ Steps(r)[p].op = "submit"
Owns(r, p, a, l) == Busy(r, p, a) /\ l.tx # None /\ Steps(r)[p].key # {}

(* The suffix of a key is spelled from the memo of its transaction. *)
Spelled(k, x) ==
  /\ x.memo \in Seq(STRING)
  /\ \E i \in Seq(STRING) :
       k[3] = Suffix(x.memo, i) /\ (k[1] # "transfer_native" => i = <<>>)

(* An entry of the map agrees with its key; when confirmed it is on chain. *)
FlightOk(fl, land) ==
  \A k \in DOMAIN fl :
    /\ DOMAIN fl[k] = {"tx", "result"}
    /\ fl[k].tx.tool = k[1]
    /\ \A f \in DOMAIN k[2] \ {"entry"} : fl[k].tx[f] = k[2][f]
    /\ Spelled(k, fl[k].tx)
    /\ fl[k].result = "confirmed" => fl[k].tx \in land

(* What a call names as confirmed is on chain. *)
OnChain(l, land) == \A d \in l.done : d.result = "confirmed" => d.tx \in land

(***************************************************************************)
(* A call that waits for its own submission has it in the map, without a   *)
(* result; one that joined another's waits under the same key.             *)
(***************************************************************************)
Waits(r, p, a, l, fl) ==
  /\ Busy(r, p, a) /\ l.joined # None =>
       l.joined = Key(r, p, l) /\ l.joined \in DOMAIN fl /\ Steps(r)[p].key # {}
  /\ Owns(r, p, a, l) => /\ Key(r, p, l) \in DOMAIN fl
                         /\ fl[Key(r, p, l)].tx = l.tx
                         /\ fl[Key(r, p, l)].result = None

(***************************************************************************)
(* No two calls own a submission under the same key.                       *)
(***************************************************************************)
Alone(R, P, A, L) ==
  \A c, d \in Calls :
    c # d /\ Owns(R[c], P[c], A[c], L[c]) /\ Owns(R[d], P[d], A[d], L[d])
      => Key(R[c], P[c], L[c]) # Key(R[d], P[d], L[d])

(***************************************************************************)
(* The inductive invariant.                                                *)
(***************************************************************************)
ToolInv ==
  /\ DOMAIN pc = Calls /\ DOMAIN ans = Calls /\ DOMAIN loc = Calls
  /\ \A c \in Calls : Asked(req[c])
  /\ \A c \in Calls : CallOk(req[c], pc[c], ans[c], loc[c])
  /\ \A c \in Calls : OnChain(loc[c], landed)
  /\ \A c \in Calls : Waits(req[c], pc[c], ans[c], loc[c], inFlight)
  /\ FlightOk(inFlight, landed)
  /\ Alone(req, pc, ans, loc)

(* A step that changes nothing of the other calls. *)
OnlyLoc(c) == DOMAIN loc' = Calls /\ \A e \in Calls \ {c} : loc'[e] = loc[e]
OnlyCall(c) ==
  /\ DOMAIN pc' = Calls /\ DOMAIN ans' = Calls /\ OnlyLoc(c)
  /\ \A e \in Calls \ {c} : pc'[e] = pc[e] /\ ans'[e] = ans[e]

(***************************************************************************)
(* What c does to the submissions in flight is right for the other calls;  *)
(* doing nothing to them is.                                               *)
(***************************************************************************)
FlightKept(c) ==
  /\ FlightOk(inFlight', landed')
  /\ \A e \in Calls \ {c} : Waits(req[e], pc[e], ans[e], loc[e], inFlight')

(* What c does is right for the others when it leaves the map alone. *)
LEMMA FlightSame ==
  ASSUME ToolInv, NEW c \in Calls, inFlight' = inFlight, landed \subseteq landed'
  PROVE  FlightKept(c)
BY DEF ToolInv, FlightOk, FlightKept

(***************************************************************************)
(* A call moves on from where it was, to a place where it owns nothing.    *)
(***************************************************************************)
LEMMA Moves ==
  ASSUME ToolInv, NEW c \in Calls, req' = req, FlightKept(c),
         landed \subseteq landed', OnlyCall(c),
         CallOk(req[c], pc'[c], ans'[c], loc'[c]), Fresh(req[c], pc'[c], ans'[c], loc'[c]),
         OnChain(loc'[c], landed')
  PROVE  ToolInv'
<1>1. \A e \in Calls \ {c} : pc'[e] = pc[e] /\ ans'[e] = ans[e] /\ loc'[e] = loc[e]
  BY DEF OnlyCall, OnlyLoc
<1>2. \A e \in Calls : CallOk(req'[e], pc'[e], ans'[e], loc'[e])
  BY <1>1 DEF ToolInv
<1>3. \A e \in Calls : OnChain(loc'[e], landed')
  BY <1>1 DEF ToolInv, OnChain
<1>4. ~Owns(req[c], pc'[c], ans'[c], loc'[c])
  BY DEF Owns, Busy, Fresh
<1>5. \A e \in Calls : Waits(req'[e], pc'[e], ans'[e], loc'[e], inFlight')
  <2>1. Waits(req[c], pc'[c], ans'[c], loc'[c], inFlight')
    BY <1>4 DEF Waits, Busy, Fresh
  <2> QED
    <3>1. \A e \in Calls \ {c} : Waits(req'[e], pc'[e], ans'[e], loc'[e], inFlight')
      BY <1>1 DEF FlightKept
    <3> QED
      BY <2>1, <3>1
<1>6. FlightOk(inFlight', landed')
  BY DEF FlightKept
<1>7. Alone(req', pc', ans', loc')
  <2> SUFFICES ASSUME NEW e \in Calls, NEW d \in Calls, e # d,
                      Owns(req[e], pc'[e], ans'[e], loc'[e]),
                      Owns(req[d], pc'[d], ans'[d], loc'[d])
               PROVE  Key(req[e], pc'[e], loc'[e]) # Key(req[d], pc'[d], loc'[d])
    BY DEF Alone
  <2>1. e # c /\ d # c
    BY <1>4
  <2> QED
    BY <1>1, <2>1 DEF ToolInv, Alone
<1> QED
  BY <1>2, <1>3, <1>5, <1>6, <1>7 DEF ToolInv, OnlyCall, OnlyLoc

(***************************************************************************)
(* Continue and Stop, with local variables that may have changed.          *)
(***************************************************************************)
LEMMA Continues ==
  ASSUME ToolInv, NEW c \in Calls, ans[c] = None, pc[c] > 0, Continue(c), OnlyLoc(c),
         req' = req, FlightKept(c), landed \subseteq landed',
         pc[c] \in 1..Len(Steps(req[c])),
         Kept(req[c], loc'[c]), SentBy(req[c], pc[c], loc'[c]), DoneBy(req[c], pc[c], loc'[c]),
         PaidBy(req[c], pc[c], loc'[c]), loc'[c].joined = None, OnChain(loc'[c], landed'),
         Steps(req[c])[pc[c]].op = "faucet" => loc'[c].tx = Tx(req[c], loc'[c]),
         Steps(req[c])[pc[c]].entry > 0 =>
           CASE Steps(req[c])[pc[c]].op \in {"distinct", "sign"} ->
                  OwnHash(Steps(req[c])[pc[c]].entry, loc'[c])
             [] Steps(req[c])[pc[c]].op = "submit" ->
                  \A d \in loc'[c].done :
                     d.entry = Steps(req[c])[pc[c]].entry => d.tx.hash = loc'[c].last
             [] OTHER -> HashBefore(Steps(req[c])[pc[c]].entry, loc'[c])
  PROVE  ToolInv'
<1>1. /\ DOMAIN pc' = Calls /\ DOMAIN ans' = Calls /\ pc'[c] = pc[c] + 1
      /\ ans'[c] = IF pc[c] = Len(Steps(req[c])) THEN "ok" ELSE None
      /\ \A e \in Calls \ {c} : pc'[e] = pc[e] /\ ans'[e] = ans[e]
  BY DEF ToolInv, Continue, Steps
<1>2. req[c].tool \in DOMAIN Handlers
  BY DEF ToolInv, Asked
<1>3. CallOk(req[c], pc'[c], ans'[c], loc'[c]) /\ Fresh(req[c], pc'[c], ans'[c], loc'[c])
  BY <1>1, <1>2, GoesOn
<1> QED
  BY <1>1, <1>3, Moves DEF OnlyCall

(* Stop, with local variables that may have changed. *)
LEMMA Stops ==
  ASSUME ToolInv, NEW c \in Calls, NEW a, ans[c] = None, pc[c] > 0, Stop(c, a), OnlyLoc(c),
         a # None, a \in Refusals => Steps(req[c])[pc[c]].op \in Refusing,
         Steps(req[c])[pc[c]].op = "build" => a = "invalid",
         req' = req, FlightKept(c), landed \subseteq landed',
         pc[c] \in 1..Len(Steps(req[c])),
         Kept(req[c], loc'[c]), SentBy(req[c], pc[c], loc'[c]),
         DoneBy(req[c], pc[c] - 1, loc'[c]),
         PaidBy(req[c], pc[c], loc'[c]), loc'[c].joined = None, OnChain(loc'[c], landed')
  PROVE  ToolInv'
<1> DEFINE r == req[c]  p == pc[c]  l == loc'[c]
           S == {j \in p + 1 .. Len(Steps(r)) : Steps(r)[j].entry # Steps(r)[p].entry}
<1>0. /\ r.tool \in DOMAIN Handlers /\ p \in Nat /\ l.sent \in BOOLEAN
      /\ DOMAIN pc = Calls /\ DOMAIN ans = Calls
  BY DEF ToolInv, Asked, CallOk, Kept
<1>1. \/ /\ Steps(r)[p].entry = 0
         /\ ans' = [ans EXCEPT ![c] = a] /\ pc' = pc
      \/ /\ Steps(r)[p].entry # 0 /\ S # {}
         /\ pc' = [pc EXCEPT ![c] = Min(S)] /\ ans' = ans
      \/ ans' = [ans EXCEPT ![c] = "ok"] /\ pc' = pc
  BY DEF Stop, Here, Steps
<1>2. /\ DOMAIN pc' = Calls /\ DOMAIN ans' = Calls
      /\ \A e \in Calls \ {c} : pc'[e] = pc[e] /\ ans'[e] = ans[e]
  BY <1>0, <1>1
<1>3. CallOk(r, pc'[c], ans'[c], l) /\ Fresh(r, pc'[c], ans'[c], l)
  <2>1. CASE Steps(r)[p].entry = 0 /\ ans'[c] = a /\ pc'[c] = p
    <3>1. a \in Refusals /\ l.sent => r.tool = "transfer_token" /\ a = "invalid"
      BY <1>0, <2>1, RefusesFirst
    <3> QED
      BY <1>0, <2>1, <3>1, Ends
  <2>2. CASE Steps(r)[p].entry # 0 /\ S # {} /\ pc'[c] = Min(S) /\ ans'[c] = None
    BY <1>0, <2>2, Jumps
  <2>3. CASE ans'[c] = "ok" /\ pc'[c] = p
    <3>1. "ok" # None /\ "ok" \notin Refusals
      BY NoneIsNoAnswer DEF Refusals
    <3> QED
      BY <1>0, <2>3, <3>1, Ends
  <2> QED
    BY <1>0, <1>1, <2>1, <2>2, <2>3
<1> QED
  BY <1>2, <1>3, Moves DEF OnlyCall

(***************************************************************************)
(* Local variables that no answer depends on.                              *)
(***************************************************************************)
LEMMA Touched ==
  ASSUME NEW r, NEW l, NEW m, Kept(r, l), DOMAIN m = Fields,
         m.done = l.done, m.sent = l.sent, m.tx = l.tx
  PROVE  /\ Kept(r, m)
         /\ \A q : SentBy(r, q, l) => SentBy(r, q, m)
         /\ \A q : DoneBy(r, q, l) => DoneBy(r, q, m)
         /\ \A q : PaidBy(r, q, l) => PaidBy(r, q, m)
         /\ \A land : OnChain(l, land) => OnChain(m, land)
BY DEF Kept, Named, SentBy, DoneBy, PaidBy, OnChain

(* What the invariant says about a call that runs. *)
LEMMA RunningCall ==
  ASSUME ToolInv, NEW c \in Calls, ans[c] = None
  PROVE  /\ Asked(req[c]) /\ req[c].tool \in DOMAIN Handlers
         /\ CallOk(req[c], pc[c], None, loc[c]) /\ pc[c] \in Nat /\ OnChain(loc[c], landed) /\ DOMAIN loc[c] = Fields
         /\ DOMAIN loc = Calls /\ DOMAIN pc = Calls /\ DOMAIN ans = Calls
BY DEF ToolInv, Asked, CallOk, Kept

(***************************************************************************)
(* Steps that leave the local variables alone.                             *)
(***************************************************************************)
LEMMA ContinuesSame ==
  ASSUME ToolInv, NEW c \in Calls, ans[c] = None, pc[c] > 0, Continue(c), loc' = loc,
         req' = req, inFlight' = inFlight, landed \subseteq landed',
         Steps(req[c])[pc[c]].op \notin {"submit", "faucet", "distinct"}
  PROVE  ToolInv'
<1> USE RunningCall
<1>1. OnlyLoc(c) /\ loc'[c] = loc[c] /\ OnChain(loc'[c], landed')
  BY DEF OnlyLoc, OnChain
<1> QED
  BY <1>1, Leaving, Continues, FlightSame

(* Stop, with the local variables as they were. *)
LEMMA StopsSame ==
  ASSUME ToolInv, NEW c \in Calls, NEW a, ans[c] = None, pc[c] > 0, Stop(c, a), loc' = loc,
         a # None, a \in Refusals => Steps(req[c])[pc[c]].op \in Refusing,
         Steps(req[c])[pc[c]].op = "build" => a = "invalid",
         req' = req, inFlight' = inFlight, landed \subseteq landed',
         Steps(req[c])[pc[c]].op # "submit"
  PROVE  ToolInv'
<1> USE RunningCall
<1>1. OnlyLoc(c) /\ loc'[c] = loc[c] /\ OnChain(loc'[c], landed')
  BY DEF OnlyLoc, OnChain
<1> QED
  BY <1>1, Leaving, Stops, FlightSame

(***************************************************************************)
(* A call that does not move, at a step that is no submission.             *)
(***************************************************************************)
LEMMA Stays ==
  ASSUME ToolInv, NEW c \in Calls, ans[c] = None, pc[c] > 0, pc' = pc, ans' = ans, OnlyLoc(c),
         req' = req, inFlight' = inFlight, landed \subseteq landed',
         Steps(req[c])[pc[c]].op # "submit", DOMAIN loc'[c] = Fields,
         \A f \in Fields \ {"got", "tries", "built"} : loc'[c][f] = loc[c][f]
  PROVE  ToolInv'
<1> DEFINE r == req[c]  p == pc[c]  l == loc[c]  m == loc'[c]
<1>1. /\ r.tool \in DOMAIN Handlers /\ CallOk(r, p, None, l) /\ OnChain(l, landed)
      /\ OnlyCall(c) /\ Kept(r, l)
  BY RunningCall DEF OnlyCall, CallOk
<1>2. /\ m.wallet = l.wallet /\ m.code = l.code /\ m.fresh = l.fresh /\ m.done = l.done
      /\ m.sent = l.sent /\ m.tx = l.tx /\ m.hash = l.hash /\ m.last = l.last
      /\ m.joined = l.joined /\ m.scale = l.scale
  BY DEF Fields
<1>3. /\ Kept(r, m) /\ \A q : SentBy(r, q, l) => SentBy(r, q, m)
      /\ \A q : DoneBy(r, q, l) => DoneBy(r, q, m)
      /\ \A q : PaidBy(r, q, l) => PaidBy(r, q, m)
      /\ OnChain(m, landed)
  <2> HIDE DEF r, l, m
  <2> QED
    BY <1>1, <1>2, Touched DEF m
<1>4. Placed(r, p, m)
  <2>1. Tx(r, m) = Tx(r, l)
    BY <1>2 DEF Tx
  <2> QED
    BY <1>1, <1>2, <1>3, <2>1 DEF CallOk, Placed, HashBefore, OwnHash
<1>5. CallOk(r, p, None, m) /\ Fresh(r, p, None, m)
  BY <1>1, <1>2, <1>3, <1>4, NoneIsNoAnswer DEF CallOk, Fresh
<1> QED
  <2>1. OnChain(m, landed')
    BY <1>3 DEF OnChain
  <2> QED
    BY <1>1, <1>3, <1>5, <2>1, Moves, FlightSame


-----------------------------------------------------------------------------
(* One lemma per action.                                                    *)

LEMMA GateStep == ASSUME ToolInv, NEW c \in Calls, Gate(c) PROVE ToolInv'
<1> DEFINE r == req[c]  l == loc[c]
<1>1. /\ pc[c] = 0 /\ ans[c] = None /\ req' = req /\ loc' = loc /\ inFlight' = inFlight
      /\ landed' = landed
      /\ \/ pc' = [pc EXCEPT ![c] = 1] /\ ans' = ans
         \/ /\ pc' = pc
            /\ \/ ans' = [ans EXCEPT ![c] = "limited"]
               \/ ans' = [ans EXCEPT ![c] = "denied"]
  BY DEF Gate
<1>2. /\ r.tool \in DOMAIN Handlers /\ CallOk(r, 0, None, l) /\ OnChain(l, landed)
      /\ DOMAIN loc = Calls /\ DOMAIN pc = Calls /\ DOMAIN ans = Calls
  BY <1>1, RunningCall
<1>3. OnlyCall(c) /\ loc'[c] = l
  BY <1>1, <1>2 DEF OnlyCall, OnlyLoc
<1>4. WellOrdered(Steps(r)) /\ Len(Steps(r)) \in Nat \ {0}
  BY <1>2, HandlersOrdered DEF Steps, WellOrdered
<1>5. Kept(r, l) /\ l.tx = None /\ l.joined = None /\ SentBy(r, 0, l) /\ DoneBy(r, 0 - 1, l)
  BY <1>2 DEF CallOk
<1>6. l.done = {} /\ ~l.sent
  <2>1. l.sent \in BOOLEAN /\ ~l.sent
    BY <1>4, <1>5 DEF SentBy, Kept
  <2>2. l.done = {}
    BY <1>4, <1>5 DEF DoneBy
  <2> QED
    BY <2>1, <2>2
<1>7. CASE pc' = [pc EXCEPT ![c] = 1] /\ ans' = ans
  <2>1. pc'[c] = 1 /\ ans'[c] = None
    BY <1>1, <1>2, <1>7
  <2>2. Leads(Steps(r)[1])
    BY <1>4 DEF WellOrdered
  <2>3. Placed(r, 1, l)
    BY <1>5, <1>6, <2>2 DEF Placed, PaidBy, Leads, HashBefore
  <2>4. CallOk(r, 1, None, l) /\ Fresh(r, 1, None, l)
    BY <1>4, <1>5, <1>6, <2>3, NoneIsNoAnswer DEF CallOk, Fresh, SentBy, DoneBy
  <2> QED
    BY <1>1, <1>2, <1>3, <2>1, <2>4, Moves, FlightSame
<1>8. CASE /\ pc' = pc
           /\ ans' = [ans EXCEPT ![c] = "limited"] \/ ans' = [ans EXCEPT ![c] = "denied"]
  <2>1. pc'[c] = 0 /\ ans'[c] \in {"limited", "denied"} /\ ans'[c] # None
    BY <1>1, <1>2, <1>8, NoneIsNoAnswer DEF Refusals
  <2>2. CallOk(r, 0, ans'[c], l) /\ Fresh(r, 0, ans'[c], l)
    BY <1>5, <1>6, <2>1, Ends
  <2> QED
    BY <1>1, <1>2, <1>3, <2>1, <2>2, Moves, FlightSame
<1> QED
  BY <1>1, <1>7, <1>8

(* Steps that use no local variable and send nothing. *)
LEMMA PlainStep ==
  ASSUME ToolInv, NEW c \in Calls,
         \/ Answer(c) \/ Validate(c) \/ GetSigner(c) \/ External(c) \/ RegisterMetadata(c)
         \/ WriteSource(c) \/ ForgeEnds(c) \/ ChangeActive(c)
  PROVE  ToolInv'
<1> DEFINE s == Steps(req[c])[pc[c]]
<1>1. /\ ans[c] = None /\ pc[c] > 0 /\ req' = req /\ loc' = loc /\ inFlight' = inFlight
      /\ landed' = landed /\ s.op \notin {"submit", "faucet", "distinct"}
      /\ \/ Continue(c)
         \/ s.op # "build" /\ Stop(c, "error")
         \/ s.op = "build" /\ Stop(c, "invalid")
         \/ s.op = "unavailable" /\ Stop(c, "unavailable")
         \/ s.op = "check" /\ Stop(c, "rejected")
         \/ s.op = "find" /\ Stop(c, "not_found")
  BY DEF Answer, Validate, GetSigner, External, RegisterMetadata, WriteSource, ForgeEnds,
         ChangeActive, At, Here, Steps
<1>2. /\ "error" # None /\ "unavailable" # None /\ "rejected" # None /\ "not_found" # None
      /\ "invalid" # None /\ "error" \notin Refusals
  BY NoneIsNoAnswer DEF Refusals
<1>3. CASE Continue(c)
  BY <1>1, <1>3, ContinuesSame
<1>4. CASE s.op # "build" /\ Stop(c, "error")
  BY <1>1, <1>2, <1>4, StopsSame
<1>8. CASE s.op = "build" /\ Stop(c, "invalid")
  BY <1>1, <1>2, <1>8, StopsSame DEF Refusing
<1>5. CASE s.op = "unavailable" /\ Stop(c, "unavailable")
  BY <1>1, <1>2, <1>5, StopsSame DEF Refusing
<1>6. CASE s.op = "check" /\ Stop(c, "rejected")
  BY <1>1, <1>2, <1>6, StopsSame DEF Refusing
<1>7. CASE s.op = "find" /\ Stop(c, "not_found")
  BY <1>1, <1>2, <1>7, StopsSame DEF Refusing
<1> QED
  BY <1>1, <1>3, <1>4, <1>5, <1>6, <1>7, <1>8

(* What goes into a transaction is bound; nothing that was done changes. *)
LEMMA BindingStep ==
  ASSUME ToolInv, NEW c \in Calls, PickWallet(c) \/ NewKeypair(c) \/ ReadArtifact(c)
  PROVE  ToolInv'
<1> DEFINE r == req[c]  p == pc[c]  l == loc[c]  m == loc'[c]  s == Steps(r)[p]
<1>1. /\ ans[c] = None /\ p > 0 /\ req' = req /\ inFlight' = inFlight
      /\ landed' = landed
      /\ s.op \in {"wallet", "active", "maybe", "keypair", "artifact"}
      /\ \/ Continue(c) /\ \E f \in {"wallet", "fresh", "code"} : \E v : Set(c, f, v)
         \/ Stop(c, "error") /\ loc' = loc
         \/ Stop(c, "no_wallet") /\ loc' = loc /\ s.op # "maybe"
                                 /\ s.op \in {"wallet", "active", "maybe"}
  BY DEF PickWallet, NewKeypair, ReadArtifact, At, Here, Steps
<1>2. /\ r.tool \in DOMAIN Handlers /\ CallOk(r, p, None, l) /\ OnChain(l, landed)
      /\ DOMAIN loc = Calls /\ DOMAIN l = Fields /\ s.op # "submit"
  BY <1>1, RunningCall
<1>3. /\ "error" # None /\ "no_wallet" # None /\ "error" \notin Refusals
  BY NoneIsNoAnswer DEF Refusals
<1>4. ASSUME Continue(c), NEW f \in {"wallet", "fresh", "code"}, NEW v, Set(c, f, v)
      PROVE  ToolInv'
  <2>1. /\ OnlyLoc(c) /\ DOMAIN m = Fields /\ m.done = l.done /\ m.sent = l.sent /\ m.tx = l.tx
        /\ m.joined = l.joined /\ m.last = l.last
    BY <1>2, <1>4 DEF Set, OnlyLoc, Fields
  <2> HIDE DEF r, p, l, m, s
  <2>2. /\ p \in 1..Len(Steps(r)) /\ Kept(r, l) /\ SentBy(r, p, l) /\ DoneBy(r, p, l)
        /\ PaidBy(r, p, l) /\ l.joined = None
        /\ s.entry > 0 => HashBefore(s.entry, l)
    BY <1>1, <1>2, Leaving DEF s
  <2>4. /\ Kept(r, m) /\ SentBy(r, p, m) /\ DoneBy(r, p, m) /\ PaidBy(r, p, m)
        /\ OnChain(m, landed') /\ m.joined = None
    BY <1>1, <1>2, <2>1, <2>2, Touched
  <2>5. s.entry > 0 => HashBefore(s.entry, m)
    BY <2>1, <2>2 DEF HashBefore
  <2>6. s.op \notin {"submit", "faucet", "distinct", "sign"}
    BY <1>1
  <2> QED
    BY <1>1, <1>2, <1>4, <2>1, <2>2, <2>4, <2>5, <2>6, Continues, FlightSame DEF r, p, l, m, s
<1>5. CASE Stop(c, "error") /\ loc' = loc
  BY <1>1, <1>2, <1>3, <1>5, StopsSame
<1>6. CASE Stop(c, "no_wallet") /\ loc' = loc /\ s.op # "maybe"
                                /\ s.op \in {"wallet", "active", "maybe"}
  <2>1. s.op \in Refusing
    BY <1>6 DEF Refusing
  <2> QED
    BY <1>1, <1>2, <1>3, <1>6, <2>1, StopsSame
<1> QED
  BY <1>1, <1>4, <1>5, <1>6


(* Steps that write a local variable no answer depends on, and go on. *)
LEMMA TouchStep ==
  ASSUME ToolInv, NEW c \in Calls, CacheHit(c) \/ ReadMetadata(c)
  PROVE  ToolInv'
<1> DEFINE r == req[c]  p == pc[c]  l == loc[c]  m == loc'[c]  s == Steps(r)[p]
<1>1. /\ ans[c] = None /\ p > 0 /\ req' = req /\ inFlight' = inFlight
      /\ landed' = landed /\ s.op \in {"blockhash", "metadata"} /\ Continue(c)
      /\ loc' = loc \/ \E f \in {"hash", "scale"} : \E v : Set(c, f, v)
  BY DEF CacheHit, ReadMetadata, At, Here, Steps
<1>2. /\ r.tool \in DOMAIN Handlers /\ CallOk(r, p, None, l) /\ OnChain(l, landed)
      /\ DOMAIN loc = Calls /\ DOMAIN l = Fields /\ s.op # "submit"
  BY <1>1, RunningCall
<1>3. /\ OnlyLoc(c) /\ DOMAIN m = Fields /\ m.done = l.done /\ m.sent = l.sent /\ m.tx = l.tx
      /\ m.joined = l.joined /\ m.wallet = l.wallet /\ m.code = l.code /\ m.fresh = l.fresh
      /\ m.last = l.last
  BY <1>1, <1>2 DEF Set, OnlyLoc, Fields
<1> HIDE DEF r, p, l, m, s
<1>4. /\ p \in 1..Len(Steps(r)) /\ Kept(r, l) /\ SentBy(r, p, l) /\ DoneBy(r, p, l)
      /\ PaidBy(r, p, l) /\ l.joined = None
      /\ s.entry > 0 => HashBefore(s.entry, l)
  BY <1>1, <1>2, Leaving DEF s
<1>5. /\ Kept(r, m) /\ SentBy(r, p, m) /\ DoneBy(r, p, m) /\ PaidBy(r, p, m)
      /\ OnChain(m, landed')
  BY <1>1, <1>2, <1>3, <1>4, Touched
<1>6. s.entry > 0 => HashBefore(s.entry, m)
  BY <1>3, <1>4 DEF HashBefore
<1> QED
  BY <1>1, <1>2, <1>3, <1>4, <1>5, <1>6, Continues, FlightSame DEF r, p, l, m, s

(* Steps at which the call only waits. *)
LEMMA WaitStep ==
  ASSUME ToolInv, NEW c \in Calls, NodeAnswers(c) \/ ForgeBuilds(c)
  PROVE  ToolInv'
<1>1. /\ ans[c] = None /\ pc[c] > 0 /\ req' = req /\ inFlight' = inFlight /\ landed' = landed
      /\ pc' = pc /\ ans' = ans /\ Steps(req[c])[pc[c]].op # "submit"
      /\ \E f \in {"got", "built"} : \E v : Set(c, f, v)
  BY DEF NodeAnswers, ForgeBuilds, Refreshing, At, Here, Steps
<1>2. DOMAIN loc = Calls /\ DOMAIN loc[c] = Fields
  BY <1>1, RunningCall
<1>3. /\ OnlyLoc(c) /\ DOMAIN loc'[c] = Fields
      /\ \A f \in Fields \ {"got", "tries", "built"} : loc'[c][f] = loc[c][f]
  BY <1>1, <1>2 DEF Set, OnlyLoc
<1> QED
  BY <1>1, <1>3, Stays

(***************************************************************************)
(* A hash h that refresh() returned: batch_transfer keeps it only when it  *)
(* is not the one of the entry before.                                     *)
(***************************************************************************)
LEMMA UsesHash ==
  ASSUME ToolInv, NEW c \in Calls, NEW h, ans[c] = None, pc[c] > 0, UseHash(c, h),
         req' = req, inFlight' = inFlight, landed' = landed
  PROVE  ToolInv'
<1> DEFINE r == req[c]  p == pc[c]  l == loc[c]  m == loc'[c]  s == Steps(r)[p]
<1>1. s.op \in {"blockhash", "refresh", "distinct"}
  BY DEF UseHash, Here, Steps
<1>2. /\ r.tool \in DOMAIN Handlers /\ CallOk(r, p, None, l) /\ OnChain(l, landed)
      /\ DOMAIN loc = Calls /\ DOMAIN l = Fields /\ s.op # "submit"
  BY <1>1, RunningCall
<1>3. /\ OnlyLoc(c) /\ DOMAIN m = Fields /\ m.done = l.done /\ m.sent = l.sent /\ m.tx = l.tx
      /\ m.joined = l.joined /\ m.wallet = l.wallet /\ m.code = l.code /\ m.fresh = l.fresh
  BY <1>2 DEF UseHash, OnlyLoc, Fields
<1>4. \/ Continue(c) /\ s.op \in {"blockhash", "refresh"} /\ m.last = l.last
      \/ Continue(c) /\ s.op = "distinct" /\ m.last # l.last /\ m.hash = m.last
      \/ /\ pc' = pc /\ ans' = ans
         /\ \A f \in Fields \ {"got", "tries", "built"} : m[f] = l[f]
      \/ Stop(c, "error")
  BY <1>2 DEF UseHash, Here, Steps, Fields
<1>5. /\ p \in 1..Len(Steps(r)) /\ Kept(r, l) /\ SentBy(r, p, l) /\ DoneBy(r, p, l)
      /\ DoneBy(r, p - 1, l) /\ PaidBy(r, p, l) /\ l.joined = None
      /\ s.entry > 0 => HashBefore(s.entry, l)
  BY <1>1, <1>2, Leaving
<1>6. /\ Kept(r, m) /\ SentBy(r, p, m) /\ DoneBy(r, p, m) /\ PaidBy(r, p, m)
      /\ DoneBy(r, p - 1, m) /\ OnChain(m, landed')
  <2> HIDE DEF r, p, l, m, s
  <2> QED
    BY <1>2, <1>3, <1>5, Touched
<1>7. CASE Continue(c) /\ s.op \in {"blockhash", "refresh"} /\ m.last = l.last
  <2>1. s.entry > 0 => HashBefore(s.entry, m)
    BY <1>3, <1>5, <1>7 DEF HashBefore
  <2> HIDE DEF r, p, l, m, s
  <2> QED
    BY <1>2, <1>3, <1>5, <1>6, <1>7, <2>1, Continues, FlightSame DEF r, p, l, m, s
<1>8. CASE Continue(c) /\ s.op = "distinct" /\ m.last # l.last /\ m.hash = m.last
  <2>1. s.entry > 0 => OwnHash(s.entry, m)
    BY <1>3, <1>5, <1>8 DEF HashBefore, OwnHash
  <2> HIDE DEF r, p, l, m, s
  <2> QED
    BY <1>2, <1>3, <1>5, <1>6, <1>8, <2>1, Continues, FlightSame DEF r, p, l, m, s
<1>9. CASE pc' = pc /\ ans' = ans /\ \A f \in Fields \ {"got", "tries", "built"} : m[f] = l[f]
  BY <1>2, <1>3, <1>9, Stays
<1>10. CASE Stop(c, "error")
  <2>1. "error" # None /\ "error" \notin Refusals /\ s.op # "build"
    BY <1>1, NoneIsNoAnswer DEF Refusals
  <2> HIDE DEF r, p, l, m, s
  <2> QED
    BY <1>2, <1>3, <1>5, <1>6, <1>10, <2>1, Stops, FlightSame DEF r, p, l, m, s
<1> QED
  BY <1>4, <1>7, <1>8, <1>9, <1>10

(* refresh() stored an answer, or fell back to what is cached. *)
LEMMA RefreshStep ==
  ASSUME ToolInv, NEW c \in Calls, RefreshStores(c) \/ RefreshFails(c)
  PROVE  ToolInv'
<1>1. CASE RefreshStores(c)
  <2>1. /\ ans[c] = None /\ loc[c].got # None /\ UseHash(c, loc[c].got) /\ req' = req
        /\ inFlight' = inFlight /\ landed' = landed
    BY <1>1 DEF RefreshStores
  <2>2. pc[c] \in Nat /\ CallOk(req[c], pc[c], None, loc[c])
    BY <2>1, RunningCall
  <2>3. pc[c] > 0
    BY <2>1, <2>2 DEF CallOk
  <2> QED
    BY <2>1, <2>3, UsesHash
<1>2. CASE RefreshFails(c)
  <2>1. /\ ans[c] = None /\ pc[c] > 0 /\ req' = req /\ inFlight' = inFlight /\ landed' = landed
        /\ Steps(req[c])[pc[c]].op \notin {"submit", "build"}
        /\ UseHash(c, cache) \/ (Stop(c, "error") /\ loc' = loc)
    BY <1>2 DEF RefreshFails, Refreshing, At, Here, Steps
  <2>2. "error" # None /\ "error" \notin Refusals
    BY NoneIsNoAnswer DEF Refusals
  <2> QED
    BY <2>1, <2>2, UsesHash, StopsSame
<1> QED
  BY <1>1, <1>2


(* What was done stays named when the transaction under way changes. *)
LEMMA Carried ==
  ASSUME NEW r, NEW l, NEW m, Kept(r, l), DOMAIN m = Fields, m.done = l.done,
         m.sent \in BOOLEAN
  PROVE  /\ Kept(r, m)
         /\ \A q : DoneBy(r, q, l) => DoneBy(r, q, m)
         /\ \A land : OnChain(l, land) => OnChain(m, land)
BY DEF Kept, Named, DoneBy, OnChain

(* ensureAta: its submission counts as sent, and checks come before it. *)
LEMMA AtaStep == ASSUME ToolInv, NEW c \in Calls, AtaSubmitted(c) PROVE ToolInv'
<1> DEFINE r == req[c]  p == pc[c]  l == loc[c]  m == loc'[c]  s == Steps(r)[p]
<1>1. /\ ans[c] = None /\ p > 0 /\ req' = req /\ inFlight' = inFlight
      /\ landed \subseteq landed' /\ s.op = "ata" /\ Continue(c) /\ Set(c, "sent", TRUE)
  BY DEF AtaSubmitted, At, Here, Steps
<1>2. /\ r.tool \in DOMAIN Handlers /\ CallOk(r, p, None, l) /\ OnChain(l, landed)
      /\ DOMAIN loc = Calls /\ DOMAIN l = Fields /\ s.op # "submit"
  BY <1>1, RunningCall
<1>3. /\ OnlyLoc(c) /\ DOMAIN m = Fields /\ m.done = l.done /\ m.sent = TRUE /\ m.tx = l.tx
      /\ m.joined = l.joined /\ m.wallet = l.wallet /\ m.code = l.code /\ m.fresh = l.fresh
      /\ m.last = l.last
  BY <1>1, <1>2 DEF Set, OnlyLoc, Fields
<1> HIDE DEF r, p, l, m, s
<1>4. /\ p \in 1..Len(Steps(r)) /\ Kept(r, l) /\ DoneBy(r, p, l)
      /\ PaidBy(r, p, l) /\ l.joined = None
      /\ s.entry > 0 => HashBefore(s.entry, l)
  BY <1>1, <1>2, Leaving DEF s
<1>5. /\ Kept(r, m) /\ DoneBy(r, p, m) /\ OnChain(m, landed)
  BY <1>2, <1>3, <1>4, Carried
<1>6. s.entry > 0 => HashBefore(s.entry, m)
  BY <1>3, <1>4 DEF HashBefore
<1>7. SentBy(r, p, m)
  BY <1>1, <1>4 DEF SentBy, Effects, s
<1>8. PaidBy(r, p, m) /\ OnChain(m, landed')
  BY <1>1, <1>3, <1>4, <1>5 DEF PaidBy, OnChain
<1> QED
  BY <1>1, <1>2, <1>3, <1>4, <1>5, <1>6, <1>7, <1>8, Continues, FlightSame DEF r, p, l, m, s

(* The faucet answers with the transaction the call asked for, or the call *)
(* ends.                                                                   *)
LEMMA FaucetStep == ASSUME ToolInv, NEW c \in Calls, AskFaucet(c) PROVE ToolInv'
<1> DEFINE r == req[c]  p == pc[c]  l == loc[c]  m == loc'[c]  s == Steps(r)[p]
<1>1. /\ ans[c] = None /\ p > 0 /\ req' = req /\ inFlight' = inFlight
      /\ landed \subseteq landed' /\ s.op = "faucet"
      /\ \/ Continue(c) /\ loc' = [loc EXCEPT ![c].tx = Tx(r, l), ![c].sent = TRUE]
         \/ Stop(c, "error") /\ loc' = loc
  BY DEF AskFaucet, At, Here, Steps, TxOf, Tx
<1>2. /\ r.tool \in DOMAIN Handlers /\ CallOk(r, p, None, l) /\ OnChain(l, landed)
      /\ DOMAIN loc = Calls /\ DOMAIN l = Fields /\ s.op # "submit"
  BY <1>1, RunningCall
<1>3. CASE Continue(c) /\ loc' = [loc EXCEPT ![c].tx = Tx(r, l), ![c].sent = TRUE]
  <2>1. /\ OnlyLoc(c) /\ DOMAIN m = Fields /\ m.done = l.done /\ m.sent = TRUE
        /\ m.tx = Tx(r, l) /\ m.joined = l.joined /\ m.wallet = l.wallet
        /\ m.code = l.code /\ m.fresh = l.fresh /\ m.last = l.last
        /\ m.hash = l.hash /\ m.scale = l.scale
    <3> HIDE DEF r
    <3> QED
      BY <1>2, <1>3 DEF OnlyLoc, Fields
  <2>2. m.tx = Tx(r, m)
    BY <2>1 DEF Tx
  <2> HIDE DEF r, p, l, m, s
  <2>3. /\ p \in 1..Len(Steps(r)) /\ Kept(r, l) /\ DoneBy(r, p, l) /\ l.joined = None
        /\ s.entry > 0 => HashBefore(s.entry, l)
    BY <1>1, <1>2, Leaving DEF s
  <2>4. /\ Kept(r, m) /\ DoneBy(r, p, m) /\ OnChain(m, landed)
    BY <1>2, <2>1, <2>3, Carried
  <2>5. s.entry > 0 => HashBefore(s.entry, m)
    BY <2>1, <2>3 DEF HashBefore
  <2>6. p <= p
    BY <2>3
  <2>7. SentBy(r, p, m) /\ PaidBy(r, p, m)
    BY <1>1, <2>3, <2>6 DEF SentBy, PaidBy, Effects, s
  <2>8. OnChain(m, landed')
    BY <1>1, <2>4 DEF OnChain
  <2> QED
    BY <1>1, <1>2, <1>3, <2>1, <2>2, <2>3, <2>4, <2>5, <2>7, <2>8, Continues, FlightSame
    DEF r, p, l, m, s
<1>4. CASE Stop(c, "error") /\ loc' = loc
  <2>1. "error" # None /\ "error" \notin Refusals
    BY NoneIsNoAnswer DEF Refusals
  <2> QED
    BY <1>1, <1>2, <1>4, <2>1, StopsSame
<1> QED
  BY <1>1, <1>3, <1>4

(* The transaction and the key of a call, as the predicates write them. *)
LEMMA TxAndKey ==
  ASSUME NEW c PROVE TxOf(c) = Tx(req[c], loc[c]) /\ KeyOf(c) = Key(req[c], pc[c], loc[c])
BY DEF TxOf, Tx, KeyOf, Key, Field, Here, Steps

(* cast send counts as sent, whether the process then fails or not. *)
LEMMA CastStep == ASSUME ToolInv, NEW c \in Calls, RunCast(c) PROVE ToolInv'
<1> DEFINE r == req[c]  p == pc[c]  l == loc[c]  m == loc'[c]  s == Steps(r)[p]
<1>1. /\ ans[c] = None /\ p > 0 /\ req' = req /\ inFlight' = inFlight
      /\ landed \subseteq landed' /\ s.op = "cast" /\ (Continue(c) \/ Stop(c, "error"))
      /\ loc' = loc \/ Set(c, "sent", TRUE)
  BY DEF RunCast, At, Here, Steps
<1>2. /\ r.tool \in DOMAIN Handlers /\ CallOk(r, p, None, l) /\ OnChain(l, landed)
      /\ DOMAIN loc = Calls /\ DOMAIN l = Fields /\ s.op # "submit"
      /\ "error" # None /\ "error" \notin Refusals
  BY <1>1, RunningCall, NoneIsNoAnswer DEF Refusals
<1>3. CASE loc' = loc
  BY <1>1, <1>2, <1>3, ContinuesSame, StopsSame
<1>4. CASE Set(c, "sent", TRUE)
  <2>1. /\ OnlyLoc(c) /\ DOMAIN m = Fields /\ m.done = l.done /\ m.sent = TRUE /\ m.tx = l.tx
        /\ m.joined = l.joined /\ m.last = l.last
    BY <1>2, <1>4 DEF Set, OnlyLoc, Fields
  <2> HIDE DEF r, p, l, m, s
  <2>2. /\ p \in 1..Len(Steps(r)) /\ Kept(r, l) /\ DoneBy(r, p, l) /\ DoneBy(r, p - 1, l)
        /\ PaidBy(r, p, l) /\ l.joined = None
        /\ s.entry > 0 => HashBefore(s.entry, l)
    BY <1>1, <1>2, Leaving DEF s
  <2>3. /\ Kept(r, m) /\ DoneBy(r, p, m) /\ DoneBy(r, p - 1, m) /\ OnChain(m, landed)
    BY <1>2, <2>1, <2>2, Carried
  <2>4. s.entry > 0 => HashBefore(s.entry, m)
    BY <2>1, <2>2 DEF HashBefore
  <2>5. p <= p
    BY <2>2
  <2>6. SentBy(r, p, m)
    BY <1>1, <2>2, <2>5 DEF SentBy, Effects, s
  <2>7. PaidBy(r, p, m) /\ OnChain(m, landed') /\ m.joined = None
    BY <1>1, <2>1, <2>2, <2>3 DEF PaidBy, OnChain
  <2>8. CASE Continue(c)
    BY <1>1, <1>2, <2>1, <2>2, <2>3, <2>4, <2>6, <2>7, <2>8, Continues, FlightSame
    DEF r, p, l, m, s
  <2>9. CASE Stop(c, "error")
    BY <1>1, <1>2, <2>1, <2>2, <2>3, <2>6, <2>7, <2>9, Stops, FlightSame DEF r, p, l, m, s
  <2> QED
    BY <1>1, <2>8, <2>9
<1> QED
  BY <1>1, <1>3, <1>4

(* airdrop answers success when the faucet transaction is on chain. *)
LEMMA PollStep == ASSUME ToolInv, NEW c \in Calls, PollLanded(c) PROVE ToolInv'
<1> DEFINE r == req[c]  p == pc[c]  l == loc[c]  m == loc'[c]  s == Steps(r)[p]
           d == [entry |-> 0, tx |-> l.tx, own |-> Tx(r, l), key |-> {},
                 result |-> "confirmed"]
<1>1. /\ ans[c] = None /\ p > 0 /\ req' = req /\ inFlight' = inFlight
      /\ landed \subseteq landed' /\ s.op = "landed"
      /\ \/ Continue(c) /\ l.tx \in landed /\ loc' = [loc EXCEPT ![c].done = {d}]
         \/ pc' = pc /\ ans' = ans /\ \E v : Set(c, "tries", v)
         \/ Stop(c, "error") /\ loc' = loc
  BY TxAndKey DEF PollLanded, At, Here, Steps, NoKey
<1>2. /\ r.tool \in DOMAIN Handlers /\ CallOk(r, p, None, l) /\ OnChain(l, landed)
      /\ DOMAIN loc = Calls /\ DOMAIN l = Fields /\ s.op # "submit"
  BY <1>1, RunningCall
<1>3. CASE Continue(c) /\ l.tx \in landed /\ loc' = [loc EXCEPT ![c].done = {d}]
  <2>1. /\ OnlyLoc(c) /\ DOMAIN m = Fields /\ m.done = {d} /\ m.sent = l.sent
        /\ m.tx = l.tx /\ m.joined = l.joined
    <3> HIDE DEF d
    <3> QED
      BY <1>2, <1>3 DEF OnlyLoc, Fields
  <2>2. d.entry = 0 /\ d.tx = l.tx /\ d.tx \in landed /\ d.own = Tx(r, l) /\ d.key = {}
    BY <1>3
  <2> HIDE DEF r, p, l, m, s, d
  <2>3. /\ p \in 1..Len(Steps(r)) /\ Kept(r, l) /\ SentBy(r, p, l) /\ PaidBy(r, p, l)
        /\ l.joined = None /\ l.tx = Tx(r, l)
    BY <1>1, <1>2, Leaving DEF s
  <2>4. WellOrdered(Steps(r)) /\ Len(Steps(r)) \in Nat
    BY <1>2, HandlersOrdered DEF Steps, WellOrdered
  <2>6. s.entry = 0
    BY <1>1, <2>3, <2>4 DEF WellOrdered, Single, s
  <2>7. Matches(r.tool, d.key, d.tx, d.own)
    BY <2>2, <2>3 DEF Matches, SameMemo
  <2>8. Kept(r, m)
    <3>1. d.entry \in Nat /\ ~(d.entry > 0)
      BY <2>2
    <3>2. Named(r, m) /\ Apart(m.done)
      BY <2>1, <2>7, <3>1 DEF Named, Apart
    <3> QED
      BY <2>1, <2>3, <3>2 DEF Kept
  <2>9. SentBy(r, p, m) /\ PaidBy(r, p, m)
    BY <2>1, <2>3 DEF SentBy, PaidBy
  <2>10. DoneBy(r, p, m)
    <3>1. p <= p
      BY <2>3
    <3> QED
      BY <1>1, <2>1, <2>2, <2>3, <2>6, <3>1 DEF DoneBy, Naming, s
  <2>11. OnChain(m, landed')
    BY <1>1, <2>1, <2>2 DEF OnChain
  <2>12. ~(s.entry > 0) /\ landed \subseteq landed' /\ m.joined = None /\ s.op # "faucet"
    BY <1>1, <2>1, <2>3, <2>6
  <2>13. FlightKept(c)
    BY <1>1, <2>12, FlightSame
  <2> QED
    BY <1>1, <1>2, <1>3, <2>1, <2>3, <2>8, <2>9, <2>10, <2>11, <2>12, <2>13, Continues
    DEF r, p, m, s
<1>4. CASE Stop(c, "error") /\ loc' = loc
  <2>1. "error" # None /\ "error" \notin Refusals
    BY NoneIsNoAnswer DEF Refusals
  <2> QED
    BY <1>1, <1>2, <1>4, <2>1, StopsSame
<1>5. CASE pc' = pc /\ ans' = ans /\ \E v : Set(c, "tries", v)
  <2>1. /\ OnlyLoc(c) /\ DOMAIN m = Fields
        /\ \A f \in Fields \ {"got", "tries", "built"} : m[f] = l[f]
    BY <1>2, <1>5 DEF Set, OnlyLoc
  <2> QED
    BY <1>1, <1>2, <1>5, <2>1, Stays
<1> QED
  BY <1>1, <1>3, <1>4, <1>5

(***************************************************************************)
(* A handler at its submission takes over a transaction x that matches its *)
(* own.                                                                    *)
(***************************************************************************)
Taken(r, p, m) ==
  /\ p \in 1..Len(Steps(r)) /\ Kept(r, m) /\ SentBy(r, p, m) /\ DoneBy(r, p, m)
  /\ PaidBy(r, p, m)
  /\ Steps(r)[p].entry > 0 =>
       \A d \in m.done : d.entry = Steps(r)[p].entry => d.tx.hash = m.last

(* What holds of the handler once it has taken the transaction over. *)
LEMMA Takes ==
  ASSUME NEW r, r.tool \in DOMAIN Handlers, NEW p, NEW l, CallOk(r, p, None, l), p > 0,
         Steps(r)[p].op = "submit", NEW x, NEW n,
         NEW o, o = Tx(r, l), Matches(r.tool, Steps(r)[p].key, x, o),
         NEW m, DOMAIN m = Fields, m.sent = l.sent, m.last = l.last, m.tx = None,
         n.entry = Steps(r)[p].entry, n.tx = x, n.own = o, n.key = Steps(r)[p].key,
         NEW D, D = l.done \cup {n}, m.done = D
  PROVE  Taken(r, p, m)
<1> DEFINE h == Steps(r)
           s == h[p]
<1>1. WellOrdered(h) /\ Len(h) \in Nat
  BY HandlersOrdered DEF Steps, WellOrdered
<1>2. p \in Nat /\ p \in 1..Len(h) /\ p <= p
  BY <1>1 DEF CallOk
<1>3. Kept(r, l) /\ SentBy(r, p, l) /\ DoneBy(r, p - 1, l) /\ Placed(r, p, l)
  BY DEF CallOk
<1>4. /\ n.entry = s.entry /\ n.tx = x /\ m.done = l.done \cup {n}
      /\ Matches(r.tool, n.key, n.tx, n.own)
  OBVIOUS
<1>41. \A f \in s.key \ {"entry"} : x[f] = Tx(r, l)[f]
  BY DEF Matches
<1> HIDE DEF h
<1>5. s.entry \in Nat /\ (s.entry > 0 => "hash" \in s.key)
  BY <1>1, <1>2 DEF WellOrdered, Single, h
<1>6. s.entry > 0 => OwnHash(s.entry, l) /\ x.hash = l.last
  <2>1. ASSUME s.entry > 0 PROVE OwnHash(s.entry, l)
    BY <1>3, <2>1 DEF Placed, h
  <2>2. ASSUME s.entry > 0 PROVE x.hash = l.hash
    BY <1>5, <1>41, <2>2 DEF Tx, h
  <2> QED
    BY <2>1, <2>2 DEF OwnHash
<1>11. Named(r, m)
  BY <1>3, <1>4, <1>5 DEF Kept, Named
<1>12. \A d \in l.done : d.entry \in Nat /\ (d.entry > 0 => d.entry < s.entry)
  BY <1>2, <1>3, DoneEarlier DEF Kept, Named, h
<1>13. Apart(m.done)
  <2> SUFFICES ASSUME NEW d \in m.done, NEW e \in m.done, e.entry = d.entry + 1, d.entry > 0
               PROVE  d.tx # e.tx
    BY DEF Apart
  <2>1. CASE d \in l.done /\ e \in l.done
    BY <1>3, <2>1 DEF Kept, Apart
  <2>2. CASE d \in l.done /\ e = n
    <3>1. d.entry \in Nat /\ d.entry = s.entry - 1 /\ s.entry > 0
      BY <1>4, <1>5, <1>12, <2>2
    <3>2. d.tx.hash # l.last /\ x.hash = l.last
      BY <1>6, <2>2, <3>1 DEF OwnHash
    <3> QED
      BY <1>4, <2>2, <3>2
  <2>3. CASE d = n
    BY <1>4, <1>5, <1>12, <2>3
  <2> QED
    BY <1>4, <2>1, <2>2, <2>3
<1>14. Kept(r, m)
  BY <1>3, <1>11, <1>13 DEF Kept
<1>15. SentBy(r, p, m)
  BY <1>3 DEF SentBy
<1>16. DoneBy(r, p, m)
  <2> SUFFICES ASSUME NEW d \in m.done
               PROVE  \E i \in 1..Len(h) : i <= p /\ h[i].op \in Naming /\ h[i].entry = d.entry
    BY DEF DoneBy, h
  <2>1. CASE d \in l.done
    <3>1. PICK i \in 1..Len(h) : i <= p - 1 /\ h[i].op \in Naming /\ h[i].entry = d.entry
      BY <1>3, <2>1 DEF DoneBy, h
    <3>2. i <= p
      BY <1>1, <1>2, <3>1
    <3> QED
      BY <3>1, <3>2
  <2>2. CASE d = n
    <3>1. s.op \in Naming
      BY DEF Naming, h
    <3> QED
      BY <1>2, <1>4, <2>2, <3>1
  <2> QED
    BY <1>4, <2>1, <2>2
<1>17. PaidBy(r, p, m)
  BY DEF PaidBy
<1>18. ASSUME s.entry > 0, NEW d \in m.done, d.entry = s.entry PROVE d.tx.hash = m.last
  <2>1. CASE d \in l.done
    BY <1>5, <1>12, <1>18, <2>1
  <2>2. CASE d = n
    BY <1>4, <1>6, <1>18, <2>2
  <2> QED
    BY <1>4, <1>18, <2>1, <2>2
<1> QED
  BY <1>2, <1>14, <1>15, <1>16, <1>17, <1>18 DEF h, Taken

(* The handler looks at the result v of a submission x, its own or one it *)
(* joined.                                                                *)
LEMMA ResultStep ==
  ASSUME ToolInv, NEW c \in Calls, NEW v, NEW x, ans[c] = None, pc[c] > 0,
         Steps(req[c])[pc[c]].op = "submit", Result(c, v, x), req' = req, FlightKept(c),
         landed \subseteq landed', v = "confirmed" => x \in landed',
         Matches(req[c].tool, Steps(req[c])[pc[c]].key, x, Tx(req[c], loc[c]))
  PROVE  ToolInv'
<1> DEFINE r == req[c]  p == pc[c]  l == loc[c]  m == loc'[c]  s == Steps(r)[p]
           n == [entry |-> s.entry, tx |-> x, own |-> Tx(r, l), key |-> s.key, result |-> v]
<1>1. /\ r.tool \in DOMAIN Handlers /\ CallOk(r, p, None, l) /\ OnChain(l, landed) /\ p \in Nat
      /\ DOMAIN loc = Calls /\ DOMAIN pc = Calls /\ DOMAIN ans = Calls /\ DOMAIN l = Fields
  BY RunningCall
<1>2. /\ loc' = [loc EXCEPT ![c].tx = None, ![c].joined = None,
                            ![c].done = IF v = "failed" THEN @ ELSE @ \cup {n}]
      /\ \/ v # "failed" /\ Continue(c)
         \/ v = "timeout" /\ s.entry = 0 /\ Stop(c, "timeout")
         \/ v = "failed" /\ Stop(c, "failed")
  BY TxAndKey DEF Result, Here, Steps
<1>3. /\ OnlyLoc(c) /\ DOMAIN m = Fields /\ m.sent = l.sent /\ m.last = l.last
      /\ m.tx = None /\ m.joined = None /\ m.done = IF v = "failed" THEN l.done ELSE l.done \cup {n}
  <2> HIDE DEF n
  <2> QED
    BY <1>1, <1>2 DEF OnlyLoc, Fields
<1>4. n.tx = x /\ n.result = v /\ n.entry = s.entry /\ n.own = Tx(r, l) /\ n.key = s.key
  OBVIOUS
<1>5. OnChain(m, landed')
  <2> HIDE DEF n
  <2> QED
    BY <1>1, <1>3, <1>4 DEF OnChain
<1> HIDE DEF r, p, l, m, s
<1>6. ASSUME v # "failed"
      PROVE  /\ p \in 1..Len(Steps(r)) /\ Kept(r, m) /\ SentBy(r, p, m) /\ DoneBy(r, p, m)
             /\ PaidBy(r, p, m)
             /\ s.entry > 0 => \A d \in m.done : d.entry = s.entry => d.tx.hash = m.last
  <2> HIDE DEF n
  <2>1. /\ m.done = l.done \cup {n} /\ n.tx = x /\ n.entry = Steps(r)[p].entry
        /\ n.own = Tx(r, l) /\ n.key = Steps(r)[p].key
    BY <1>3, <1>4, <1>6 DEF s
  <2>2. /\ p > 0 /\ Steps(r)[p].op = "submit"
        /\ Matches(r.tool, Steps(r)[p].key, x, Tx(r, l))
    BY DEF r, p, l
  <2>3. /\ DOMAIN m = Fields /\ m.sent = l.sent /\ m.last = l.last /\ m.tx = None
        /\ r.tool \in DOMAIN Handlers /\ CallOk(r, p, None, l)
    BY <1>1, <1>3
  <2>4. PICK o, D : o = Tx(r, l) /\ D = l.done \cup {n}
    OBVIOUS
  <2>5. Matches(r.tool, Steps(r)[p].key, x, o) /\ n.own = o /\ m.done = D
    BY <2>1, <2>2, <2>4
  <2>6. Taken(r, p, m)
    BY <2>1, <2>2, <2>3, <2>4, <2>5, Takes, Zenon
  <2> QED
    BY <2>6 DEF s, Taken
<1>7. CASE v # "failed" /\ Continue(c)
  <2>1. s.op = "submit"
    BY DEF r, p, s
  <2> HIDE DEF n
  <2> QED
    BY <1>1, <1>3, <1>5, <1>6, <1>7, <2>1, Continues DEF r, p, m, s
<1>8. CASE v = "timeout" /\ s.entry = 0 /\ Stop(c, "timeout")
  <2>1. "timeout" # None /\ "timeout" \notin Refusals
    BY NoneIsNoAnswer DEF Refusals
  <2>2. pc' = pc /\ ans' = [ans EXCEPT ![c] = "timeout"]
    BY <1>8 DEF Stop, Here, Steps, r, p, s
  <2>3. OnlyCall(c) /\ pc'[c] = p /\ ans'[c] = "timeout"
    BY <1>1, <1>3, <2>2 DEF OnlyCall, p
  <2>4. CallOk(r, p, "timeout", m) /\ Fresh(r, p, "timeout", m)
    BY <1>1, <1>6, <1>8, <2>1, Ends
  <2> QED
    BY <1>5, <2>3, <2>4, Moves DEF r, p, m
<1>9. CASE v = "failed" /\ Stop(c, "failed")
  <2>1. "failed" # None /\ "failed" \notin Refusals
    BY NoneIsNoAnswer DEF Refusals
  <2>2. m.done = l.done /\ m.sent = l.sent
    BY <1>3, <1>9
  <2>3. Kept(r, l) /\ SentBy(r, p, l) /\ DoneBy(r, p - 1, l) /\ p <= Len(Steps(r)) /\ p > 0
    BY <1>1 DEF CallOk, p
  <2>4. p \in 1..Len(Steps(r))
    BY <1>1, <2>3, HandlersOrdered DEF Steps, WellOrdered
  <2>5. Kept(r, m) /\ DoneBy(r, p - 1, m)
    <3>1. m.sent \in BOOLEAN
      BY <2>2, <2>3 DEF Kept
    <3> QED
      BY <1>1, <1>3, <2>2, <2>3, <3>1, Carried
  <2>6. SentBy(r, p, m) /\ PaidBy(r, p, m)
    BY <1>3, <2>2, <2>3 DEF SentBy, PaidBy
  <2> QED
    BY <1>1, <1>3, <1>5, <1>9, <2>1, <2>4, <2>5, <2>6, Stops DEF r, p, m
<1> QED
  BY <1>2, <1>7, <1>8, <1>9


(* A call that begins to wait at its submission. *)
LEMMA Begins ==
  ASSUME NEW r, r.tool \in DOMAIN Handlers, NEW p, NEW l, CallOk(r, p, None, l), p > 0,
         Steps(r)[p].op = "submit", NEW m, DOMAIN m = Fields, m.wallet = l.wallet,
         m.code = l.code, m.fresh = l.fresh, m.scale = l.scale, m.hash = l.hash,
         m.last = l.last, m.done = l.done, m.sent \in {l.sent, TRUE},
         m.tx = None \/ m.tx = Tx(r, l)
  PROVE  /\ CallOk(r, p, None, m) /\ Tx(r, m) = Tx(r, l) /\ Key(r, p, m) = Key(r, p, l)
         /\ \A land : OnChain(l, land) => OnChain(m, land)
<1>1. Kept(r, l) /\ SentBy(r, p, l) /\ DoneBy(r, p - 1, l) /\ Placed(r, p, l)
  BY DEF CallOk
<1>2. p \in Nat /\ p <= Len(Steps(r)) /\ Len(Steps(r)) \in Nat
  BY HandlersOrdered DEF CallOk, Steps, WellOrdered
<1>3. p \in 1..Len(Steps(r)) /\ p <= p
  BY <1>2
<1>4. Tx(r, m) = Tx(r, l)
  BY DEF Tx
<1>5. Key(r, p, m) = Key(r, p, l)
  BY <1>4 DEF Key
<1>6. m.sent \in BOOLEAN
  BY <1>1 DEF Kept
<1>7. Kept(r, m) /\ DoneBy(r, p - 1, m) /\ \A land : OnChain(l, land) => OnChain(m, land)
  BY <1>1, <1>6, Carried
<1>8. SentBy(r, p, m)
  BY <1>3 DEF SentBy, Effects
<1>9. Placed(r, p, m)
  BY <1>1, <1>4 DEF Placed, OwnHash
<1> QED
  BY <1>2, <1>4, <1>5, <1>7, <1>8, <1>9, NoneIsNoAnswer DEF CallOk

(* A call that stays at its submission, with no other call owning its key. *)
LEMMA Holds ==
  ASSUME ToolInv, NEW c \in Calls, pc' = pc, ans' = ans, req' = req, landed' = landed,
         OnlyLoc(c), CallOk(req[c], pc[c], ans[c], loc'[c]), OnChain(loc'[c], landed),
         FlightKept(c), Waits(req[c], pc[c], ans[c], loc'[c], inFlight'),
         \A e \in Calls \ {c} :
           Owns(req[c], pc[c], ans[c], loc'[c]) /\ Owns(req[e], pc[e], ans[e], loc[e])
             => Key(req[c], pc[c], loc'[c]) # Key(req[e], pc[e], loc[e])
  PROVE  ToolInv'
<1>1. \A e \in Calls \ {c} : loc'[e] = loc[e]
  BY DEF OnlyLoc
<1>2. \A e \in Calls : CallOk(req'[e], pc'[e], ans'[e], loc'[e])
  BY <1>1 DEF ToolInv
<1>3. \A e \in Calls : OnChain(loc'[e], landed')
  BY <1>1 DEF ToolInv
<1>4. \A e \in Calls : Waits(req'[e], pc'[e], ans'[e], loc'[e], inFlight')
  <2>1. \A e \in Calls \ {c} : Waits(req'[e], pc'[e], ans'[e], loc'[e], inFlight')
    BY <1>1 DEF FlightKept
  <2> QED
    BY <2>1
<1>5. FlightOk(inFlight', landed')
  BY DEF FlightKept
<1>6. Alone(req', pc', ans', loc')
  <2> SUFFICES ASSUME NEW e \in Calls, NEW d \in Calls, e # d,
                      Owns(req[e], pc[e], ans[e], loc'[e]),
                      Owns(req[d], pc[d], ans[d], loc'[d])
               PROVE  Key(req[e], pc[e], loc'[e]) # Key(req[d], pc[d], loc'[d])
    BY DEF Alone
  <2>1. CASE e = c
    BY <1>1, <2>1
  <2>2. CASE d = c
    BY <1>1, <2>2
  <2>3. CASE e # c /\ d # c
    BY <1>1, <2>3 DEF ToolInv, Alone
  <2> QED
    BY <2>1, <2>2, <2>3
<1> QED
  BY <1>2, <1>3, <1>4, <1>5, <1>6 DEF ToolInv, OnlyLoc

(* A call joins the submission that is in flight under its key. *)
LEMMA JoinStep == ASSUME ToolInv, NEW c \in Calls, SubmitJoins(c) PROVE ToolInv'
<1> DEFINE r == req[c]  p == pc[c]  l == loc[c]  m == loc'[c]  s == Steps(r)[p]
           K == Key(r, p, l)
<1>1. /\ ans[c] = None /\ p > 0 /\ req' = req /\ inFlight' = inFlight /\ landed' = landed
      /\ pc' = pc /\ ans' = ans /\ s.op = "submit" /\ l.tx = None /\ s.key # {}
      /\ K \in DOMAIN inFlight /\ Set(c, "joined", K)
  BY TxAndKey DEF SubmitJoins, At, Here, Steps, NoKey
<1>2. /\ r.tool \in DOMAIN Handlers /\ CallOk(r, p, None, l) /\ OnChain(l, landed)
      /\ DOMAIN loc = Calls /\ DOMAIN l = Fields
  BY <1>1, RunningCall
<1>3. /\ OnlyLoc(c) /\ DOMAIN m = Fields /\ m.wallet = l.wallet /\ m.code = l.code
      /\ m.fresh = l.fresh /\ m.scale = l.scale /\ m.hash = l.hash /\ m.last = l.last
      /\ m.done = l.done /\ m.sent = l.sent /\ m.tx = None /\ m.joined = K
  <2> HIDE DEF K
  <2> QED
    BY <1>1, <1>2 DEF Set, OnlyLoc, Fields
<1> HIDE DEF r, p, l, m, s, K
<1>4. CallOk(r, p, None, m) /\ Key(r, p, m) = K /\ OnChain(m, landed)
  BY <1>1, <1>2, <1>3, Begins DEF s, K
<1>5. ~Owns(r, p, None, m)
  BY <1>3 DEF Owns
<1>6. Waits(r, p, None, m, inFlight')
  BY <1>1, <1>3, <1>4, <1>5 DEF Waits, s
<1>7. FlightKept(c)
  BY <1>1, FlightSame
<1> QED
  BY <1>1, <1>3, <1>4, <1>5, <1>6, <1>7, Holds DEF r, p, m

(* A call submits: nobody owns its key, so it does. *)
LEMMA StartStep == ASSUME ToolInv, NEW c \in Calls, SubmitStarts(c) PROVE ToolInv'
<1> DEFINE r == req[c]  p == pc[c]  l == loc[c]  m == loc'[c]  s == Steps(r)[p]
           K == Key(r, p, l)  x == Tx(r, l)  sub == [tx |-> x, result |-> None]
<1>1. /\ ans[c] = None /\ p > 0 /\ req' = req /\ landed' = landed
      /\ pc' = pc /\ ans' = ans /\ s.op = "submit" /\ l.joined = None
      /\ loc' = [loc EXCEPT ![c].tx = x, ![c].sent = TRUE]
      /\ \/ s.key = {} /\ inFlight' = inFlight
         \/ /\ s.key # {} /\ K \notin DOMAIN inFlight
            /\ inFlight' = [k \in DOMAIN inFlight \cup {K} |->
                              IF k = K THEN sub ELSE inFlight[k]]
  BY TxAndKey DEF SubmitStarts, At, Here, Steps, NoKey
<1>2. /\ r.tool \in DOMAIN Handlers /\ CallOk(r, p, None, l) /\ OnChain(l, landed)
      /\ DOMAIN loc = Calls /\ DOMAIN l = Fields
  BY <1>1, RunningCall
<1>3. /\ OnlyLoc(c) /\ DOMAIN m = Fields /\ m.wallet = l.wallet /\ m.code = l.code
      /\ m.fresh = l.fresh /\ m.scale = l.scale /\ m.hash = l.hash /\ m.last = l.last
      /\ m.done = l.done /\ m.sent = TRUE /\ m.tx = x /\ m.joined = None
  <2> HIDE DEF x, K, sub
  <2> QED
    BY <1>1, <1>2 DEF OnlyLoc, Fields
<1>4. /\ DOMAIN sub = {"tx", "result"} /\ sub.tx = x /\ sub.result = None
      /\ x.tool = r.tool /\ x.tool = K[1]
  BY DEF Tx, Key
<1>5. \A f \in DOMAIN K[2] \ {"entry"} : x[f] = K[2][f]
  BY DEF Key
<1>10. Spelled(K, x)
  <2>1. x.memo = r.memo /\ K[1] = r.tool /\ K[3] = Suffix(r.memo, r.idempotency_key)
    BY DEF Tx, Key
  <2>2. Asked(r)
    BY <1>1, RunningCall
  <2> QED
    BY <2>1, <2>2 DEF Spelled, Asked
<1>6. None # "confirmed"
  BY NoneIsNoAnswer
<1> HIDE DEF r, p, l, m, s, K, x, sub
<1>7. CallOk(r, p, None, m) /\ Key(r, p, m) = K /\ OnChain(m, landed)
  <2>1. /\ Steps(r)[p].op = "submit" /\ m.tx = Tx(r, l) /\ m.sent \in {l.sent, TRUE} /\ p > 0
        /\ DOMAIN m = Fields /\ m.wallet = l.wallet /\ m.code = l.code
        /\ m.fresh = l.fresh /\ m.scale = l.scale /\ m.hash = l.hash /\ m.last = l.last
        /\ m.done = l.done
    BY <1>1, <1>3 DEF s, x
  <2>2. CallOk(r, p, None, m) /\ Key(r, p, m) = Key(r, p, l) /\ OnChain(m, landed)
    BY <1>2, <2>1, Begins
  <2> QED
    BY <2>2 DEF K
<1>8. CASE s.key = {} /\ inFlight' = inFlight
  <2>1. ~Owns(r, p, None, m)
    BY <1>8 DEF Owns, s
  <2>2. Waits(r, p, None, m, inFlight')
    BY <1>3, <2>1 DEF Waits
  <2>3. FlightKept(c)
    BY <1>1, <1>8, FlightSame
  <2> QED
    BY <1>1, <1>3, <1>7, <2>1, <2>2, <2>3, Holds DEF r, p, m
<1>9. CASE /\ s.key # {} /\ K \notin DOMAIN inFlight
           /\ inFlight' = [k \in DOMAIN inFlight \cup {K} |->
                             IF k = K THEN sub ELSE inFlight[k]]
  <2>1. /\ DOMAIN inFlight' = DOMAIN inFlight \cup {K} /\ inFlight'[K] = sub
        /\ \A k \in DOMAIN inFlight : inFlight'[k] = inFlight[k]
    BY <1>9
  <2>2. Waits(r, p, None, m, inFlight')
    BY <1>3, <1>4, <1>7, <2>1 DEF Waits
  <2>3. FlightOk(inFlight', landed')
    <3>1. FlightOk(inFlight, landed)
      BY DEF ToolInv
    <3> QED
      BY <1>1, <1>4, <1>5, <1>6, <1>10, <2>1, <3>1 DEF FlightOk
  <2>4. \A e \in Calls : Waits(req[e], pc[e], ans[e], loc[e], inFlight)
    BY DEF ToolInv
  <2>5. \A e \in Calls \ {c} : Waits(req[e], pc[e], ans[e], loc[e], inFlight')
    BY <2>1, <2>4 DEF Waits
  <2>6. \A e \in Calls \ {c} :
          Owns(req[e], pc[e], ans[e], loc[e]) => K # Key(req[e], pc[e], loc[e])
    BY <1>9, <2>4 DEF Waits
  <2>7. FlightKept(c)
    BY <2>3, <2>5 DEF FlightKept
  <2> QED
    BY <1>1, <1>3, <1>7, <2>2, <2>6, <2>7, Holds DEF r, p, m
<1> QED
  BY <1>1, <1>8, <1>9

(* A submission ends, and the others that joined it read the result later. *)
LEMMA EndStep == ASSUME ToolInv, NEW c \in Calls, SubmitEnds(c) PROVE ToolInv'
<1> DEFINE r == req[c]  p == pc[c]  l == loc[c]  s == Steps(r)[p]  K == Key(r, p, l)
<1>1. PICK v \in {"confirmed", "timeout", "failed"} :
        /\ ans[c] = None /\ p > 0 /\ req' = req /\ s.op = "submit" /\ l.tx # None
        /\ landed \subseteq landed' /\ (v = "confirmed" => l.tx \in landed')
        /\ Result(c, v, l.tx)
        /\ \/ s.key = {} /\ inFlight' = inFlight
           \/ s.key # {} /\ inFlight' = [inFlight EXCEPT ![K].result = v]
  BY TxAndKey DEF SubmitEnds, At, Here, Steps, NoKey
<1>2. r.tool \in DOMAIN Handlers /\ CallOk(r, p, None, l)
  BY <1>1, RunningCall
<1>3. Placed(r, p, l)
  BY <1>1, <1>2 DEF CallOk
<1>4. l.tx = Tx(r, l)
  BY <1>1, <1>3 DEF Placed
<1>5. Matches(r.tool, s.key, l.tx, Tx(r, l))
  BY <1>4 DEF Matches, SameMemo
<1>6. FlightKept(c)
  <2>1. CASE s.key = {} /\ inFlight' = inFlight
    BY <1>1, <2>1, FlightSame
  <2>2. CASE s.key # {} /\ inFlight' = [inFlight EXCEPT ![K].result = v]
    <3>1. /\ FlightOk(inFlight, landed) /\ Alone(req, pc, ans, loc)
          /\ \A e \in Calls : Waits(req[e], pc[e], ans[e], loc[e], inFlight)
      BY DEF ToolInv
    <3>2. Owns(r, p, ans[c], l)
      BY <1>1, <2>2 DEF Owns, Busy
    <3>3. K \in DOMAIN inFlight /\ inFlight[K].tx = l.tx
      BY <3>1, <3>2 DEF Waits
    <3>4. DOMAIN inFlight[K] = {"tx", "result"}
      BY <3>1, <3>3 DEF FlightOk
    <3> HIDE DEF K
    <3>5. /\ DOMAIN inFlight' = DOMAIN inFlight /\ DOMAIN inFlight'[K] = {"tx", "result"}
          /\ inFlight'[K].tx = l.tx /\ inFlight'[K].result = v
          /\ \A k \in DOMAIN inFlight \ {K} : inFlight'[k] = inFlight[k]
      BY <2>2, <3>3, <3>4
    <3>6. FlightOk(inFlight', landed')
      <4> SUFFICES ASSUME NEW k \in DOMAIN inFlight
                   PROVE  /\ DOMAIN inFlight'[k] = {"tx", "result"}
                          /\ inFlight'[k].tx.tool = k[1]
                          /\ \A f \in DOMAIN k[2] \ {"entry"} :
                               inFlight'[k].tx[f] = k[2][f]
                          /\ Spelled(k, inFlight'[k].tx)
                          /\ inFlight'[k].result = "confirmed" => inFlight'[k].tx \in landed'
        BY <3>5 DEF FlightOk
      <4>1. CASE k = K
        BY <1>1, <3>1, <3>3, <3>5, <4>1 DEF FlightOk
      <4>2. CASE k # K
        BY <1>1, <3>1, <3>5, <4>2 DEF FlightOk
      <4> QED
        BY <4>1, <4>2
    <3>7. \A e \in Calls \ {c} :
            Owns(req[e], pc[e], ans[e], loc[e]) => K # Key(req[e], pc[e], loc[e])
      BY <3>1, <3>2 DEF Alone, K
    <3>8. \A e \in Calls \ {c} : Waits(req[e], pc[e], ans[e], loc[e], inFlight')
      BY <3>1, <3>5, <3>7 DEF Waits
    <3> QED
      BY <3>6, <3>8 DEF FlightKept
  <2> QED
    BY <1>1, <2>1, <2>2
<1> QED
  BY <1>1, <1>5, <1>6, ResultStep

(***************************************************************************)
(* What the text t of a key says about the memo m and the idempotency_key  *)
(* i: without i it is the memo; with one, the memo ends at a mark "-i:".   *)
(***************************************************************************)
TextReads(t, m, i) ==
  /\ Len(t) \in Nat
  /\ m = <<>> => t = <<>> \/ (Len(t) > 0 /\ t[1] = "-i:")
  /\ m # <<>> => /\ Len(t) >= Len(m) + 1 /\ t[1] = "-m:"
                 /\ \A j \in 1..Len(m) : t[j + 1] = m[j]
  /\ m # <<>> /\ i = <<>> => Len(t) = Len(m) + 1
  /\ m # <<>> /\ i # <<>> => Len(t) > Len(m) + 1 /\ t[Len(m) + 2] = "-i:"

(* The text of the key reads as its memo and its idempotency_key. *)
LEMMA SuffixParts ==
  ASSUME NEW m \in Seq(STRING), NEW i \in Seq(STRING), NEW t, t = Suffix(m, i)
  PROVE  TextReads(t, m, i)
<1>1. i = <<>> \/ (Len(i) \in Nat /\ Len(i) > 0)
  OBVIOUS
<1>2. m = <<>> \/ (Len(m) \in Nat /\ Len(m) > 0)
  OBVIOUS
<1>3. CASE m = <<>>
  BY <1>1, <1>3 DEF Suffix, Marked, TextReads
<1>4. CASE m # <<>> /\ i = <<>>
  BY <1>2, <1>4 DEF Suffix, Marked, TextReads
<1>5. CASE m # <<>> /\ i # <<>>
  BY <1>1, <1>2, <1>5 DEF Suffix, Marked, TextReads
<1> QED
  BY <1>3, <1>4, <1>5

(* Two keys of the same text whose memos hold no mark have the same memo, *)
(* and so have two keys without an idempotency_key.                       *)
LEMMA ReadAlike ==
  ASSUME NEW m \in Seq(STRING), NEW i \in Seq(STRING), NEW n \in Seq(STRING),
         NEW u \in Seq(STRING), NEW t, TextReads(t, m, i), TextReads(t, n, u)
  PROVE  /\ m = n \/ HoldsMark(m) \/ HoldsMark(n)
         /\ i = <<>> /\ u = <<>> => m = n
<1>3. /\ Len(m) \in Nat /\ Len(n) \in Nat /\ DOMAIN m = 1..Len(m) /\ DOMAIN n = 1..Len(n)
      /\ (m = <<>> <=> Len(m) = 0) /\ (n = <<>> <=> Len(n) = 0) /\ Len(<<>>) = 0
  OBVIOUS
<1>4. m = <<>> <=> n = <<>>
  BY <1>3 DEF TextReads
<1>5. CASE m # <<>> /\ Len(m) < Len(n)
  <2>1. t[Len(m) + 2] = n[Len(m) + 1] /\ Len(m) + 1 \in 1..Len(n)
    BY <1>3, <1>4, <1>5 DEF TextReads
  <2>2. i # <<>>
    BY <1>3, <1>4, <1>5 DEF TextReads
  <2> QED
    BY <1>3, <1>5, <2>1, <2>2 DEF HoldsMark, TextReads
<1>6. CASE n # <<>> /\ Len(n) < Len(m)
  <2>1. t[Len(n) + 2] = m[Len(n) + 1] /\ Len(n) + 1 \in 1..Len(m)
    BY <1>3, <1>4, <1>6 DEF TextReads
  <2>2. u # <<>>
    BY <1>3, <1>4, <1>6 DEF TextReads
  <2> QED
    BY <1>3, <1>6, <2>1, <2>2 DEF HoldsMark, TextReads
<1>7. CASE m # <<>> /\ n # <<>> /\ Len(m) = Len(n)
  <2>1. \A j \in 1..Len(m) : m[j] = n[j]
    BY <1>7 DEF TextReads
  <2> QED
    BY <1>3, <1>7, <2>1
<1>8. Len(m) < Len(n) \/ Len(n) < Len(m) \/ Len(m) = Len(n)
  <2>1. Len(m) \in Nat /\ Len(n) \in Nat
    BY <1>3
  <2> QED
    BY <2>1
<1> QED
  BY <1>3, <1>4, <1>5, <1>6, <1>7, <1>8

(* So the memos of two keys of the same text agree. *)
LEMMA MemoRead ==
  ASSUME NEW m \in Seq(STRING), NEW i \in Seq(STRING), NEW n \in Seq(STRING),
         NEW u \in Seq(STRING), Suffix(m, i) = Suffix(n, u)
  PROVE  /\ m = n \/ HoldsMark(m) \/ HoldsMark(n)
         /\ i = <<>> /\ u = <<>> => m = n
<1>1. PICK t : t = Suffix(m, i)
  OBVIOUS
<1>2. TextReads(t, m, i)
  BY <1>1, SuffixParts
<1>3. TextReads(t, n, u)
  BY <1>1, SuffixParts
<1> QED
  BY <1>2, <1>3, ReadAlike

(* A call reads the result it joined: what it names agrees with it on the *)
(* key.                                                                   *)
LEMMA JoinedStep == ASSUME ToolInv, NEW c \in Calls, JoinEnds(c) PROVE ToolInv'
<1> DEFINE r == req[c]  p == pc[c]  l == loc[c]  s == Steps(r)[p]  j == l.joined
           x == inFlight[j].tx  v == inFlight[j].result
<1>1. /\ ans[c] = None /\ p > 0 /\ req' = req /\ s.op = "submit" /\ j # None
      /\ landed' = landed /\ inFlight' = inFlight /\ Result(c, v, x)
  BY DEF JoinEnds, At, Here, Steps
<1>2. FlightOk(inFlight, landed) /\ Waits(r, p, ans[c], l, inFlight)
  BY DEF ToolInv
<1>3. j = Key(r, p, l) /\ j \in DOMAIN inFlight /\ s.key # {}
  BY <1>1, <1>2 DEF Waits, Busy
<1>4. /\ j[1] = r.tool /\ DOMAIN j[2] = s.key /\ j[3] = Suffix(r.memo, r.idempotency_key)
      /\ \A f \in s.key \ {"entry"} : j[2][f] = Tx(r, l)[f]
      /\ Tx(r, l).tool = r.tool /\ Tx(r, l).memo = r.memo
  BY <1>3 DEF Key, Tx
<1>5. /\ x.tool = r.tool /\ (v = "confirmed" => x \in landed) /\ Spelled(j, x)
      /\ \A f \in s.key \ {"entry"} : x[f] = Tx(r, l)[f]
  BY <1>2, <1>3, <1>4 DEF FlightOk
<1>7. SameMemo(r.tool, x, Tx(r, l))
  <2>1. Asked(r)
    BY <1>1, RunningCall
  <2>2. PICK i \in Seq(STRING) :
          j[3] = Suffix(x.memo, i) /\ (j[1] # "transfer_native" => i = <<>>)
    BY <1>5 DEF Spelled
  <2>3. x.memo \in Seq(STRING) /\ r.memo \in Seq(STRING) /\ r.idempotency_key \in Seq(STRING)
    BY <1>5, <2>1 DEF Spelled, Asked
  <2>4. Suffix(x.memo, i) = Suffix(r.memo, r.idempotency_key)
    BY <1>4, <2>2
  <2>5. CASE r.tool = "transfer_native"
    BY <1>4, <2>2, <2>3, <2>4, <2>5, MemoRead DEF SameMemo
  <2>6. CASE r.tool # "transfer_native"
    <3>1. i = <<>> /\ r.idempotency_key = <<>>
      BY <1>4, <2>1, <2>2, <2>6 DEF Asked
    <3>2. x.memo = r.memo
      <4>1. PICK a, b, k : a = x.memo /\ b = r.memo /\ k = r.idempotency_key
        OBVIOUS
      <4>2. /\ a \in Seq(STRING) /\ b \in Seq(STRING) /\ k \in Seq(STRING) /\ i \in Seq(STRING)
            /\ i = <<>> /\ k = <<>> /\ Suffix(a, i) = Suffix(b, k)
        BY <2>2, <2>3, <2>4, <3>1, <4>1
      <4>3. i = <<>> /\ k = <<>> => a = b
        BY <4>2, MemoRead
      <4> QED
        BY <4>1, <4>2, <4>3
    <3> QED
      BY <1>4, <3>2 DEF SameMemo
  <2> QED
    BY <2>5, <2>6
<1>8. Matches(r.tool, s.key, x, Tx(r, l))
  BY <1>3, <1>4, <1>5, <1>7 DEF Matches
<1>6. FlightKept(c)
  BY <1>1, FlightSame
<1> QED
  BY <1>1, <1>5, <1>6, <1>8, ResultStep

(* An entry nobody waits for is dropped. *)
LEMMA ForgetStep == ASSUME ToolInv, Forget PROVE ToolInv'
<1>1. PICK k \in DOMAIN inFlight :
        /\ inFlight[k].result # None /\ \A c \in Calls : loc[c].joined # k
        /\ inFlight' = [j \in DOMAIN inFlight \ {k} |-> inFlight[j]]
  BY DEF Forget
<1>2. req' = req /\ pc' = pc /\ ans' = ans /\ loc' = loc /\ landed' = landed
  BY DEF Forget
<1>3. DOMAIN inFlight' = DOMAIN inFlight \ {k}
      /\ \A j \in DOMAIN inFlight \ {k} : inFlight'[j] = inFlight[j]
  BY <1>1
<1>4. FlightOk(inFlight', landed')
  BY <1>2, <1>3 DEF ToolInv, FlightOk
<1>5. \A c \in Calls : Waits(req'[c], pc'[c], ans'[c], loc'[c], inFlight')
  <2> SUFFICES ASSUME NEW c \in Calls PROVE Waits(req[c], pc[c], ans[c], loc[c], inFlight')
    BY <1>2
  <2>1. Waits(req[c], pc[c], ans[c], loc[c], inFlight)
    BY DEF ToolInv
  <2> QED
    BY <1>1, <1>3, <2>1 DEF Waits
<1> QED
  BY <1>2, <1>4, <1>5 DEF ToolInv


-----------------------------------------------------------------------------
(* Calls start in the invariant. *)
LEMMA ToolInvInit == Init => ToolInv
<1> SUFFICES ASSUME Init PROVE ToolInv
  OBVIOUS
<1>1. \A c \in Calls : Asked(req[c]) /\ req[c].tool \in DOMAIN Handlers
  BY ToolsAssumption DEF Init, Asked
<1>2. /\ DOMAIN pc = Calls /\ DOMAIN ans = Calls /\ DOMAIN loc = Calls
      /\ \A c \in Calls : pc[c] = 0 /\ ans[c] = None
      /\ DOMAIN inFlight = {}
  BY DEF Init
<1>3. ASSUME NEW c \in Calls
      PROVE  /\ DOMAIN loc[c] = Fields /\ loc[c].done = {} /\ loc[c].got = None
             /\ loc[c].tx = None /\ loc[c].joined = None /\ loc[c].sent = FALSE
  <2>1. loc[c] = [Local EXCEPT !.wallet = req[c].wallet]
    BY DEF Init
  <2> QED
    BY <2>1 DEF Local, Fields
<1>4. ASSUME NEW c \in Calls PROVE CallOk(req[c], pc[c], ans[c], loc[c])
  <2>1. Len(Steps(req[c])) \in Nat
    BY <1>1, HandlersOrdered DEF Steps, WellOrdered
  <2>2. Kept(req[c], loc[c])
    BY <1>3 DEF Kept, Named, Apart
  <2>3. SentBy(req[c], 0, loc[c]) /\ DoneBy(req[c], 0 - 1, loc[c])
    BY <1>3 DEF SentBy, DoneBy
  <2>4. pc[c] = 0 /\ ans[c] = None /\ ans[c] \notin Refusals /\ 0 <= Len(Steps(req[c]))
    BY <1>2, <2>1, NoneIsNoAnswer
  <2>5. loc[c].got = None /\ loc[c].tx = None /\ loc[c].joined = None
    BY <1>3
  <2> QED
    BY <2>2, <2>3, <2>4, <2>5 DEF CallOk
<1>5. \A c \in Calls : OnChain(loc[c], landed)
  BY <1>3 DEF OnChain
<1>6. \A c \in Calls : ~Busy(req[c], pc[c], ans[c])
  BY <1>2 DEF Busy
<1> QED
  BY <1>1, <1>2, <1>4, <1>5, <1>6 DEF ToolInv, Waits, Owns, FlightOk, Alone

(* Every step of every call keeps the invariant. *)
LEMMA ToolInvStep == ToolInv /\ [Next]_vars => ToolInv'
<1> SUFFICES ASSUME ToolInv, [Next]_vars PROVE ToolInv'
  OBVIOUS
<1>1. ASSUME NEW c \in Calls, Step1(c) PROVE ToolInv'
  <2>1. CASE \/ Answer(c) \/ Validate(c) \/ GetSigner(c) \/ External(c) \/ RegisterMetadata(c)
             \/ WriteSource(c) \/ ForgeEnds(c) \/ ChangeActive(c)
    BY <2>1, PlainStep
  <2>2. CASE PickWallet(c) \/ NewKeypair(c) \/ ReadArtifact(c)
    BY <2>2, BindingStep
  <2>3. CASE CacheHit(c) \/ ReadMetadata(c)
    BY <2>3, TouchStep
  <2>4. CASE NodeAnswers(c) \/ ForgeBuilds(c)
    BY <2>4, WaitStep
  <2>5. CASE RefreshStores(c) \/ RefreshFails(c)
    BY <2>5, RefreshStep
  <2>6. CASE Gate(c)
    BY <2>6, GateStep
  <2>7. CASE AtaSubmitted(c)
    BY <2>7, AtaStep
  <2>8. CASE AskFaucet(c)
    BY <2>8, FaucetStep
  <2>9. CASE PollLanded(c)
    BY <2>9, PollStep
  <2>14. CASE RunCast(c)
    BY <2>14, CastStep
  <2>10. CASE SubmitJoins(c)
    BY <2>10, JoinStep
  <2>11. CASE SubmitStarts(c)
    BY <2>11, StartStep
  <2>12. CASE SubmitEnds(c)
    BY <2>12, EndStep
  <2>13. CASE JoinEnds(c)
    BY <2>13, JoinedStep
  <2> QED
    BY <1>1, <2>1, <2>2, <2>3, <2>4, <2>5, <2>6, <2>7, <2>8, <2>9, <2>10, <2>11, <2>12, <2>13,
       <2>14 DEF Step1
<1>2. CASE Forget
  BY <1>2, ForgetStep
<1>3. CASE NewBlock \/ TimerRefreshes \/ UNCHANGED vars
  <2>1. /\ req' = req /\ pc' = pc /\ ans' = ans /\ loc' = loc /\ landed' = landed
        /\ inFlight' = inFlight
    BY <1>3 DEF NewBlock, TimerRefreshes, vars
  <2> QED
    BY <2>1 DEF ToolInv
<1> QED
  BY <1>1, <1>2, <1>3 DEF Next

(* The invariant holds in every behaviour of the tool server. *)
THEOREM ToolsInvariant == Spec => []ToolInv
BY ToolInvInit, ToolInvStep, PTL DEF Spec

(* A transaction that a tool reports as confirmed is on chain, for any number *)
(* of calls and wallets: it is the one the call signed, or one it joined in   *)
(* the in-flight map, which agrees with it in the tool, in every field of the *)
(* key and in the memo, unless a transfer_native's memo holds the text "-i:". *)
THEOREM ToolsOkMeansLanded == Spec => []OkMeansLanded
<1>1. ToolInv => OkMeansLanded
  <2> SUFFICES ASSUME ToolInv, NEW c \in Calls, NEW d \in loc[c].done, d.result = "confirmed"
               PROVE  /\ d.tx \in landed
                      /\ d.key = {} => d.tx = d.own
                      /\ \A f \in {"tool"} \cup (d.key \ {"entry"}) : d.tx[f] = d.own[f]
                      /\ SameMemo(req[c].tool, d.tx, d.own)
    BY DEF OkMeansLanded, NoKey, SameMemo
  <2>1. OnChain(loc[c], landed) /\ Named(req[c], loc[c])
    BY DEF ToolInv, CallOk, Kept
  <2>2. d.tx \in landed /\ Matches(req[c].tool, d.key, d.tx, d.own)
    BY <2>1 DEF OnChain, Named
  <2> QED
    BY <2>2 DEF Matches
<1> QED
  BY <1>1, ToolsInvariant, PTL

(* A call that is answered with a refusal has sent nothing to the chain, but *)
(* for a transfer_token whose recipient is no address.                       *)
THEOREM ToolsRefusedNoEffect == Spec => []RefusedNoEffect
<1>1. ToolInv => RefusedNoEffect
  BY DEF ToolInv, CallOk, RefusedNoEffect
<1> QED
  BY <1>1, ToolsInvariant, PTL

(* Successive entries of a batch_transfer are different transactions, even *)
(* though refreshed hashes are stored out of order and read from a stale   *)
(* cache.                                                                  *)
THEOREM ToolsNeighboursDistinct == Spec => []NeighboursDistinct
<1>1. ToolInv => NeighboursDistinct
  BY DEF ToolInv, CallOk, Kept, Apart, NeighboursDistinct
<1> QED
  BY <1>1, ToolsInvariant, PTL
=============================================================================
