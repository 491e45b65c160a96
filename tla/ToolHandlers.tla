---------------------------- MODULE ToolHandlers ----------------------------
(***************************************************************************)
(* The MCP tool handlers (src/tools/*.ts), one definition per tool.        *)
(*                                                                         *)
(* A handler is an async function inside one try/catch: a fixed sequence   *)
(* of steps, each of which either goes on, or makes the function answer.   *)
(* The order of the steps is what the properties of ToolServer depend on   *)
(* (which check comes before which effect, what is read before which       *)
(* await), so a handler is the SEQUENCE of its steps, in source order.     *)
(* What a step does to the server's state is in ToolServer.  Texts,        *)
(* encodings and parsed fields of the answers are left out.                *)
(***************************************************************************)
EXTENDS Naturals, Sequences

Step(op)      == [op |-> op, key |-> {}, entry |-> 0]

(***************************************************************************)
(* The vocabulary of steps.                                                *)
(***************************************************************************)
Check        == Step("check")      \* validation, synchronous: may refuse
Build        == Step("build")      \* the builder throws on bad input
Wallet       == Step("wallet")     \* from_wallet ?? getActiveWalletId()
ActiveWallet == Step("active")     \* getActiveWalletId() only
MaybeActive  == Step("maybe")      \* getActiveWalletId(), null is fine
Signer       == Step("signer")     \* await getSigner(walletId)
Await        == Step("await")      \* an awaited call, a failure is an error
Find         == Step("find")       \* an awaited read, null is "not found"
Tolerate     == Step("tolerate")   \* an awaited read, a failure is ignored
Blockhash    == Step("blockhash")  \* await blockhashCache.getBlockhash()
Keypair      == Step("keypair")    \* a fresh keypair enters the transaction
Sign         == Step("sign")       \* await signer.sign(txBytes)
EnsureAta    == <<Step("refresh"), Build, Sign, Step("ata")>>  \* ensureAta
Submit(key)  == [Step("submit") EXCEPT !.key = key]
NoKey        == {}                 \* submitted without an idempotencyKey
Metadata     == Step("metadata")   \* await getTokenMetadata(mint)
Register     == Step("register")   \* registerTokenMetadata(...)
Faucet       == Step("faucet")     \* await rpc.faucet(address, lamports)
Landed       == Step("landed")     \* poll getTransaction(sig) for 30 s
Cast         == Step("cast")       \* await cast call, or cast send
Workspace    == Step("workspace")  \* write Contract.sol, remove out/
Forge        == Step("forge")      \* await forge build
Artifact     == Step("artifact")   \* read the artifact forge left behind
Unavailable  == Step("unavailable") \* answers that it is not available
InEntry(s, i) == [s EXCEPT !.entry = i]  \* a step of a batch's i-th entry
SetActive    == Step("setactive")  \* setActiveWalletId(wallet_id)

(***************************************************************************)
(* query.ts.                                                               *)
(***************************************************************************)
get_balance              == <<Check, Await>>
get_account              == <<Find, Tolerate>>
get_transaction          == <<Find>>
get_block                == <<Find>>
search                   == <<Find>>
get_chain_stats          == <<Find>>
get_block_height         == <<Await>>
get_account_transactions == <<Find>>
query_memos              == <<Await, Tolerate>>

(***************************************************************************)
(* validator.ts and devnet.ts.                                             *)
(***************************************************************************)
list_validators   == <<Find>>
get_epoch_info    == <<Await>>
get_vote_accounts == <<Await, Tolerate>>
airdrop           == <<Check, Faucet, Landed>>
get_health        == <<Await>>

(***************************************************************************)
(* wallet.ts and session.ts.  The wallet store itself is WalletStore.      *)
(***************************************************************************)
create_wallet     == <<Await>>
import_wallet     == <<Check, Await>>
list_wallets      == <<Await, Tolerate, Tolerate>>
get_wallet        == <<Signer, Tolerate, Tolerate>>
set_active_wallet == <<Signer, SetActive, Await>>
derive_address    == <<Signer, Await>>
session_info      == <<Await, Tolerate>>

(***************************************************************************)
(* transfer.ts.  The key ends with the text of the memo and the caller's   *)
(* idempotency_key (Suffix in ToolServer).  batch_transfer runs            *)
(* Transfer(i) once per entry; a refusal or failure inside an entry ends   *)
(* that entry only.                                                        *)
(***************************************************************************)
transfer_native == <<Check, Wallet, Signer, Check, Blockhash, Build, Sign,
                     Submit({"payer", "target", "content", "hash"})>>
\* Mutant: batch entries take the cached blockhash.
TransferCached(i) == <<InEntry(Check, i), InEntry(Blockhash, i),
                       InEntry(Sign, i), InEntry(Submit(NoKey), i)>>
Transfer(i)     == <<InEntry(Check, i), InEntry(Step("distinct"), i),
                     InEntry(Sign, i),
                     InEntry(Submit({"entry", "payer", "target", "content",
                                     "hash"}), i)>>
batch_transfer  == <<Wallet, Signer>> \o Transfer(1) \o Transfer(2)
                                     \o Transfer(3)
estimate_fee    == <<Check>>

(***************************************************************************)
(* token.ts.  mint_tokens and transfer_token take their blockhash before   *)
(* they wait for the associated token accounts.  ensureAta builds its own  *)
(* transaction, which decodes the owner and the mint and throws when one   *)
(* of them is no address: transfer_token's recipient is first looked at in *)
(* its second ensureAta.  The last builder of both tools only gets what    *)
(* the ones before it decoded, and does not throw.                         *)
(***************************************************************************)
create_token        == <<Wallet, Signer, Keypair, Blockhash, Sign,
                         Submit(NoKey), Register>>
\* Mutant: the account is made before the amount is checked.
mint_tokens_early   == <<Wallet, Signer, Blockhash>> \o EnsureAta
                       \o <<Metadata, Check, Sign, Submit(NoKey)>>
mint_tokens         == <<Wallet, Signer, Blockhash, Metadata, Check>>
                       \o EnsureAta \o <<Sign, Submit(NoKey)>>
transfer_token      == <<Wallet, Signer, Blockhash, Metadata, Check>>
                       \o EnsureAta \o EnsureAta
                       \o <<Sign, Submit(NoKey)>>
burn_tokens         == <<Wallet, Signer, Blockhash, Metadata, Check, Build,
                         Sign, Submit(NoKey)>>
get_token_info      == <<Metadata, Find>>
get_token_balance   == <<Check, Find, Metadata>>
list_token_holdings == <<Find>>

(***************************************************************************)
(* deploy.ts.                                                              *)
(***************************************************************************)
deploy_evm_contract  == <<Wallet, Signer, Check, Blockhash, Sign, Build, Sign,
                          Submit(NoKey)>>
deploy_wasm_contract == <<Wallet, Signer, Blockhash, Build, Sign,
                          Submit(NoKey)>>
deploy_move_module   == <<Wallet, Signer, Blockhash, Build, Sign,
                          Submit(NoKey)>>
deploy_svm_program   == <<Wallet, Signer, Blockhash, Build, Sign,
                          Submit(NoKey)>>

(***************************************************************************)
(* contract.ts and cross-vm.ts.  call_contract never submits: a read_only  *)
(* EVM call is an eth_call, everything else answers without an RPC call.   *)
(***************************************************************************)
call_contract            == <<Check, Await>>
read_contract            == <<Check, Await>>
encode_calldata          == <<Check>>
get_contract_info        == <<Check, Find>>
cross_vm_call            == <<Wallet, Signer, Blockhash, Build, Sign,
                              Submit(NoKey)>>
resolve_cross_vm_address == <<Check, Await>>
inspect_uth              == <<Find, Check>>

(***************************************************************************)
(* staking.ts.                                                             *)
(***************************************************************************)
create_stake     == <<Wallet, Signer, Keypair, Check, Blockhash, Sign,
                      Submit(NoKey)>>
delegate_stake   == <<Wallet, Tolerate, Check, Signer, Blockhash, Build, Sign,
                      Submit(NoKey)>>
deactivate_stake == <<Wallet, Signer, Blockhash, Build, Sign, Submit(NoKey)>>
withdraw_stake   == <<Wallet, Signer, Await, Blockhash, Build, Sign,
                      Submit(NoKey)>>
get_stake_info   == <<Await>>

(***************************************************************************)
(* zk.ts.                                                                  *)
(***************************************************************************)
zk_prove     == <<Wallet, Signer, Blockhash, Build, Sign, Submit(NoKey)>>
zk_verify    == <<Wallet, Signer, Blockhash, Build, Sign, Submit(NoKey)>>
zk_bn254_ops == <<Check, Find>>

(***************************************************************************)
(* agent.ts.  The agent account is the target.                             *)
(***************************************************************************)
create_agent == <<Wallet, Signer, Keypair, Check, Blockhash, Sign,
                  Submit({"payer", "fresh", "hash"})>>
list_agents  == <<MaybeActive, Tolerate, Tolerate>>
get_agent    == <<Find>>
pause_agent  == <<Wallet, Signer, Blockhash, Build, Sign,
                  Submit({"target", "hash"})>>
resume_agent == <<Wallet, Signer, Blockhash, Build, Sign,
                  Submit({"target", "hash"})>>

(***************************************************************************)
(* a2a.ts.  The agent account or the channel is the target.                *)
(***************************************************************************)
create_a2a_channel == <<ActiveWallet, Signer, Check, Blockhash, Build, Sign,
                        Submit({"payer", "target", "hash"})>>
send_a2a_message   == <<Unavailable>>
read_a2a_messages  == <<Find>>
list_a2a_channels  == <<ActiveWallet, Signer, Tolerate>>
close_a2a_channel  == <<ActiveWallet, Signer, Blockhash, Build, Sign,
                        Submit({"target", "payer", "hash"})>>

(***************************************************************************)
(* mcp-program.ts.  The service's name is the target.                      *)
(***************************************************************************)
register_mcp_service == <<ActiveWallet, Signer, Check, Blockhash, Build, Sign,
                          Submit({"target", "payer", "hash"})>>
call_mcp_service     == <<ActiveWallet, Signer, Find, Check, Blockhash, Build,
                          Sign, Submit({"target", "payer", "hash"})>>
list_mcp_services    == <<Tolerate>>
get_mcp_service      == <<MaybeActive, Await, Find>>

(***************************************************************************)
(* swarm.ts.  The swarm (and the proposal voted on) is the target, the     *)
(* stake, the proposed text or the vote is the content.                    *)
(***************************************************************************)
create_swarm  == <<Unavailable>>
join_swarm    == <<ActiveWallet, Signer, Check, Blockhash, Build, Sign,
                   Submit({"target", "payer", "hash"})>>
swarm_propose == <<ActiveWallet, Signer, Check, Blockhash, Build, Sign,
                   Submit({"target", "payer", "hash"})>>
swarm_vote    == <<ActiveWallet, Signer, Check, Blockhash, Build, Sign,
                   Submit({"target", "payer", "hash"})>>
get_swarm     == <<Find>>

(***************************************************************************)
(* batch.ts.  batch_query runs its queries in parallel and tolerates the   *)
(* failure of each; batch_execute runs operations of a fixed table, reads  *)
(* and the faucet, one after the other, and ends an operation as soon as   *)
(* the RPC call answers.                                                   *)
(***************************************************************************)
batch_query   == <<Tolerate>>
batch_execute == <<InEntry(Await, 1), InEntry(Faucet, 2)>>

(***************************************************************************)
(* foundry.ts and anchor.ts: external toolchains in a shared directory.    *)
(***************************************************************************)
forge_compile   == <<Check, Workspace, Forge, Artifact>>
forge_create    == <<Check, Wallet, Workspace, Forge, Artifact, Await, Signer,
                     Blockhash, Sign, Sign, Submit(NoKey)>>
cast_call       == <<Check, Cast>>
cast_abi_encode == <<Check, Await>>
anchor_init     == <<Check, Await>>
anchor_build    == <<Check, Await, Await, Await>>
anchor_test     == <<Check, Await>>

(***************************************************************************)
(* beckn-flows.ts, credentials-tools.ts, banking-tools.ts: HTTP proxies.   *)
(***************************************************************************)
beckn_search        == <<Await>>
beckn_select        == <<Await>>
beckn_init          == <<Await>>
beckn_confirm       == <<Await>>
beckn_rate          == <<Await>>
credential_request  == <<Await>>
credential_attach   == <<Await>>
credential_verify   == <<Check, Await>>
credential_revoke   == <<Await>>
bank_open_checking  == <<Await>>
bank_onramp         == <<Await>>
bank_offramp        == <<Await>>
bank_wire           == <<Await>>
bank_transfer_funds == <<Check, Await>>

(***************************************************************************)
(* registerAllTools: the tools the server offers.                          *)
(***************************************************************************)
Handlers ==
  [get_balance |-> get_balance, get_account |-> get_account,
   get_transaction |-> get_transaction, get_block |-> get_block,
   search |-> search, get_chain_stats |-> get_chain_stats,
   get_block_height |-> get_block_height,
   get_account_transactions |-> get_account_transactions,
   query_memos |-> query_memos, list_validators |-> list_validators,
   get_epoch_info |-> get_epoch_info, get_vote_accounts |-> get_vote_accounts,
   airdrop |-> airdrop, get_health |-> get_health,
   create_wallet |-> create_wallet, import_wallet |-> import_wallet,
   list_wallets |-> list_wallets, get_wallet |-> get_wallet,
   set_active_wallet |-> set_active_wallet, derive_address |-> derive_address,
   session_info |-> session_info, transfer_native |-> transfer_native,
   batch_transfer |-> batch_transfer, estimate_fee |-> estimate_fee,
   create_token |-> create_token, mint_tokens |-> mint_tokens,
   transfer_token |-> transfer_token, burn_tokens |-> burn_tokens,
   get_token_info |-> get_token_info, get_token_balance |-> get_token_balance,
   list_token_holdings |-> list_token_holdings,
   deploy_evm_contract |-> deploy_evm_contract,
   deploy_wasm_contract |-> deploy_wasm_contract,
   deploy_move_module |-> deploy_move_module,
   deploy_svm_program |-> deploy_svm_program, call_contract |-> call_contract,
   read_contract |-> read_contract, encode_calldata |-> encode_calldata,
   get_contract_info |-> get_contract_info, cross_vm_call |-> cross_vm_call,
   resolve_cross_vm_address |-> resolve_cross_vm_address,
   inspect_uth |-> inspect_uth, create_stake |-> create_stake,
   delegate_stake |-> delegate_stake, deactivate_stake |-> deactivate_stake,
   withdraw_stake |-> withdraw_stake, get_stake_info |-> get_stake_info,
   zk_prove |-> zk_prove, zk_verify |-> zk_verify,
   zk_bn254_ops |-> zk_bn254_ops, create_agent |-> create_agent,
   list_agents |-> list_agents, get_agent |-> get_agent,
   pause_agent |-> pause_agent, resume_agent |-> resume_agent,
   create_a2a_channel |-> create_a2a_channel,
   send_a2a_message |-> send_a2a_message,
   read_a2a_messages |-> read_a2a_messages,
   list_a2a_channels |-> list_a2a_channels,
   close_a2a_channel |-> close_a2a_channel,
   register_mcp_service |-> register_mcp_service,
   call_mcp_service |-> call_mcp_service,
   list_mcp_services |-> list_mcp_services,
   get_mcp_service |-> get_mcp_service, create_swarm |-> create_swarm,
   join_swarm |-> join_swarm, swarm_propose |-> swarm_propose,
   swarm_vote |-> swarm_vote, get_swarm |-> get_swarm,
   batch_query |-> batch_query, batch_execute |-> batch_execute,
   forge_compile |-> forge_compile, forge_create |-> forge_create,
   cast_call |-> cast_call, cast_abi_encode |-> cast_abi_encode,
   anchor_init |-> anchor_init, anchor_build |-> anchor_build,
   anchor_test |-> anchor_test, beckn_search |-> beckn_search,
   beckn_select |-> beckn_select, beckn_init |-> beckn_init,
   beckn_confirm |-> beckn_confirm, beckn_rate |-> beckn_rate,
   credential_request |-> credential_request,
   credential_attach |-> credential_attach,
   credential_verify |-> credential_verify,
   credential_revoke |-> credential_revoke,
   bank_open_checking |-> bank_open_checking, bank_onramp |-> bank_onramp,
   bank_offramp |-> bank_offramp, bank_wire |-> bank_wire,
   bank_transfer_funds |-> bank_transfer_funds]

(***************************************************************************)
(* TOOL_CAPS (src/tools/index.ts): the capability each tool asks for.      *)
(* query_memos has no row, so that no capability is asked for.             *)
(***************************************************************************)
CapsTable ==
  {<<"wallet:read", {"get_balance", "list_wallets", "get_wallet",
        "set_active_wallet", "derive_address", "session_info"}>>,
   <<"account:read", {"get_account", "get_account_transactions"}>>,
   <<"block:read", {"get_transaction", "get_block", "get_block_height"}>>,
   <<"chain:read", {"search", "get_chain_stats", "get_health",
        "estimate_fee", "resolve_cross_vm_address", "inspect_uth",
        "batch_query"}>>,
   <<"validator:read", {"list_validators", "get_epoch_info",
        "get_vote_accounts", "get_stake_info"}>>,
   <<"transfer:write", {"airdrop", "transfer_native", "batch_transfer"}>>,
   <<"wallet:create", {"create_wallet", "import_wallet"}>>,
   <<"token:write", {"create_token", "mint_tokens", "transfer_token",
        "burn_tokens"}>>,
   <<"token:read", {"get_token_info", "get_token_balance",
        "list_token_holdings"}>>,
   <<"deploy:write", {"deploy_evm_contract", "deploy_wasm_contract",
        "deploy_move_module", "deploy_svm_program", "forge_create",
        "anchor_init", "anchor_build", "anchor_test"}>>,
   <<"contract:write", {"call_contract", "cast_call"}>>,
   <<"contract:read", {"read_contract", "encode_calldata",
        "get_contract_info", "forge_compile", "cast_abi_encode"}>>,
   <<"crossvm:write", {"cross_vm_call"}>>,
   <<"stake:write", {"create_stake", "delegate_stake", "deactivate_stake",
        "withdraw_stake"}>>,
   <<"zk:write", {"zk_prove", "zk_verify", "zk_bn254_ops"}>>,
   <<"agent:write", {"create_agent", "pause_agent", "resume_agent"}>>,
   <<"agent:read", {"list_agents", "get_agent"}>>,
   <<"a2a:write", {"create_a2a_channel", "send_a2a_message",
        "close_a2a_channel"}>>,
   <<"a2a:read", {"read_a2a_messages", "list_a2a_channels"}>>,
   <<"mcp_program:write", {"register_mcp_service", "call_mcp_service"}>>,
   <<"mcp_program:read", {"list_mcp_services", "get_mcp_service"}>>,
   <<"swarm:write", {"create_swarm", "join_swarm", "swarm_propose",
        "swarm_vote"}>>,
   <<"swarm:read", {"get_swarm"}>>,
   <<"batch:write", {"batch_execute"}>>,
   <<"beckn:read", {"beckn_search"}>>,
   <<"beckn:write", {"beckn_select", "beckn_init", "beckn_confirm",
        "beckn_rate"}>>,
   <<"credential:write", {"credential_request", "credential_attach",
        "credential_revoke"}>>,
   <<"credential:read", {"credential_verify"}>>,
   <<"bank:write", {"bank_open_checking", "bank_onramp", "bank_offramp",
        "bank_wire", "bank_transfer_funds"}>>}
TOOL_CAPS(t) == {row[1] : row \in {r \in CapsTable : t \in r[2]}}

(***************************************************************************)
(* CAPABILITY_SCOPES (src/gateway/session.ts).  createSession is called    *)
(* without a capability list by every login route, so a session holds all  *)
(* of these, whatever OAuth scope was asked for.                           *)
(***************************************************************************)
CAPABILITY_SCOPES ==
  {"wallet:read", "wallet:create", "account:read", "token:read",
   "token:write", "block:read", "chain:read", "validator:read",
   "contract:read", "transfer:write", "deploy:write", "contract:write",
   "stake:write", "vote:write", "agent:write", "agent:read", "crossvm:write",
   "batch:write", "zk:write", "a2a:read", "a2a:write", "mcp_program:read",
   "mcp_program:write", "swarm:read", "swarm:write", "subscription:write",
   "security:admin", "session:admin", "policy:admin", "webhook:admin"}
=============================================================================
