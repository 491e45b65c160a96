---------------------------- MODULE MCToolServer ----------------------------
(***************************************************************************)
(* Two calls of the same tool, for every tool, by two callers (or one) who *)
(* each own a wallet; and the pairs of different tools that share state.   *)
(***************************************************************************)
EXTENDS ToolServer

MCWalletsOf == [s \in Scopes |-> {s}]
Request(t, s, w, x) == [tool |-> t, scope |-> s, wallet |-> w, target |-> "t",
                        content |-> x, memo |-> <<>>, idempotency_key |-> <<>>]
Uses(t, op) == \E i \in DOMAIN Handlers[t] : Handlers[t][i].op = op

(* The first call relies on the active wallet, the second names its own    *)
(* where the tool takes a wallet argument.                                 *)
Arg(t, s, named) ==
  IF named \/ ~Uses(t, "wallet") THEN IF Uses(t, "active") THEN None ELSE s ELSE None
MCActives == {[s \in Scopes |-> None], [s \in Scopes |-> s]}
Pair(t, s1, w1, x1, u, s2, w2, x2) ==
  [c \in {"c1", "c2"} |-> IF c = "c1" THEN Request(t, s1, w1, x1)
                          ELSE Request(u, s2, w2, x2)]
Keyed(t) == \E i \in DOMAIN Handlers[t] : Handlers[t][i].key # NoKey
Partners(t) == CASE t = "forge_create"  -> {"forge_compile", "forge_create"}
                 [] t = "set_active_wallet" -> {"join_swarm"}
                 [] Uses(t, "ata") -> {"get_token_info"}
                 [] OTHER -> {t}
(* Callers and contents differ where calls can be joined, else they agree. *)
Seconds(t) == IF Keyed(t) THEN {<<"a", 1>>, <<"a", 2>>, <<"b", 1>>} ELSE {<<"a", 1>>}
(* Tools with the same steps behave alike: one of them stands for all. *)
Tools == {CHOOSE t \in DOMAIN Handlers : Handlers[t] = Handlers[u] : u \in DOMAIN Handlers}
MCLoads ==
  UNION {{Pair(t, "a", Arg(t, "a", FALSE), 1, u, d[1], Arg(u, d[1], TRUE), d[2]) :
            u \in Partners(t), d \in Seconds(t)}
           : t \in Tools \ {"batch_transfer"}}
Batches == {Pair("batch_transfer", "a", "a", 1, "deactivate_stake", "a", "a", 1)}
Switches == {Pair("pause_agent", "a", "a", 1, "resume_agent", "a", "a", 1)}
(* Memo "a" under the key "b", and memo "a-i:b" under none. *)
Alike == {[Pair("transfer_native", "a", "a", 1, "transfer_native", "a", "a", 1)
             EXCEPT !["c1"].memo = <<"a">>, !["c1"].idempotency_key = <<"b">>,
                    !["c2"].memo = <<"a", "-i:", "b">>]}
AllLoads == MCLoads \cup Batches \cup Switches \cup Alike
(* The same transfer twice, each with an idempotency_key of its own. *)
TwiceLoads == {[c \in {"c1", "c2"} |->
                  [Request("transfer_native", "a", "a", 1) EXCEPT !.idempotency_key = <<c>>]]}
=============================================================================
