----------------------------- MODULE MCGateway -----------------------------
(* Values for TLC of what Gateway leaves open; the rest is in the configs. *)
EXTENDS Gateway, TLC

JobSymmetry == Permutations(Job)

\* Callbacks and requests of peers: the honest one, and one for each gate.
Sig(k) == [created |-> 0, expires |-> 0, key |-> k, signer |-> k]
Confirmed == [route |-> "on_confirm", txn |-> "t", uuid |-> TRUE, flaw |-> "none", at |-> 0,
              ttl |-> None, auth |-> Sig("bpp"), bpp |-> "bpp", state |-> "COMPLETED",
              reply |-> FALSE]
BecknMsgs ==
  {Confirmed, [Confirmed EXCEPT !.state = "ACCEPTED"], [Confirmed EXCEPT !.auth = None],
   [Confirmed EXCEPT !.auth = [Sig("bpp") EXCEPT !.signer = "else"]],
   [Confirmed EXCEPT !.bpp = "stranger"], [Confirmed EXCEPT !.flaw = "version"],
   [Confirmed EXCEPT !.ttl = [n |-> 1, unit |-> "TS"]],
   [Confirmed EXCEPT !.ttl = [n |-> 5, unit |-> "TM"]],
   [Confirmed EXCEPT !.route = "search", !.txn = "s"],
   [Confirmed EXCEPT !.route = "select", !.auth = None],
   [Confirmed EXCEPT !.route = "on_search"], [Confirmed EXCEPT !.route = "on_select"],
   [Confirmed EXCEPT !.route = "init"],
   [Confirmed EXCEPT !.route = "confirm", !.flaw = "oversized"]}
BecknTriggers == {[kind |-> "search", hash |-> "h1", life |-> 0, bpp |-> "bpp"],
                  [kind |-> "confirm", hash |-> "h2", life |-> 0, bpp |-> "bpp"]}

\* Rows of two providers, interleaved, with and without items.
Row(p, n) == [provider |-> p, items |-> IF n = 0 THEN <<>> ELSE <<n>>]
CallbackRows ==
  UNION {[1 .. n -> {Row("p", 0), Row("p", 1), Row("q", 2), Row("p", 3)}] : n \in 0 .. 3}

\* Transfers both ways, one that needs an earlier credit, and odd chain names.
MeshTransfer(from, address, to, dest, amount) ==
  [path |-> "/transfer", chain |-> from, address |-> address, to |-> to, dest |-> dest,
   amount |-> amount]
MeshBodies ==
  {[path |-> "/attest", chain |-> "other"],
   [path |-> "/attest-balance", chain |-> "other", address |-> "a"],
   MeshTransfer("eth-devnet", "a", "eto-testnet", "b", 1),
   MeshTransfer("eto-testnet", "b", "eth-devnet", "a", 2),
   MeshTransfer("other", "b", "other", "a", 1)}
MeshFunds ==
  [at \in {"eto-testnet", "eth-devnet"} \X Address |->
     IF at \in {<<"eth-devnet", "a">>, <<"eto-testnet", "b">>} THEN 1 ELSE 0]
MCPerMinute == ("read" :> 3) @@ ("deploy" :> 1)
=============================================================================
