---------------------------- MODULE MeshValidator ----------------------------
(***************************************************************************)
(* The mesh validator (mesh/validator.ts): one process that watches both   *)
(* chains, stores signed attestations of what it saw, and serves an HTTP   *)
(* API: /attest, /attest-balance, /transfer behind a bearer token and a    *)
(* rate limit, /verify open.  Requests and the polling loop interleave at  *)
(* every RPC.                                                              *)
(***************************************************************************)
EXTENDS Naturals, FiniteSets

CONSTANTS
  Request,     \* HTTP requests to the API
  Address,     \* accounts that requests name
  Amount,      \* amounts of transfers and credits that BigInt and the nodes take
  Bodies,      \* bound: the request bodies that arrive
  Funds,       \* <<chain, address>> -> balance before the first request
  Limit,       \* MESH_RATE_LIMIT_PER_MIN
  MaxHeight,   \* bound: last block of either chain
  MaxLoops     \* bound: rounds of the polling loop

VARIABLES
  height,       \* chain -> block height
  balance,      \* <<chain, address>> -> balance
  reqs,         \* request -> progress
  attestations, \* the attestations stored: [for, att]; for is history
  credited,     \* request -> credits that landed on the destination chain
  bucket,       \* [count, late]: the rate-limit window, late once 60 s passed
  loop          \* the polling loop: [pc, seen, n]

vars == <<height, balance, reqs, attestations, credited, bucket, loop>>

Chain == {"eto-testnet", "eth-devnet"}

\* Chain names come from the body unchecked: "other" is any name but the two.
Name == Chain \cup {"other"}

Other(n) == IF n = "eto-testnet" THEN "eth-devnet" ELSE "eto-testnet"

\* The chain a name is read on, and the one it is credited on: the handlers
\* compare with "eth-devnet" for the first and "eto-testnet" for the second.
ReadOn(n)     == IF n = "eth-devnet" THEN "eth-devnet" ELSE "eto-testnet"
CreditedOn(n) == IF n = "eto-testnet" THEN "eto-testnet" ELSE "eth-devnet"

VALIDATOR_ADDRESS == "validator"

\* Request bodies; only a transfer names a destination and an amount.
Body == [path : {"/attest"}, chain : Name]
          \cup [path : {"/attest-balance"}, chain : Name, address : Address]
          \cup [path : {"/transfer"}, chain : Name, address : Address,
                to : Name, dest : Address, amount : Amount]

MeshAssumption == /\ IsFiniteSet(Request) /\ Amount \subseteq Nat /\ Bodies \subseteq Body
                  /\ Funds \in [Chain \X Address -> Nat]
                  /\ Limit \in Nat /\ MaxHeight \in Nat

Idle == [pc |-> "idle"]

TypeOK ==
  /\ height \in [Chain -> 0 .. MaxHeight]
  /\ balance \in [Chain \X Address -> Nat]
  /\ credited \in [Request -> 0 .. 2]
  /\ bucket \in [count : 0 .. Limit + Cardinality(Request), late : BOOLEAN]
  /\ loop.pc \in {"read", "eto", "eth"}
  /\ \A r \in Request :
       reqs[r].pc \in {"idle", "balance", "block", "state", "credit", "done"}

Init ==
  /\ height = [c \in Chain |-> 0]
  /\ balance = Funds
  /\ reqs = [r \in Request |-> Idle]
  /\ attestations = {}
  /\ credited = [r \in Request |-> 0]
  /\ bucket = [count |-> 0, late |-> FALSE]
  /\ loop = [pc |-> "read", seen |-> [c \in Chain |-> 0], n |-> 0]

-----------------------------------------------------------------------------
(* Attestations: the signature is over the hash of the JSON of the data.   *)

signAttestation(data) == [key |-> VALIDATOR_ADDRESS, msg |-> data]

Attested(data) ==
  [f \in DOMAIN data \cup {"signature"} |->
     IF f = "signature" THEN signAttestation(data) ELSE data[f]]

\* createStateAttestation: the block height stands for the hash and the root.
createStateAttestation(chain, block, dest) ==
  Attested([type |-> "state", sourceChain |-> chain, destChain |-> dest,
            sourceBlock |-> block, data |-> [block |-> block], validator |-> VALIDATOR_ADDRESS])

createBalanceAttestation(name, address, bal, block) ==
  Attested([type |-> "balance", sourceChain |-> name, destChain |-> Other(name),
            sourceBlock |-> block, data |-> [address |-> address, balance |-> bal],
            validator |-> VALIDATOR_ADDRESS])

\* The verifier takes signature AND validator off before it hashes the rest.
verifyAttestation(att) ==
  /\ att.signature.key = att.validator
  /\ att.signature.msg = [f \in DOMAIN att \ {"signature", "validator"} |-> att[f]]

storeAttestation(who, att) ==
  attestations' = attestations \cup {[for |-> who, att |-> att]}

-----------------------------------------------------------------------------
(* The API.                                                                *)

\* checkRateLimit: a request past the minute opens a new window; it counts
\* refused requests too.
Counted == IF bucket.late THEN 1 ELSE bucket.count + 1

\* A request arrives: checkAuth, then checkRateLimit; a request without the
\* token is refused before it is counted.
Arrive(r, body, authorized) ==
  /\ reqs[r].pc = "idle"
  /\ bucket' = IF authorized THEN [count |-> Counted, late |-> FALSE] ELSE bucket
  /\ reqs' = [reqs EXCEPT ![r] =
       [pc |-> IF ~authorized \/ Counted > Limit THEN "done"
               ELSE IF body.path = "/attest" THEN "state" ELSE "balance",
        body |-> body, bal |-> 0,
        status |-> IF ~authorized THEN "401" ELSE IF Counted > Limit THEN "429"
                   ELSE "pending"]]
  /\ UNCHANGED <<height, balance, attestations, credited, loop>>

\* An RPC of the handler throws: the request ends in an error, and a transfer
\* stays "pending" in the list for good.
RpcFails(r) ==
  /\ reqs[r].pc \in {"balance", "block", "state"}
  /\ reqs' = [reqs EXCEPT ![r].pc = "done"]
  /\ UNCHANGED <<height, balance, attestations, credited, bucket, loop>>

Transfer(r) == reqs[r].body.path = "/transfer"

Source(r) == ReadOn(reqs[r].body.chain)

\* getEthBalance / getEtoBalance.
ReadBalance(r) ==
  /\ reqs[r].pc = "balance"
  /\ reqs' = [reqs EXCEPT ![r].bal = balance[<<Source(r), reqs[r].body.address>>],
                          ![r].pc = "block"]
  /\ UNCHANGED <<height, balance, attestations, credited, bucket, loop>>

\* Mutant: the balance is attested but not compared with the amount.
CoversAny(r, b) == TRUE

Covers(r, b) == Transfer(r) => b >= reqs[r].body.amount

\* eth_blockNumber / getBlockHeight, read after the balance; then a transfer
\* larger than the balance fails, else the balance attestation is stored.
ReadBlock(r) ==
  /\ reqs[r].pc = "block"
  /\ IF Covers(r, reqs[r].bal)
       THEN /\ storeAttestation(r,
                 createBalanceAttestation(reqs[r].body.chain, reqs[r].body.address,
                                          reqs[r].bal, height[Source(r)]))
            /\ reqs' = [reqs EXCEPT ![r].pc = IF Transfer(r) THEN "state" ELSE "done",
                                    ![r].status = IF Transfer(r) THEN @ ELSE "ok"]
       ELSE /\ reqs' = [reqs EXCEPT ![r].pc = "done", ![r].status = "failed"]
            /\ UNCHANGED attestations
  /\ UNCHANGED <<height, balance, credited, bucket, loop>>

\* getEtoState / getEthState and the state attestation, of /attest and of a
\* transfer's source chain.
AttestState(r) ==
  /\ reqs[r].pc = "state"
  /\ storeAttestation(r,
       createStateAttestation(Source(r), height[Source(r)],
                              IF Transfer(r) THEN reqs[r].body.to ELSE Other(Source(r))))
  /\ reqs' = [reqs EXCEPT ![r].pc = IF Transfer(r) THEN "credit" ELSE "done",
                          ![r].status = IF Transfer(r) THEN @ ELSE "ok"]
  /\ UNCHANGED <<height, balance, credited, bucket, loop>>

\* The faucet of ETO, or eth_sendTransaction from the funded account: the
\* credit may land while its reply is lost, and the source is not debited.
Credit(r, lands, replies) ==
  /\ reqs[r].pc = "credit"
  /\ replies => lands
  /\ IF lands
       THEN /\ credited' = [credited EXCEPT ![r] = @ + 1]
            /\ balance' = [balance EXCEPT
                 ![<<CreditedOn(reqs[r].body.to), reqs[r].body.dest>>] = @ + reqs[r].body.amount]
       ELSE UNCHANGED <<credited, balance>>
  /\ reqs' = [reqs EXCEPT ![r].pc = "done",
                          ![r].status = IF replies THEN "settled" ELSE "failed"]
  /\ UNCHANGED <<height, attestations, bucket, loop>>

-----------------------------------------------------------------------------
(* The polling loop: both states are read, then attested one by one; an    *)
(* error ends the round.                                                   *)
LoopRead ==
  /\ loop.pc = "read"
  /\ loop.n < MaxLoops
  /\ loop' = [pc |-> "eto", seen |-> height, n |-> loop.n + 1]
  /\ UNCHANGED <<height, balance, reqs, attestations, credited, bucket>>

LoopAttest(c) ==
  /\ loop.pc = IF c = "eto-testnet" THEN "eto" ELSE "eth"
  /\ storeAttestation("loop", createStateAttestation(c, loop.seen[c], Other(c)))
  /\ loop' = [loop EXCEPT !.pc = IF c = "eto-testnet" THEN "eth" ELSE "read"]
  /\ UNCHANGED <<height, balance, reqs, credited, bucket>>

\* External: blocks are produced, an address spends, the minute passes.
NewBlock(c) ==
  /\ height[c] < MaxHeight
  /\ height' = [height EXCEPT ![c] = @ + 1]
  /\ UNCHANGED <<balance, reqs, attestations, credited, bucket, loop>>

Spend(at) ==
  /\ balance[at] > 0
  /\ balance' = [balance EXCEPT ![at] = 0]
  /\ UNCHANGED <<height, reqs, attestations, credited, bucket, loop>>

MinutePasses ==
  /\ bucket.count > 0 /\ ~bucket.late
  /\ bucket' = [bucket EXCEPT !.late = TRUE]
  /\ UNCHANGED <<height, balance, reqs, attestations, credited, loop>>

Next ==
  \/ \E r \in Request :
       \/ \E body \in Bodies, authorized \in BOOLEAN : Arrive(r, body, authorized)
       \/ RpcFails(r) \/ ReadBalance(r) \/ ReadBlock(r) \/ AttestState(r)
       \/ \E lands, replies \in BOOLEAN : Credit(r, lands, replies)
  \/ LoopRead
  \/ \E c \in Chain : LoopAttest(c) \/ NewBlock(c)
  \/ \E at \in Chain \X Address : Spend(at)
  \/ MinutePasses

Spec == Init /\ [][Next]_vars

-----------------------------------------------------------------------------
(***************************************************************************)
(* No credit without its evidence: whatever the interleaving of requests,  *)
(* blocks and spending, a credit is preceded by a stored attestation, made *)
(* for this request, of the very balance that was judged: the one read for *)
(* the account it names, under the chain name it gave, and enough for the  *)
(* amount; and by a state attestation, made for it too, of the chain that  *)
(* was read, no older than that.  It lands at most once per request, and a *)
(* settled transfer was credited.  A name that is neither chain is read as *)
(* ETO, so the two attestations of such a request name different sources.  *)
(***************************************************************************)
CreditAttested ==
  \A r \in Request :
    /\ credited[r] <= 1
    /\ reqs[r].pc = "done" /\ reqs[r].status = "settled" => credited[r] = 1
    /\ credited[r] = 1 =>
         LET body == reqs[r].body
             Made == {a.att : a \in {e \in attestations : e.for = r}}
         IN  \E b, s \in Made :
               /\ b.type = "balance" /\ b.sourceChain = body.chain
               /\ b.data = [address |-> body.address, balance |-> reqs[r].bal]
               /\ reqs[r].bal >= body.amount
               /\ s.type = "state" /\ s.sourceChain = Source(r) /\ s.destChain = body.to
               /\ s.sourceBlock >= b.sourceBlock

(***************************************************************************)
(* The validator's header: it "produces signed attestations that can be    *)
(* verified on either side".  Every attestation it stored passes /verify.  *)
(***************************************************************************)
OwnAttestationVerifies == \A e \in attestations : verifyAttestation(e.att)
=============================================================================
