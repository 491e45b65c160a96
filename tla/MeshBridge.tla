----------------------------- MODULE MeshBridge -----------------------------
(***************************************************************************)
(* The lock/release contract on Ethereum (mesh/contracts/                  *)
(* EtoMeshBridge.sol).  A transaction is atomic except for the external    *)
(* call at the end of release: while it runs the recipient may call back,  *)
(* lock again with what it received, or attempt a release; when it         *)
(* reverts, everything since release began is undone.  Ether may be forced *)
(* into the contract without a call.                                       *)
(***************************************************************************)
EXTENDS Naturals, FiniteSets

CONSTANTS
  Attestation,  \* attestation ids
  Wei,          \* amounts a lock or a release may carry
  MaxBalance    \* bound: ether that ever enters the contract

BridgeAssumption == Wei \subseteq Nat /\ MaxBalance \in Nat

VARIABLES
  balance,           \* address(this).balance
  totalLocked,
  nonce,
  usedAttestations,
  status,            \* _reentrancyStatus
  outer,             \* during the external call, the state release began in
  paid               \* <<id, amount>> of the external calls that moved ether

storage == <<balance, totalLocked, nonce, usedAttestations, status, paid>>

vars == <<balance, totalLocked, nonce, usedAttestations, status, outer, paid>>

NoRelease == <<>>

TypeOK ==
  /\ balance \in 0 .. MaxBalance
  /\ totalLocked \in Nat
  /\ nonce \in Nat
  /\ usedAttestations \subseteq Attestation
  /\ status \in {"NOT_ENTERED", "ENTERED"}

Init ==
  /\ balance = 0
  /\ totalLocked = 0
  /\ nonce = 0
  /\ usedAttestations = {}
  /\ status = "NOT_ENTERED"
  /\ outer = NoRelease
  /\ paid = {}

\* The ether in circulation here is bounded: what was paid may come back.
MayEnter(w) == balance + w <= MaxBalance

\* lock has no guard: it may run inside release's external call.
lock(w) ==
  /\ w > 0
  /\ MayEnter(w)
  /\ nonce < MaxBalance
  /\ nonce' = nonce + 1
  /\ totalLocked' = totalLocked + w
  /\ balance' = balance + w
  /\ UNCHANGED <<usedAttestations, status, outer, paid>>

\* A selfdestruct or a coinbase reward: no code of the contract runs.
ForceSend(w) ==
  /\ MayEnter(w)
  /\ balance' = balance + w
  /\ UNCHANGED <<totalLocked, nonce, usedAttestations, status, outer, paid>>

\* Mutant: effects after the interaction, so that the attestation is not yet
\* marked while the recipient runs, and no guard against reentrance.
releaseUnguarded(w, id) ==
  /\ id \notin usedAttestations
  /\ balance >= w
  /\ Cardinality(paid) < 3
  /\ totalLocked' = IF w <= totalLocked THEN totalLocked - w ELSE 0
  /\ nonce' = nonce + 1
  /\ status' = "ENTERED"
  /\ balance' = balance - w
  /\ paid' = paid \cup {<<id, w, nonce>>}
  /\ outer' = storage
  /\ UNCHANGED usedAttestations

\* release by the validator up to the external call, which moves the ether.
release(w, id) ==
  /\ status = "NOT_ENTERED"
  /\ id \notin usedAttestations
  /\ balance >= w
  /\ usedAttestations' = usedAttestations \cup {id}
  /\ totalLocked' = IF w <= totalLocked THEN totalLocked - w ELSE 0
  /\ nonce' = nonce + 1
  /\ status' = "ENTERED"
  /\ balance' = balance - w
  /\ paid' = paid \cup {<<id, w, nonce>>}
  /\ outer' = storage

\* The recipient returns; or it reverts, and the transaction with it.
Returned ==
  /\ outer # NoRelease
  /\ status' = "NOT_ENTERED"
  /\ outer' = NoRelease
  /\ UNCHANGED <<balance, totalLocked, nonce, usedAttestations, paid>>

Reverted ==
  /\ outer # NoRelease
  /\ balance' = outer[1]
  /\ totalLocked' = outer[2]
  /\ nonce' = outer[3]
  /\ usedAttestations' = outer[4]
  /\ status' = outer[5]
  /\ paid' = outer[6]
  /\ outer' = NoRelease

Next ==
  \/ \E w \in Wei : lock(w) \/ ForceSend(w)
  \/ \E w \in Wei, id \in Attestation : release(w, id)
  \/ Returned
  \/ Reverted

Spec == Init /\ [][Next]_vars

-----------------------------------------------------------------------------
(***************************************************************************)
(* The contract stays solvent: its ether covers what it counts as locked,  *)
(* also in the middle of a release, after reverts, reentrant locks and     *)
(* forced ether; and an attestation pays out at most once.                 *)
(***************************************************************************)
BridgeSound ==
  /\ balance >= totalLocked
  /\ \A p, q \in paid : p[1] = q[1] => p = q
=============================================================================
