------------------------------ MODULE BankMoney ------------------------------
(***************************************************************************)
(* The handlers of the bank BPP that move money, keeper/bpps/bank/handlers: *)
(* executeOnramp, executeOfframp and executeWire.  Each is a sequence of   *)
(* calls to external systems (payment rails, chain, operations desk); every*)
(* call may succeed, be refused, or take effect and lose its reply, and    *)
(* the handlers differ in what they do then.                               *)
(*                                                                         *)
(* The state of the outside world is the set of effects each operation has *)
(* had; balances are computed from it.  Amounts are atomic eUSD units, of  *)
(* which CentSize make a cent.                                             *)
(***************************************************************************)
EXTENDS Integers, FiniteSets, Sums

CONSTANTS
  Op,          \* requests, each made at most once
  Ref,         \* external payment references
  Cents,       \* values of usd_amount_cents an onramp may name
  Atomic,      \* values of eusd_amount_atomic / amount
  CentSize,    \* 10_000: atomic units in a cent
  FeeDivisor,  \* ONE_BIP_DIVISOR of fee.ts
  WireFee,     \* the flat fee of a wire
  Fault,       \* what may go wrong
  None

Kind == {"onramp", "offramp", "wire"}

MoneyAssumption ==
  /\ Cents \subseteq Int /\ Atomic \subseteq Int
  /\ CentSize \in Nat \ {0} /\ FeeDivisor \in Nat \ {0} /\ WireFee \in Nat
  /\ IsFiniteSet(Op) /\ IsFiniteSet(Ref)
  /\ Fault \subseteq {"refused", "lost_reply", "crash"}
  /\ None \notin Ref \cup Kind

Effect == {"mint", "burn", "push", "remit", "flag", "lock", "release", "refund"}
PC     == {"idle", "pull", "mint", "burn", "push", "flag", "remit",
           "lock", "release", "refund", "done"}
Result == {"none", "completed", "rejected", "usd_pull_failed", "mint_failed",
           "burn_failed", "push_failed_post_burn", "lock_failed",
           "release_failed", "pull_error", "remit_error", "flag_error", "lost"}

VARIABLES
  pc,       \* the next external call of an operation
  kind,     \* which handler runs it
  amount,   \* the amount it names (atomic units; an onramp's gross)
  ref,      \* external_payment_ref of an onramp
  eff,      \* the effects an operation has had on the outside world
  unsure,   \* history: the effects whose reply was lost
  res,      \* how it was answered
  cleared   \* cents that really cleared under a payment reference

vars == <<pc, kind, amount, ref, eff, unsure, res, cleared>>
reqVars == <<kind, amount, ref, cleared>>

Amount == {c * CentSize : c \in Cents} \cup Atomic

TypeOK ==
  /\ pc \in [Op -> PC]
  /\ kind \in [Op -> Kind \cup {None}]
  /\ amount \in [Op -> Amount \cup {0}]
  /\ ref \in [Op -> Ref \cup {None}]
  /\ eff \in [Op -> SUBSET Effect]
  /\ unsure \in [Op -> SUBSET Effect]
  /\ res \in [Op -> Result]
  /\ cleared \in [Ref -> Cents \cup {0}]

Init ==
  /\ pc = [o \in Op |-> "idle"]
  /\ kind = [o \in Op |-> None]
  /\ amount = [o \in Op |-> 0]
  /\ ref = [o \in Op |-> None]
  /\ eff = [o \in Op |-> {}]
  /\ unsure = [o \in Op |-> {}]
  /\ res = [o \in Op |-> "none"]
  /\ cleared \in [Ref -> {c \in Cents : c > 0} \cup {0}]

-----------------------------------------------------------------------------
(* Fees and balances *)

\* oneBipFee: one basis point, rounded down; nothing of an amount <= 0.
OneBipFee(a) == IF a <= 0 THEN 0 ELSE a \div FeeDivisor

\* Mutant: the fee is not deducted.
NetGross(a) == a

Net(a) == a - OneBipFee(a)

\* atomicEusdToUsdCents rounds down; the push is worth this many units.
PushValue(a) == (Net(a) \div CentSize) * CentSize

Had(e)      == {o \in Op : e \in eff[o]}
Nets        == [o \in Op |-> Net(amount[o])]
Wired       == [o \in Op |-> amount[o] + WireFee]

\* eUSD in the holders' token accounts.
Circulating ==
  Sum(Nets, Had("mint")) - Sum(amount, Had("burn"))
    - Sum(Wired, Had("lock")) + Sum(Wired, Had("refund"))

-----------------------------------------------------------------------------
(* Steps *)

Goto(o, l) == pc' = [pc EXCEPT ![o] = l] /\ UNCHANGED res

Finish(o, r) ==
  /\ pc' = [pc EXCEPT ![o] = "done"]
  /\ res' = [res EXCEPT ![o] = r]

\* How an awaited external call ends: its effect took place or not, and the
\* handler saw it succeed or throw.
Reply == {"ok"} \cup (Fault \cap {"refused", "lost_reply"})

Effected(o, e, y) ==
  /\ eff' = IF y = "refused" THEN eff ELSE [eff EXCEPT ![o] = @ \cup {e}]
  /\ unsure' = IF y = "lost_reply" THEN [unsure EXCEPT ![o] = @ \cup {e}] ELSE unsure

\* A request arrives; malformed ones, those whose caller is not the holder and
\* those with an amount <= 0 are rejected before any call.
Arrive(o, k, a, f, valid) ==
  LET accepted == valid /\ a > 0 /\ (k = "offramp" => Net(a) > 0) IN
  /\ pc[o] = "idle"
  /\ kind' = [kind EXCEPT ![o] = k]
  /\ amount' = [amount EXCEPT ![o] = a]
  /\ ref' = [ref EXCEPT ![o] = f]
  /\ \/ ~accepted /\ Finish(o, "rejected")
     \/ /\ accepted
        /\ Goto(o, CASE k = "onramp"  -> "pull"
                     [] k = "offramp" -> "burn"
                     [] k = "wire"    -> "lock")
  /\ UNCHANGED <<eff, unsure, cleared>>

\* The call of "remitToTreasury" that ends both ramps is not guarded: when it
\* throws, the handler throws what it threw.
RemitToTreasury(o) ==
  /\ pc[o] = "remit"
  /\ \E y \in Reply :
       /\ Effected(o, "remit", y)
       /\ Finish(o, IF y = "ok" THEN "completed" ELSE "remit_error")
  /\ UNCHANGED reqVars

-----------------------------------------------------------------------------
(* executeOnramp *)

ArriveOnramp(o) ==
  \E c \in Cents, f \in Ref, v \in BOOLEAN : Arrive(o, "onramp", c * CentSize, f, v)

\* verifyUsdPull tells whether the cents cleared under the reference, however
\* often the reference was used before; it may throw.
VerifyUsdPull(o) ==
  /\ pc[o] = "pull"
  /\ \/ cleared[ref[o]] * CentSize = amount[o] /\ Goto(o, "mint")
     \/ cleared[ref[o]] * CentSize # amount[o] /\ Finish(o, "usd_pull_failed")
     \/ "refused" \in Fault /\ Finish(o, "pull_error")
  /\ UNCHANGED <<reqVars, eff, unsure>>

MintOnChain(o) ==
  /\ pc[o] = "mint"
  /\ \E y \in Reply :
       /\ Effected(o, "mint", y)
       /\ \/ y = "ok" /\ Goto(o, "remit")
          \/ y # "ok" /\ Finish(o, "mint_failed")
  /\ UNCHANGED reqVars

Onramp(o) == ArriveOnramp(o) \/ VerifyUsdPull(o) \/ MintOnChain(o)

-----------------------------------------------------------------------------
(* executeOfframp *)

ArriveOfframp(o) == \E a \in Atomic, v \in BOOLEAN : Arrive(o, "offramp", a, None, v)

\* The chain refuses to burn more than the holder has.
BurnOnChain(o) ==
  /\ pc[o] = "burn"
  /\ \E y \in Reply \cup {"refused"} :
       /\ y # "refused" => amount[o] <= Circulating
       /\ Effected(o, "burn", y)
       /\ \/ y = "ok" /\ Goto(o, "push")
          \/ y # "ok" /\ Finish(o, "burn_failed")
  /\ UNCHANGED reqVars

\* Mutant: a failed push is reported without opening a reconcile case.
PushUsdUnflagged(o) ==
  /\ pc[o] = "push"
  /\ \E y \in Reply :
       /\ Effected(o, "push", y)
       /\ \/ y = "ok" /\ Goto(o, "remit")
          \/ y # "ok" /\ Finish(o, "push_failed_post_burn")
  /\ UNCHANGED reqVars

PushUsd(o) ==
  /\ pc[o] = "push"
  /\ \E y \in Reply :
       /\ Effected(o, "push", y)
       /\ Goto(o, IF y = "ok" THEN "remit" ELSE "flag")
  /\ UNCHANGED reqVars

\* flagReconciliation in the catch block of the push: when it throws, its
\* error replaces push_failed_post_burn.
FlagReconciliation(o) ==
  /\ pc[o] = "flag"
  /\ \E y \in Reply :
       /\ Effected(o, "flag", y)
       /\ Finish(o, IF y = "ok" THEN "push_failed_post_burn" ELSE "flag_error")
  /\ UNCHANGED reqVars

Offramp(o) == ArriveOfframp(o) \/ BurnOnChain(o) \/ PushUsd(o) \/ FlagReconciliation(o)

-----------------------------------------------------------------------------
(* executeWire *)

ArriveWire(o) == \E a \in Atomic, v \in BOOLEAN : Arrive(o, "wire", a, None, v)

LockEscrow(o) ==
  /\ pc[o] = "lock"
  /\ \E y \in Reply \cup {"refused"} :
       /\ y # "refused" => amount[o] + WireFee <= Circulating
       /\ Effected(o, "lock", y)
       /\ \/ y = "ok" /\ Goto(o, "release")
          \/ y # "ok" /\ Finish(o, "lock_failed")
  /\ UNCHANGED reqVars

ReleaseEscrow(o) ==
  /\ pc[o] = "release"
  /\ \E y \in Reply :
       /\ Effected(o, "release", y)
       /\ \/ y = "ok" /\ Finish(o, "completed")
          \/ y # "ok" /\ Goto(o, "refund")
  /\ UNCHANGED reqVars

\* The refund is best effort: its failure is swallowed.
RefundEscrow(o) ==
  /\ pc[o] = "refund"
  /\ \E y \in Reply : Effected(o, "refund", y)
  /\ Finish(o, "release_failed")
  /\ UNCHANGED reqVars

Wire(o) == ArriveWire(o) \/ LockEscrow(o) \/ ReleaseEscrow(o) \/ RefundEscrow(o)

\* The process stops: handlers under way never answer.
Crash ==
  /\ "crash" \in Fault
  /\ \E o \in Op : pc[o] \notin {"idle", "done"}
  /\ pc' = [o \in Op |-> IF pc[o] = "idle" THEN "idle" ELSE "done"]
  /\ res' = [o \in Op |-> IF pc[o] \in {"idle", "done"} THEN res[o] ELSE "lost"]
  /\ UNCHANGED <<reqVars, eff, unsure>>

Next ==
  \/ \E o \in Op : Onramp(o) \/ Offramp(o) \/ Wire(o) \/ RemitToTreasury(o)
  \/ Crash

Spec == Init /\ [][Next]_vars

-----------------------------------------------------------------------------
(* Properties *)

\* What the effects owe: eUSD held, fees in the treasury, and the escrow of
\* wires that were neither released nor refunded.
Owed ==
  Circulating
    + Sum([o \in Op |-> OneBipFee(amount[o])], Had("remit"))
    + Sum(Wired, Had("lock") \ (Had("release") \cup Had("refund")))

\* The USD behind it: what cleared, less what was pushed or wired out.
Reserve ==
  Sum([f \in Ref |-> cleared[f] * CentSize], Ref)
    - Sum([o \in Op |-> PushValue(amount[o])], Had("push"))
    - Sum(amount, Had("release"))

RefUsedOnce ==
  \A o, p \in Had("mint") : ref[o] = ref[p] => o = p

\* The bank never owes more than it holds, whatever call fails, loses its
\* reply or is cut short by a crash, fees and rounding included -- provided no
\* payment reference is confirmed twice and no wire was refunded after a
\* release whose reply was lost (executeOnramp, executeOfframp, executeWire).
Backed ==
  (RefUsedOnce /\ Had("release") \cap Had("refund") = {}) => Owed <= Reserve

\* What must, and what may, have happened when a caller gets an answer, an
\* error thrown by one of the calls included; only a lost reply makes an
\* effect the answer denies.
Claimed(o) ==
  CASE res[o] = "completed" /\ kind[o] = "onramp"  -> {"mint", "remit"}
    [] res[o] = "completed" /\ kind[o] = "offramp" -> {"burn", "push", "remit"}
    [] res[o] = "completed" /\ kind[o] = "wire"    -> {"lock", "release"}
    [] res[o] = "push_failed_post_burn"            -> {"burn", "flag"}
    [] res[o] = "flag_error"                       -> {"burn"}
    [] res[o] = "remit_error" /\ kind[o] = "onramp"  -> {"mint"}
    [] res[o] = "remit_error" /\ kind[o] = "offramp" -> {"burn", "push"}
    [] res[o] = "release_failed"                   -> {"lock"}
    [] OTHER                                       -> {}

\* Every answer of a handler tells what it did, the errors of calls outside
\* its try blocks included: everything the answer claims took place, and what
\* it denies took place only if a reply was lost (a refund is not reported
\* either way).  So eUSD whose burn was confirmed is pushed or flagged when
\* the caller is answered (offramp.ts:17), with one exception: flag_error,
\* when flagReconciliation itself threw (offramp.ts:151-153) and nothing but
\* that error tells of the burn.  A released wire is refunded only after a
\* lost reply.
AnswerTrue ==
  \A o \in Op : res[o] \notin {"none", "lost"} =>
    /\ Claimed(o) \subseteq eff[o]
    /\ eff[o] \ unsure[o] \subseteq Claimed(o) \cup {"refund"}

\* "the fee is only realised once the full offramp completes" (offramp.ts:27),
\* and an onramp's after the mint: no fee is taken from a failed operation.
FeeEarned ==
  \A o \in Had("remit") :
    \/ kind[o] = "onramp" /\ "mint" \in eff[o] \ unsure[o]
    \/ kind[o] = "offramp" /\ {"burn", "push"} \subseteq eff[o] \ unsure[o]

\* The books of the bank: it can always pay, and earns only what it may keep.
BooksSound == Backed /\ FeeEarned
=============================================================================
