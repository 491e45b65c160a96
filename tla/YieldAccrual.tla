---------------------------- MODULE YieldAccrual ----------------------------
(***************************************************************************)
(* Interest on savings accounts (keeper/bpps/bank/yield.ts): a tick calls  *)
(* accrueAll over the account rows, which computes each new balance from   *)
(* the row it was given and commits that balance, as an absolute value, on *)
(* chain.  The caller persists the rows after every commit has answered;   *)
(* one commit that throws rejects Promise.all, and then no row of that     *)
(* tick is persisted although other commits landed.  Ticks may overlap.    *)
(***************************************************************************)
EXTENDS Naturals

CONSTANTS
  Account,
  Tick,        \* invocations of accrueAll
  Opening,     \* opening balance of every account, in atomic units
  Num, Den,    \* the per-period multiplier Num / Den of the APY
  Scale,       \* the fixed-point scale (10^12 in the code)
  MaxPeriod    \* bound: last period index

\* apy_bps <= 0 pays no interest, so a multiplier is at least 1.
YieldAssumption ==
  /\ Opening \in Nat /\ MaxPeriod \in Nat
  /\ Num \in Nat /\ Den \in Nat \ {0} /\ Num >= Den
  /\ Scale \in Nat \ {0}

VARIABLES
  period,      \* currentPeriod()
  row,         \* the caller's rows: [balance, last]
  chain,       \* the last balance and period committed
  ticks        \* running invocations

vars == <<period, row, chain, ticks>>

Entry == [balance : Nat, last : 0 .. MaxPeriod]

\* What a tick holds for one account: nothing to do (null), a commit on its
\* way, one that has answered, or one that threw.
Item == [st : {"null", "sent", "ok", "threw"}, balance : Nat, last : 0 .. MaxPeriod]

Idle == [pc |-> "idle"]

TypeOK ==
  /\ period \in 0 .. MaxPeriod
  /\ row \in [Account -> Entry]
  /\ chain \in [Account -> Entry]
  /\ \A t \in Tick :
       \/ ticks[t] = Idle
       \/ ticks[t].pc \in {"running", "done"} /\ ticks[t].items \in [Account -> Item]

Init ==
  /\ period = 0
  /\ row = [a \in Account |-> [balance |-> Opening, last |-> 0]]
  /\ chain = [a \in Account |-> [balance |-> Opening, last |-> 0]]
  /\ ticks = [t \in Tick |-> Idle]

\* b to the power n.
Power(b, n) == LET p[k \in 0 .. n] == IF k = 0 THEN 1 ELSE b * p[k - 1] IN p[n]

\* Math.round(multiplier^n * Scale), multiplier = Num / Den.
Scaled(n) ==
  (2 * Power(Num, n) * Scale + Power(Den, n)) \div (2 * Power(Den, n))

\* balance * scaled / Scale in bigint arithmetic, which truncates.
applyYield(balance, n) == IF n = 0 THEN balance ELSE (balance * Scaled(n)) \div Scale

\* Mutant: the period being accrued is counted twice.
accrueOneInclusive(r) ==
  LET n == applyYield(r.balance, period - r.last + 1)
  IN  [st |-> IF period <= r.last \/ n = r.balance THEN "null" ELSE "sent",
       balance |-> n, last |-> period]

\* accrueOne up to its await: null when no period has passed or the balance
\* does not change, else a commit of the new balance.
accrueOne(r) ==
  LET n == IF period <= r.last THEN r.balance ELSE applyYield(r.balance, period - r.last)
  IN  [st |-> IF n = r.balance THEN "null" ELSE "sent",
       balance |-> n, last |-> period]

\* accrueAll: every accrueOne starts at once, from the rows of this moment.
accrueAll(t) ==
  /\ ticks[t].pc = "idle"
  /\ ticks' = [ticks EXCEPT ![t] =
       [pc |-> "running", items |-> [a \in Account |-> accrueOne(row[a])]]]
  /\ UNCHANGED <<period, row, chain>>

\* commitYieldOnChain lands or not, and answers or throws.
Commit(t, a, lands, answers) ==
  /\ ticks[t].pc = "running"
  /\ ticks[t].items[a].st = "sent"
  /\ answers => lands
  /\ LET i == ticks[t].items[a]
     IN  chain' = IF lands THEN [chain EXCEPT ![a] = [balance |-> i.balance, last |-> i.last]]
                  ELSE chain
  /\ ticks' = [ticks EXCEPT ![t].items[a].st = IF answers THEN "ok" ELSE "threw"]
  /\ UNCHANGED <<period, row>>

\* Promise.all rejects as soon as one commit throws: the caller persists nothing.
Rejected(t) ==
  /\ ticks[t].pc = "running"
  /\ \E a \in Account : ticks[t].items[a].st = "threw"
  /\ \A a \in Account : ticks[t].items[a].st # "sent"
  /\ ticks' = [ticks EXCEPT ![t].pc = "done"]
  /\ UNCHANGED <<period, row, chain>>

\* All answered: the caller persists the new balances and periods.
Persist(t) ==
  /\ ticks[t].pc = "running"
  /\ \A a \in Account : ticks[t].items[a].st \in {"ok", "null"}
  /\ row' = [a \in Account |->
       LET i == ticks[t].items[a]
       IN  IF i.st = "ok" THEN [balance |-> i.balance, last |-> i.last] ELSE row[a]]
  /\ ticks' = [ticks EXCEPT ![t].pc = "done"]
  /\ UNCHANGED <<period, chain>>

\* The keeper dies between the commits and the caller's write.
Lost(t) ==
  /\ ticks[t].pc = "running"
  /\ ticks' = [ticks EXCEPT ![t].pc = "done"]
  /\ UNCHANGED <<period, row, chain>>

NextPeriod ==
  /\ period < MaxPeriod
  /\ period' = period + 1
  /\ UNCHANGED <<row, chain, ticks>>

Next ==
  \/ NextPeriod
  \/ \E t \in Tick :
       \/ accrueAll(t) \/ Rejected(t) \/ Persist(t) \/ Lost(t)
       \/ \E a \in Account, lands, answers \in BOOLEAN : Commit(t, a, lands, answers)

Spec == Init /\ [][Next]_vars

-----------------------------------------------------------------------------
\* b is at most the opening balance compounded over n periods, at the multiplier
\* and the half unit of the scale Math.round may add to it: Num / Den + 1 / (2 * Scale).
AtMostCompounded(b, n) ==
  b * Power(2 * Den * Scale, n) <= Opening * Power(2 * Num * Scale + Den, n)

(***************************************************************************)
(* A tick may be repeated, overlap another, lose its rows after its        *)
(* commits landed, or have its commits land out of order: no balance on    *)
(* chain or in a row ever carries a period's interest twice: it is within  *)
(* what its periods, compounded once each, can give.                       *)
(***************************************************************************)
YieldNeverDouble ==
  \A a \in Account : /\ AtMostCompounded(chain[a].balance, chain[a].last)
                     /\ AtMostCompounded(row[a].balance, row[a].last)
=============================================================================
