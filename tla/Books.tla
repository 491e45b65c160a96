------------------------------- MODULE Books -------------------------------
(***************************************************************************)
(* Everything that keeps books of value: the bank provider (issued and     *)
(* revoked credentials, the USD ledger, the money, account and card        *)
(* handlers, the yield ticks), the compliance indexer, and the bridge      *)
(* contract of the mesh.  They share no state in the program and are put   *)
(* side by side here: a behaviour is of one of them, named by part; Job    *)
(* are the operations, calls or ticks of that part.                        *)
(***************************************************************************)
EXTENDS BankRevocation

CONSTANTS
  Job,
  Acct, Amounts, SafeMax, MaxCrash,                                \* usd
  Ref, Cents, Atomic, CentSize, FeeDivisor, WireFee, MoneyFault,   \* money
  Subject, OpenedSlot, MaxCrashes,                                 \* accounts
  Account, OpeningBalance, Num, Den, Scale, MaxPeriod,             \* yield
  Trace, Revocation, Authority, Home, UsdAmount, Threshold, Known, \* audit
  KnownTx, Report, Window,
  Attestation, Wei, MaxBalance                                     \* bridge

VARIABLES
  part,  \* the component this behaviour is of; no step changes it
  u_phase, u_mem, u_disk, u_queue, u_step, u_call, u_res, u_crashes,
  m_pc, m_kind, m_amount, m_ref, m_eff, m_unsure, m_res, m_cleared,
  a_calls, a_ledger, a_chain, a_flagged, a_unreported, a_crashes,
  y_period, y_row, y_chain, y_ticks,
  d_kyt_events, d_revocation_events, d_directory, d_resolved, d_reports,
  e_balance, e_totalLocked, e_nonce, e_usedAttestations, e_status, e_outer,
  e_paid

Usd == INSTANCE MockUsdLedger WITH
  Op <- Job, phase <- u_phase, mem <- u_mem, disk <- u_disk,
  queue <- u_queue, step <- u_step, call <- u_call, res <- u_res,
  crashes <- u_crashes

Money == INSTANCE BankMoney WITH
  Op <- Job, Fault <- MoneyFault, pc <- m_pc, kind <- m_kind,
  amount <- m_amount, ref <- m_ref, eff <- m_eff, unsure <- m_unsure,
  res <- m_res, cleared <- m_cleared

Accounts == INSTANCE BankAccounts WITH
  Call <- Job, Slot <- OpenedSlot,
  calls <- a_calls, ledger <- a_ledger, chain <- a_chain,
  flagged <- a_flagged, unreported <- a_unreported, crashes <- a_crashes

Yield == INSTANCE YieldAccrual WITH
  Tick <- Job, Opening <- OpeningBalance, period <- y_period, row <- y_row,
  chain <- y_chain, ticks <- y_ticks

Audit == INSTANCE AuditTrail WITH
  Amount <- UsdAmount,
  kyt_events <- d_kyt_events,
  revocation_events <- d_revocation_events, directory <- d_directory,
  resolved <- d_resolved, reports <- d_reports

Bridge == INSTANCE MeshBridge WITH
  balance <- e_balance, totalLocked <- e_totalLocked, nonce <- e_nonce,
  usedAttestations <- e_usedAttestations, status <- e_status,
  outer <- e_outer, paid <- e_paid

ASSUME UsdAssumption == Usd!LedgerAssumption
ASSUME MoneyAssumption == Money!MoneyAssumption
ASSUME AccountsAssumption == Accounts!AccountsAssumption
ASSUME YieldAssumption == Yield!YieldAssumption
ASSUME AuditAssumption == Audit!AuditAssumption
ASSUME BridgeAssumption == Bridge!BridgeAssumption

u_vars ==
  <<u_phase, u_mem, u_disk, u_queue, u_step, u_call, u_res, u_crashes>>
m_vars ==
  <<m_pc, m_kind, m_amount, m_ref, m_eff, m_unsure, m_res, m_cleared>>
a_vars ==
  <<a_calls, a_ledger, a_chain, a_flagged, a_unreported, a_crashes>>
y_vars ==
  <<y_period, y_row, y_chain, y_ticks>>
d_vars ==
  <<d_kyt_events, d_revocation_events, d_directory, d_resolved, d_reports>>
e_vars ==
  <<e_balance, e_totalLocked, e_nonce, e_usedAttestations, e_status,
    e_outer, e_paid>>
all == <<part, allVars, u_vars, m_vars, a_vars, y_vars, d_vars, e_vars>>

\* A part that does not run rests in its initial state, or has none.
BooksInit ==
  /\ part \in {"revocation", "usd", "money", "accounts", "yield", "audit",
               "bridge"}
  /\ RvInit
  /\ IF part = "usd" THEN Usd!Init
     ELSE /\ u_phase = None
          /\ u_mem = None
          /\ u_disk = None
          /\ u_queue = None
          /\ u_step = None
          /\ u_call = None
          /\ u_res = None
          /\ u_crashes = None
  /\ IF part = "money" THEN Money!Init
     ELSE /\ m_pc = None
          /\ m_kind = None
          /\ m_amount = None
          /\ m_ref = None
          /\ m_eff = None
          /\ m_unsure = None
          /\ m_res = None
          /\ m_cleared = None
  /\ IF part = "accounts" THEN Accounts!Init
     ELSE /\ a_calls = None
          /\ a_ledger = None
          /\ a_chain = None
          /\ a_flagged = None
          /\ a_unreported = None
          /\ a_crashes = None
  /\ IF part = "yield" THEN Yield!Init
     ELSE /\ y_period = None
          /\ y_row = None
          /\ y_chain = None
          /\ y_ticks = None
  /\ IF part = "audit" THEN Audit!Init
     ELSE /\ d_kyt_events = None
          /\ d_revocation_events = None
          /\ d_directory = None
          /\ d_resolved = None
          /\ d_reports = None
  /\ IF part = "bridge" THEN Bridge!Init
     ELSE /\ e_balance = None
          /\ e_totalLocked = None
          /\ e_nonce = None
          /\ e_usedAttestations = None
          /\ e_status = None
          /\ e_outer = None
          /\ e_paid = None

BooksNext ==
  \/ /\ part = "revocation"
     /\ RvNext
     /\ UNCHANGED <<part, u_vars, m_vars, a_vars, y_vars, d_vars, e_vars>>
  \/ /\ part = "usd"
     /\ Usd!Next
     /\ UNCHANGED <<part, allVars, m_vars, a_vars, y_vars, d_vars, e_vars>>
  \/ /\ part = "money"
     /\ Money!Next
     /\ UNCHANGED <<part, allVars, u_vars, a_vars, y_vars, d_vars, e_vars>>
  \/ /\ part = "accounts"
     /\ Accounts!Next
     /\ UNCHANGED <<part, allVars, u_vars, m_vars, y_vars, d_vars, e_vars>>
  \/ /\ part = "yield"
     /\ Yield!Next
     /\ UNCHANGED <<part, allVars, u_vars, m_vars, a_vars, d_vars, e_vars>>
  \/ /\ part = "audit"
     /\ Audit!Next
     /\ UNCHANGED <<part, allVars, u_vars, m_vars, a_vars, y_vars, e_vars>>
  \/ /\ part = "bridge"
     /\ Bridge!Next
     /\ UNCHANGED <<part, allVars, u_vars, m_vars, a_vars, y_vars, d_vars>>

BooksSpec == BooksInit /\ [][BooksNext]_all

-----------------------------------------------------------------------------
\* The USD ledger adds up and is durable, see MockUsdLedger.
LedgerSound == part = "usd" => Usd!LedgerSound

\* The bank is never short, and keeps no fee of a failed operation, see BankMoney.
BooksSound == part = "money" => Money!BooksSound

\* The answer of a money handler tells what it did, see BankMoney.
AnswerTrue == part = "money" => Money!AnswerTrue

\* No account or card entry without its credential goes unreported, see
\* BankAccounts.
NoSilentOrphan == part = "accounts" => Accounts!TypeOK /\ Accounts!NoSilentOrphan

\* No balance carries a period's interest twice, see YieldAccrual.
YieldNeverDouble == part = "yield" => Yield!TypeOK /\ Yield!YieldNeverDouble

\* Reports put side by side agree, see AuditTrail.
ReportsReconcile == part = "audit" => Audit!TypeOK /\ Audit!ReportsReconcile

\* The bridge contract stays solvent and pays an attestation once, see MeshBridge.
BridgeSound == part = "bridge" => Bridge!TypeOK /\ Bridge!BridgeSound
=============================================================================
