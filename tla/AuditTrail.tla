----------------------------- MODULE AuditTrail -----------------------------
(***************************************************************************)
(* The compliance indexer (src/services/indexer): KYT traces and           *)
(* revocation-root updates are delivered at least once, in any order, and  *)
(* ingested into two tables (postgres-event-source.ts); audit feeds        *)
(* (audit-trail.ts) and travel-rule reports (travel-rule.ts) for one       *)
(* authority and a window of slots are built from them while ingestion     *)
(* goes on.  A report awaits two cursors, one after the other, and then    *)
(* the party directory and the amount resolver for every settled trace.    *)
(***************************************************************************)
EXTENDS Naturals, Sequences, FiniteSets

CONSTANTS
  Trace,       \* KYT traces: [tx, slot, stage, bap, bpp]
  Revocation,  \* root updates: [oracle, root, slot]
  Authority,   \* AgentCard authorities
  Home,        \* authority -> jurisdiction of its IVMS101 record
  Amount,      \* tx -> USD amount
  Threshold,   \* thresholdUsd
  Known,       \* authorities in the party directory from the start
  KnownTx,     \* transactions whose amount resolves from the start
  Report,      \* invocations of buildReport
  Window       \* the <<sinceSlot, untilSlot>> pairs requests carry

\* Slots and signatures are compared as numbers.
AuditAssumption ==
  /\ \A t \in Trace : t.tx \in Nat /\ t.slot \in Nat
  /\ Window \subseteq Nat \X Nat
  /\ Known \subseteq Authority /\ KnownTx \subseteq DOMAIN Amount

VARIABLES
  kyt_events,         \* rows in insertion order
  revocation_events,  \* rows in insertion order
  directory,          \* authorities the party directory resolves
  resolved,           \* transactions the amount resolver resolves
  reports

vars == <<kyt_events, revocation_events, directory, resolved, reports>>

Rows(table) == {table[i] : i \in DOMAIN table}

Idle == [pc |-> "idle"]

TypeOK ==
  /\ Rows(kyt_events) \subseteq Trace
  /\ Rows(revocation_events) \subseteq Revocation
  /\ directory \subseteq Authority
  /\ resolved \subseteq DOMAIN Amount
  /\ \A r \in Report :
       \/ reports[r] = Idle
       \/ reports[r].pc \in {"traces", "revocations", "resolve", "done", "invalid"}

Init ==
  /\ kyt_events = <<>>
  /\ revocation_events = <<>>
  /\ directory = Known
  /\ resolved = KnownTx
  /\ reports = [r \in Report |-> Idle]

-----------------------------------------------------------------------------
(* The event source.                                                       *)

\* compareTraces and ORDER BY slot, tx_signature.
compareTraces(a, b) == a.slot < b.slot \/ (a.slot = b.slot /\ a.tx < b.tx)

\* compareRevocations and ORDER BY slot, oracle, root.
compareRevocations(a, b) ==
  \/ a.slot < b.slot
  \/ a.slot = b.slot /\ a.oracle < b.oracle
  \/ a.slot = b.slot /\ a.oracle = b.oracle /\ a.root < b.root

\* The elements of s at the indices in I, sorted, equal ones in the order of s:
\* the k-th has k - 1 of them before it.
Before(s, less(_, _), i, j) == less(s[i], s[j]) \/ (~less(s[j], s[i]) /\ i < j)
SortedAt(s, I, less(_, _)) ==
  [k \in 1 .. Cardinality(I) |->
     s[CHOOSE i \in I : Cardinality({j \in I : Before(s, less, j, i)}) = k - 1]]

\* Mutant: both ends of the window included, so that a slot on the border
\* belongs to two windows.
withinBoundsClosed(slot, since, until) == since <= slot /\ slot <= until

\* sinceSlot is inclusive, untilSlot exclusive.
withinBounds(slot, since, until) == since <= slot /\ slot < until

\* The rows with the authority on either side and a slot in the window.
Selected(authority, since, until) ==
  {i \in DOMAIN kyt_events :
     /\ authority \in {kyt_events[i].bap, kyt_events[i].bpp}
     /\ withinBounds(kyt_events[i].slot, since, until)}

tracesForAuthority(authority, since, until) ==
  SortedAt(kyt_events, Selected(authority, since, until), compareTraces)

\* With no issuer allowlist every oracle's updates are in the feed.
revocationsForCredentialIssuers(since, until) ==
  SortedAt(revocation_events,
           {i \in DOMAIN revocation_events : withinBounds(revocation_events[i].slot, since, until)},
           compareRevocations)

\* ON CONFLICT (tx_signature) DO NOTHING: a redelivery changes nothing, and
\* so does a second trace of the same transaction.
ingestTrace(t) ==
  /\ kyt_events' = IF \E row \in Rows(kyt_events) : row.tx = t.tx
                     THEN kyt_events ELSE Append(kyt_events, t)
  /\ UNCHANGED <<revocation_events, directory, resolved, reports>>

\* ON CONFLICT (oracle, root, slot) DO NOTHING.
ingestRevocation(v) ==
  /\ revocation_events' = IF v \in Rows(revocation_events)
                            THEN revocation_events ELSE Append(revocation_events, v)
  /\ UNCHANGED <<kyt_events, directory, resolved, reports>>

-----------------------------------------------------------------------------
(* buildReport over buildAuditFeed.                                        *)

\* assertAuthority, assertBounds.
Start(r, authority, since, until) ==
  /\ reports[r].pc = "idle"
  /\ reports' = [reports EXCEPT ![r] =
       [pc |-> IF since > until THEN "invalid" ELSE "traces",
        authority |-> authority, since |-> since, until |-> until,
        kyt |-> <<>>, seen |-> 0, revocations |-> <<>>, next |-> 1, entries |-> <<>>,
        missing |-> {}]]
  /\ UNCHANGED <<kyt_events, revocation_events, directory, resolved>>

\* The trace cursor reads the snapshot of its DECLARE, however many FETCHes
\* it takes.  seen is a history variable: how many rows that snapshot has.
ReadTraces(r) ==
  /\ reports[r].pc = "traces"
  /\ reports' = [reports EXCEPT
       ![r].seen = Len(kyt_events),
       ![r].kyt = tracesForAuthority(reports[r].authority, reports[r].since, reports[r].until),
       ![r].pc = "revocations"]
  /\ UNCHANGED <<kyt_events, revocation_events, directory, resolved>>

\* The revocation cursor is a second transaction: it sees a later snapshot.
\* buildAuditFeed then merges the two streams by slot; the report drops the
\* revocations again.
ReadRevocations(r) ==
  /\ reports[r].pc = "revocations"
  /\ reports' = [reports EXCEPT
       ![r].revocations = revocationsForCredentialIssuers(reports[r].since, reports[r].until),
       ![r].pc = "resolve"]
  /\ UNCHANGED <<kyt_events, revocation_events, directory, resolved>>

isCrossJurisdiction(originator, beneficiary) == Home[originator] # Home[beneficiary]

meetsThreshold(amount) == amount > Threshold

\* shouldReport, for a trace of the confirm stage.
shouldReport(t) == isCrossJurisdiction(t.bap, t.bpp) /\ meetsThreshold(Amount[t.tx])

\* The audited side is the BAP when the counterparty is the BPP: findIndex
\* takes the first party that matches.
Originator(r, t) == IF t.bap = reports[r].authority THEN reports[r].authority ELSE t.bap

Beneficiary(r, t) == IF t.bap = reports[r].authority THEN t.bpp ELSE reports[r].authority

Entry(r, t) == [tx |-> t.tx, slot |-> t.slot, amount |-> Amount[t.tx],
                originator |-> Originator(r, t), beneficiary |-> Beneficiary(r, t)]

\* One settled trace: the directory is asked for both parties, then the
\* resolver for the amount; what is missing is skipped and counted.
Resolve(r) ==
  /\ reports[r].pc = "resolve"
  /\ reports[r].next <= Len(reports[r].kyt)
  /\ LET t == reports[r].kyt[reports[r].next]
         found == {Originator(r, t), Beneficiary(r, t)} \subseteq directory
                    /\ t.tx \in resolved
     IN  reports' = [reports EXCEPT
           ![r].next = @ + 1,
           ![r].missing = IF t.stage = "confirm" /\ ~found THEN @ \cup {t.tx} ELSE @,
           ![r].entries = IF t.stage = "confirm" /\ found /\ shouldReport(t)
                            THEN Append(@, Entry(r, t)) ELSE @]
  /\ UNCHANGED <<kyt_events, revocation_events, directory, resolved>>

\* The entries are sorted by slot and signature, the report is returned.
Finish(r) ==
  /\ reports[r].pc = "resolve"
  /\ reports[r].next > Len(reports[r].kyt)
  /\ reports' = [reports EXCEPT ![r].pc = "done",
                                ![r].entries = SortedAt(@, DOMAIN @, compareTraces)]
  /\ UNCHANGED <<kyt_events, revocation_events, directory, resolved>>

\* External: the directory and the resolver learn of a party, an amount.
LearnParty(a) ==
  /\ a \notin directory
  /\ directory' = directory \cup {a}
  /\ UNCHANGED <<kyt_events, revocation_events, resolved, reports>>

LearnAmount(tx) ==
  /\ tx \notin resolved
  /\ resolved' = resolved \cup {tx}
  /\ UNCHANGED <<kyt_events, revocation_events, directory, reports>>

Next ==
  \/ \E t \in Trace : ingestTrace(t)
  \/ \E v \in Revocation : ingestRevocation(v)
  \/ \E r \in Report :
       \/ \E a \in Authority, w \in Window : Start(r, a, w[1], w[2])
       \/ ReadTraces(r) \/ ReadRevocations(r) \/ Resolve(r) \/ Finish(r)
  \/ \E a \in Authority : LearnParty(a)
  \/ \E tx \in DOMAIN Amount : LearnAmount(tx)

Spec == Init /\ [][Next]_vars

-----------------------------------------------------------------------------
Done(r) == reports[r].pc = "done"

Bound == {w[1] : w \in Window} \cup {w[2] : w \in Window}

\* What a report was asked for has t in it; its entries have t among them.
Covers(r, t) ==
  /\ reports[r].authority \in {t.bap, t.bpp}
  /\ withinBounds(t.slot, reports[r].since, reports[r].until)

Lists(r, t) == \E e \in Rows(reports[r].entries) : e.tx = t.tx

\* Ascending without repetition.
StrictlySorted(s) == \A i \in 1 .. Len(s) - 1 : compareTraces(s[i], s[i + 1])

(***************************************************************************)
(* What auditors rely on when they put reports side by side.  On the rows  *)
(* of any moment, adjacent windows partition the larger one: their feeds,  *)
(* one after the other, are its feed.  A finished report lists, once and   *)
(* in order, exactly the cross-border settlements above the threshold that *)
(* were in its feed and that it did not count as missing, with the BAP as  *)
(* originator.  And when one party's report lists a settlement that the    *)
(* other's, which covers it too, does not, then either the other counted   *)
(* it as missing or it was ingested between their two reads: after the     *)
(* snapshot of the one that leaves it out, before the snapshot of the one  *)
(* that lists it.  Nothing else tells the two reports apart.               *)
(***************************************************************************)
ReportsReconcile ==
  /\ \A a \in Authority, s, m, u \in Bound :
       s <= m /\ m <= u =>
         tracesForAuthority(a, s, u) = tracesForAuthority(a, s, m) \o tracesForAuthority(a, m, u)
  /\ \A r \in Report : Done(r) =>
       /\ StrictlySorted(reports[r].entries)
       /\ Rows(reports[r].entries) =
            {[tx |-> t.tx, slot |-> t.slot, amount |-> Amount[t.tx],
              originator |-> t.bap, beneficiary |-> t.bpp] :
               t \in {x \in Rows(reports[r].kyt) : /\ x.stage = "confirm"
                                                   /\ shouldReport(x)
                                                   /\ x.tx \notin reports[r].missing}}
  /\ \A r, q \in Report, i \in DOMAIN kyt_events :
       LET t == kyt_events[i] IN
         Done(r) /\ Done(q) /\ Covers(q, t) /\ Lists(r, t) /\ ~Lists(q, t) =>
           t.tx \in reports[q].missing \/ i \in reports[q].seen + 1 .. reports[r].seen
=============================================================================
