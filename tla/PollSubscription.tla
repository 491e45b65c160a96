--------------------------- MODULE PollSubscription ---------------------------
(***************************************************************************)
(* The polling fallback of the subscription tools (tools/subscription.ts): *)
(* subscribe_blocks, subscribe_logs, subscribe_account and unsubscribe     *)
(* when the WebSocket is down.  A setInterval callback asks the node and   *)
(* compares the answer with what it saw last.  The callback is async and   *)
(* the interval does not wait for it, so several polls of a subscription   *)
(* may be in flight and their answers may come out of order.               *)
(*                                                                         *)
(* Subscriptions share no state, so there is one.  The account a           *)
(* subscription watches changes with every block, between two values.      *)
(***************************************************************************)
EXTENDS Naturals, Sequences

CONSTANTS
  Poll,        \* polls that may be in flight at once
  Kinds,       \* "blocks", "blocks_tx" (or logs: with a fetch per block), "account"
  Cap,         \* the 100 notifications a subscription buffers
  MaxHeight,   \* bound: the last block of the chain
  None

PollAssumption ==
  /\ Kinds \subseteq {"blocks", "blocks_tx", "account"}
  /\ Cap \in Nat \ {0}
  /\ MaxHeight \in Nat
  /\ None \notin Nat \cup {"blocks", "blocks_tx", "account"}

VARIABLES
  height,   \* of the chain
  kind,     \* of the subscription, or None before it is made
  active,   \* it is in the subscriptions map, and its interval runs
  last,     \* lastBlockHeight / lastState
  buf,      \* notifications
  pc,       \* where each poll stands
  cur,      \* currentHeight / current: what the node answered a poll
  next,     \* h: the block a poll fetches next
  base,     \* history: the height of the first answer
  log,      \* history: everything ever pushed to notifications
  failed    \* history: blocks whose fetch failed

vars == <<height, kind, active, last, buf, pc, cur, next, base, log, failed>>

Change == (0..1) \X (0..1)     \* previous and current of an account notification

TypeOK ==
  /\ height \in 0..MaxHeight
  /\ kind \in Kinds \cup {None}
  /\ active \in BOOLEAN
  /\ last \in 0..MaxHeight \cup {None}
  /\ buf \in Seq(IF kind = "account" THEN Change ELSE 0..MaxHeight)
  /\ Len(buf) <= Cap \/ kind = "blocks_tx"
  /\ pc \in [Poll -> {"idle", "asking", "answered", "scanning"}]
  /\ cur \in [Poll -> 0..MaxHeight]
  /\ next \in [Poll -> 0..(MaxHeight + 1)]
  /\ base \in 0..MaxHeight \cup {None}
  /\ failed \subseteq 0..MaxHeight

Init ==
  /\ height = 0
  /\ kind = None
  /\ active = FALSE
  /\ last = None
  /\ buf = <<>>
  /\ pc = [p \in Poll |-> "idle"]
  /\ cur = [p \in Poll |-> 0]
  /\ next = [p \in Poll |-> 0]
  /\ base = None
  /\ log = <<>>
  /\ failed = {}

-----------------------------------------------------------------------------
(* The node *)

Produce ==
  /\ height < MaxHeight
  /\ height' = height + 1
  /\ UNCHANGED <<kind, active, last, buf, pc, cur, next, base, log, failed>>

\* The node answers getBlockHeight or getAccountInfo; the answer travels.
NodeAnswers(p) ==
  /\ pc[p] = "asking"
  /\ cur' = [cur EXCEPT ![p] = IF kind = "account" THEN height % 2 ELSE height]
  /\ pc' = [pc EXCEPT ![p] = "answered"]
  /\ UNCHANGED <<height, kind, active, last, buf, next, base, log, failed>>

-----------------------------------------------------------------------------
(* The tools *)

Subscribe(k) ==
  /\ kind = None
  /\ kind' = k
  /\ active' = TRUE
  /\ UNCHANGED <<height, last, buf, pc, cur, next, base, log, failed>>

\* clearInterval, the entry is deleted and the buffer is returned; polls in
\* flight go on.
Unsubscribe ==
  /\ active
  /\ active' = FALSE
  /\ UNCHANGED <<height, kind, last, buf, pc, cur, next, base, log, failed>>

\* The interval fires and sends a request.
Interval(p) ==
  /\ active
  /\ pc[p] = "idle"
  /\ pc' = [pc EXCEPT ![p] = "asking"]
  /\ UNCHANGED <<height, kind, active, last, buf, cur, next, base, log, failed>>

\* Mutant: a poll that fails is never done.
PollFailsStuck(p) ==
  /\ pc[p] \in {"asking", "answered"}
  /\ pc' = [pc EXCEPT ![p] = "stuck"]
  /\ cur' = [cur EXCEPT ![p] = 0]
  /\ UNCHANGED <<height, kind, active, last, buf, next, base, log, failed>>

\* "ignore polling errors"
PollFails(p) ==
  /\ pc[p] \in {"asking", "answered"}
  /\ pc' = [pc EXCEPT ![p] = "idle"]
  /\ cur' = [cur EXCEPT ![p] = 0]
  /\ UNCHANGED <<height, kind, active, last, buf, next, base, log, failed>>

\* Keep the last Cap notifications of s.
Capped(s) == IF Len(s) > Cap THEN SubSeq(s, Len(s) - Cap + 1, Len(s)) ELSE s

\* Push s; the map entry is gone after unsubscribe, and with it the buffer.
Push(s) ==
  /\ buf' = IF active THEN buf \o s ELSE buf
  /\ log' = IF active THEN log \o s ELSE log

Idle(p) ==
  /\ pc' = [pc EXCEPT ![p] = "idle"]
  /\ cur' = [cur EXCEPT ![p] = 0]
  /\ next' = [next EXCEPT ![p] = 0]

\* The first answer is only remembered.
FirstAnswer(p) ==
  /\ pc[p] = "answered"
  /\ last = None
  /\ last' = cur[p]
  /\ base' = cur[p]
  /\ Idle(p)
  /\ UNCHANGED <<height, kind, active, buf, log, failed>>

NoNewBlock(p) ==
  /\ pc[p] = "answered"
  /\ kind # "account"
  /\ last # None
  /\ cur[p] <= last
  /\ Idle(p)
  /\ UNCHANGED <<height, kind, active, last, buf, base, log, failed>>

\* Mutant: only the newest block is notified.
NewBlocksLatest(p) ==
  /\ pc[p] = "answered"
  /\ kind = "blocks"
  /\ last # None
  /\ cur[p] > last
  /\ buf' = IF active THEN Capped(Append(buf, cur[p])) ELSE buf
  /\ log' = IF active THEN Append(log, cur[p]) ELSE log
  /\ last' = cur[p]
  /\ Idle(p)
  /\ UNCHANGED <<height, kind, active, base, failed>>

\* subscribe_blocks without transactions: the blocks last+1 .. current are
\* notified without an await in between.
NewBlocks(p) ==
  /\ pc[p] = "answered"
  /\ kind = "blocks"
  /\ last # None
  /\ cur[p] > last
  /\ LET s == [i \in 1..(cur[p] - last) |-> last + i] IN
       /\ buf' = IF active THEN Capped(buf \o s) ELSE buf
       /\ log' = IF active THEN log \o s ELSE log
  /\ last' = cur[p]
  /\ Idle(p)
  /\ UNCHANGED <<height, kind, active, base, failed>>

\* subscribe_logs, and subscribe_blocks with transactions: the scan awaits a
\* fetch for every block.
ScanStart(p) ==
  /\ pc[p] = "answered"
  /\ kind = "blocks_tx"
  /\ last # None
  /\ cur[p] > last
  /\ next' = [next EXCEPT ![p] = last + 1]
  /\ pc' = [pc EXCEPT ![p] = "scanning"]
  /\ UNCHANGED <<height, kind, active, last, buf, cur, base, log, failed>>

\* One block of the scan; an inaccessible block is skipped.
ScanBlock(p) ==
  /\ pc[p] = "scanning"
  /\ next[p] <= cur[p]
  /\ \/ Push(<<next[p]>>) /\ UNCHANGED failed
     \/ failed' = failed \cup {next[p]} /\ UNCHANGED <<buf, log>>
  /\ next' = [next EXCEPT ![p] = @ + 1]
  /\ UNCHANGED <<height, kind, active, last, pc, cur, base>>

\* The end of the scan: cap the buffer, remember the height.
ScanEnd(p) ==
  /\ pc[p] = "scanning"
  /\ next[p] > cur[p]
  /\ buf' = IF active THEN Capped(buf) ELSE buf
  /\ last' = cur[p]
  /\ Idle(p)
  /\ UNCHANGED <<height, kind, active, base, log, failed>>

\* subscribe_account: a difference is notified.
AccountAnswer(p) ==
  /\ pc[p] = "answered"
  /\ kind = "account"
  /\ last # None
  /\ \/ /\ active
        /\ LET s == IF cur[p] # last THEN <<(<<last, cur[p]>>)>> ELSE <<>> IN
             /\ buf' = Capped(buf \o s)
             /\ log' = log \o s
        /\ last' = cur[p]
     \/ ~active /\ UNCHANGED <<buf, log, last>>
  /\ Idle(p)
  /\ UNCHANGED <<height, kind, active, base, failed>>

Resume(p) ==
  \/ FirstAnswer(p) \/ NoNewBlock(p) \/ NewBlocks(p) \/ AccountAnswer(p)
  \/ ScanStart(p) \/ ScanBlock(p) \/ ScanEnd(p)

Next ==
  \/ Produce
  \/ \E k \in Kinds : Subscribe(k)
  \/ Unsubscribe
  \/ \E p \in Poll : Interval(p) \/ NodeAnswers(p) \/ PollFails(p) \/ Resume(p)

Spec == Init /\ [][Next]_vars

\* The interval fires for ever, requests end, and the node answers again and
\* again although single requests may fail.
FairSpec ==
  /\ Spec
  /\ \A p \in Poll : /\ WF_vars(Interval(p))
                     /\ SF_vars(NodeAnswers(p))
                     /\ SF_vars(Resume(p))

-----------------------------------------------------------------------------
(* Properties *)

\* "fires a notification each time a new block is produced": block after
\* block, none twice and none left out, although polls overlap and their
\* answers come out of order (subscribe_blocks without transactions).
BlocksInOrder ==
  kind = "blocks" =>
    /\ \A i \in 1..Len(log) : log[i] = base + i
    /\ active /\ base # None => last = base + Len(log)
    /\ buf = Capped(log)

\* Overlapping scans may repeat a block but leave none out: every block up to
\* the height remembered was notified, or its fetch failed.
NothingSkipped ==
  (kind = "blocks_tx" /\ active /\ last # None) =>
    \A h \in (base + 1)..last : h \in failed \/ \E i \in 1..Len(log) : log[i] = h

\* The changes notified for an account form a chain that starts at the first
\* state seen and ends at the state remembered, stale answers included.
ChangesLink ==
  kind = "account" /\ active /\ last # None =>
    /\ \A i \in 1..Len(log) : log[i][1] = (IF i = 1 THEN base ELSE log[i - 1][2])
    /\ last = IF log = <<>> THEN base ELSE log[Len(log)][2]

\* A subscription catches up: once the chain is at height h, the subscription
\* gets there, or is cancelled.
CatchesUp ==
  \A h \in 0..MaxHeight :
    (active /\ kind # "account" /\ height = h) ~> (~active \/ (last # None /\ last >= h))

\* What a subscriber reads is what the chain did: the three promises above, one
\* for each kind of subscription.
NotificationsFaithful == BlocksInOrder /\ NothingSkipped /\ ChangesLink
=============================================================================
