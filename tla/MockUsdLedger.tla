---------------------------- MODULE MockUsdLedger ----------------------------
(***************************************************************************)
(* MockUsdLedger of keeper/bpps/bank/mock-usd-ledger.ts: balances and ramp *)
(* events in memory, mirrored to a JSON file by temp file + rename.  Every *)
(* operation goes through one promise queue; a mutation changes memory and *)
(* then awaits the write, which may fail; the process may stop at any      *)
(* point and the ledger is then reopened from the file.                    *)
(*                                                                         *)
(* The field `log' of a snapshot is history: the operations whose effect   *)
(* the snapshot contains.                                                  *)
(***************************************************************************)
EXTENDS Integers, Sequences, FiniteSets, Sums

CONSTANTS
  Op,         \* operations, each called at most once
  Acct,       \* account ids
  Amounts,    \* amounts a caller may pass, in cents
  SafeMax,    \* Number.MAX_SAFE_INTEGER
  MaxCrash,   \* bound: how often the process may stop
  None

Kind == {"credit", "debit", "onramp", "offramp", "balance"}
Call == [kind : Kind, acct : Acct, amt : Amounts]
Snapshot == [bal : [Acct -> Int], ramps : SUBSET Op, log : SUBSET Op]

LedgerAssumption ==
  /\ Amounts \subseteq Nat
  /\ SafeMax \in Nat \ {0}
  /\ \E k \in 1..SafeMax : SafeMax + 1 = 2^k
  /\ MaxCrash \in Nat
  /\ IsFiniteSet(Op)
  /\ None \notin Op /\ None \notin Call /\ None \notin Snapshot

VARIABLES
  phase,    \* "closed", "open", or "corrupt" (open threw LedgerCorruptError)
  mem,      \* snap
  disk,     \* the file, or None
  queue,    \* operations behind the promise tail, the head is running
  step,     \* "ready", or "persist" while the head awaits its write
  call,     \* the arguments of an operation
  res,      \* the outcome its caller saw
  crashes

vars == <<phase, mem, disk, queue, step, call, res, crashes>>

emptySnapshot == [bal |-> [a \in Acct |-> 0], ramps |-> {}, log |-> {}]

Outcome == {"none", "ok", "insufficient", "range_error", "io_error", "lost"}

TypeOK ==
  /\ phase \in {"closed", "open", "corrupt"}
  /\ mem \in Snapshot
  /\ disk \in Snapshot \cup {None}
  /\ queue \in Seq(Op)
  /\ step \in {"ready", "persist"}
  /\ call \in [Op -> Call \cup {None}]
  /\ res \in [Op -> Outcome]
  /\ crashes \in 0..MaxCrash

Init ==
  /\ phase = "closed"
  /\ mem = emptySnapshot
  /\ disk = None
  /\ queue = <<>>
  /\ step = "ready"
  /\ call = [o \in Op |-> None]
  /\ res = [o \in Op |-> "none"]
  /\ crashes = 0

\* zLedgerSnapshot: every balance is a non-negative safe integer.
ValidSnapshot(s) == \A a \in Acct : s.bal[a] \in 0..SafeMax

\* Load the file, or create an empty one; an open that fails for I/O changes
\* nothing and may be tried again.
Open ==
  /\ phase = "closed"
  /\ \/ /\ disk = None
        /\ mem' = emptySnapshot
        /\ disk' = emptySnapshot
        /\ phase' = "open"
     \/ /\ disk # None
        /\ ValidSnapshot(disk)
        /\ mem' = disk
        /\ phase' = "open"
        /\ UNCHANGED disk
     \/ /\ disk # None
        /\ ~ValidSnapshot(disk)
        /\ phase' = "corrupt"
        /\ UNCHANGED <<mem, disk>>
  /\ UNCHANGED <<queue, step, call, res, crashes>>

\* A caller invokes an operation: it joins the queue.
Enqueue(o, c) ==
  /\ phase = "open"
  /\ call[o] = None
  /\ call' = [call EXCEPT ![o] = c]
  /\ queue' = Append(queue, o)
  /\ UNCHANGED <<phase, mem, disk, step, res, crashes>>

\* The head is answered and the next operation may run.
Answer(o, r) ==
  /\ res' = [res EXCEPT ![o] = r]
  /\ queue' = Tail(queue)
  /\ step' = "ready"

Running(o) == phase = "open" /\ queue # <<>> /\ Head(queue) = o /\ step = "ready"

Adds(k)  == k \in {"credit", "onramp"}
Takes(k) == k \in {"debit", "offramp"}
Ramps(k) == k \in {"onramp", "offramp"}
Delta(c) == IF Adds(c.kind) THEN c.amt ELSE IF Takes(c.kind) THEN -c.amt ELSE 0

\* getBalance: no effect.
GetBalance(o) ==
  /\ Running(o)
  /\ call[o].kind = "balance"
  /\ Answer(o, "ok")
  /\ UNCHANGED <<phase, mem, disk, call, crashes>>

\* assertCents, and the funds check of debit and of an offramp.
Refuse(o) ==
  /\ Running(o)
  /\ call[o].kind # "balance"
  /\ \/ call[o].amt > SafeMax /\ Answer(o, "range_error")
     \/ /\ call[o].amt <= SafeMax
        /\ Takes(call[o].kind)
        /\ mem.bal[call[o].acct] < call[o].amt
        /\ Answer(o, "insufficient")
  /\ UNCHANGED <<phase, mem, disk, call, crashes>>

\* Numbers are IEEE doubles.  Integers up to 2^53 = SafeMax + 1 are exact; a
\* larger one is rounded to a multiple of the gap between neighbouring
\* doubles, the even multiple when two are equally near.
Gap(n) == 2 * Max({u \in 1..n : /\ \E k \in 0..n : u = 2^k
                                /\ u * (SafeMax + 1) < n})

Nearest(n, g) ==
  LET q == n \div g  r == n % g IN
    IF 2 * r > g \/ (2 * r = g /\ q % 2 = 1) THEN (q + 1) * g ELSE q * g

Double(n) == IF n <= SafeMax + 1 THEN n ELSE Nearest(n, Gap(n))

\* credit, debit and recordRamp change memory, then await persist(); nothing
\* bounds the sum.
Mutate(o) ==
  /\ Running(o)
  /\ call[o].kind # "balance"
  /\ call[o].amt <= SafeMax
  /\ Takes(call[o].kind) => mem.bal[call[o].acct] >= call[o].amt
  /\ mem' = [bal   |-> [mem.bal EXCEPT ![call[o].acct] = Double(@ + Delta(call[o]))],
             ramps |-> IF Ramps(call[o].kind) THEN mem.ramps \cup {o} ELSE mem.ramps,
             log   |-> mem.log \cup {o}]
  /\ step' = "persist"
  /\ UNCHANGED <<phase, disk, queue, call, res, crashes>>

\* Mutant: the caller is answered before the rename.
PersistEarlyAck ==
  /\ phase = "open"
  /\ step = "persist"
  /\ disk' = mem \/ UNCHANGED disk
  /\ Answer(Head(queue), "ok")
  /\ UNCHANGED <<phase, mem, call, crashes>>

\* Mutant: a failed write leaves the queue stuck behind it.
PersistPoison ==
  /\ phase = "open"
  /\ step = "persist"
  /\ \/ disk' = mem /\ Answer(Head(queue), "ok")
     \/ /\ UNCHANGED <<disk, queue>>
        /\ step' = "stuck"
        /\ res' = [res EXCEPT ![Head(queue)] = "io_error"]
  /\ UNCHANGED <<phase, mem, call, crashes>>

\* persist(): the rename replaces the file, or some step of the write fails;
\* memory keeps the change either way.
Persist ==
  /\ phase = "open"
  /\ step = "persist"
  /\ \/ disk' = mem /\ Answer(Head(queue), "ok")
     \/ UNCHANGED disk /\ Answer(Head(queue), "io_error")
  /\ UNCHANGED <<phase, mem, call, crashes>>

\* The process stops: memory and the queue are gone, the file stays.
Crash ==
  /\ phase = "open"
  /\ crashes < MaxCrash
  /\ crashes' = crashes + 1
  /\ phase' = "closed"
  /\ mem' = emptySnapshot
  /\ queue' = <<>>
  /\ step' = "ready"
  /\ res' = [o \in Op |-> IF call[o] # None /\ res[o] = "none" THEN "lost" ELSE res[o]]
  /\ UNCHANGED <<disk, call>>

Next ==
  \/ Open
  \/ \E o \in Op, c \in Call : Enqueue(o, c)
  \/ \E o \in Op : GetBalance(o) \/ Refuse(o) \/ Mutate(o)
  \/ Persist
  \/ Crash

Spec == Init /\ [][Next]_vars

\* The event loop runs the head of the queue, and a write ends either way.
FairSpec ==
  /\ Spec
  /\ \A o \in Op : WF_vars(GetBalance(o) \/ Refuse(o) \/ Mutate(o))
  /\ WF_vars(Persist)

-----------------------------------------------------------------------------
(* Properties *)

Snapshots == {mem} \cup (IF disk = None THEN {} ELSE {disk})

\* All that was ever paid into account a, by the log of snapshot s.
Credited(s, a) ==
  Sum([o \in s.log |-> IF Adds(call[o].kind) THEN call[o].amt ELSE 0],
      {o \in s.log : call[o].acct = a})

\* Every snapshot, in memory and on disk, adds up: no account is overdrawn,
\* the ramp events are exactly those of its operations, and an account into
\* which no more than SafeMax + 1 was ever paid holds exactly what the
\* operations moved ("concurrent callers cannot interleave a
\* read-modify-write cycle").  Beyond that the sums are rounded.
Conserved ==
  \A s \in Snapshots :
    /\ s.ramps = {o \in s.log : Ramps(call[o].kind)}
    /\ \A a \in Acct :
         /\ s.bal[a] >= 0
         /\ Credited(s, a) <= SafeMax + 1 =>
              s.bal[a] = Sum([o \in s.log |-> Delta(call[o])],
                             {o \in s.log : call[o].acct = a})

\* An operation its caller saw succeed is in the file, whatever failed or
\* stopped since.
AckDurable ==
  \A o \in Op :
    (res[o] = "ok" /\ call[o].kind # "balance") => disk # None /\ o \in disk.log

\* A refused operation leaves no trace ("the event is NOT recorded and the
\* balance is unchanged", mock-usd-ledger.ts:257); one whose write failed is
\* in memory and becomes durable with the next write.
RefusedNoEffect ==
  \A o \in Op : res[o] \in {"insufficient", "range_error"} =>
    \A s \in Snapshots : o \notin s.log

\* "Errors ... do NOT poison the queue for subsequent callers"
\* (mock-usd-ledger.ts:353): every operation is answered, or lost in a crash.
QueueDrains == \A o \in Op : (call[o] # None) ~> (res[o] # "none" /\ queue = <<>>)

\* "USD amount in cents.  Always a non-negative safe integer"
\* (mock-usd-ledger.ts:39): also of the balances credit and recordRamp write.
BalancesSafe == \A s \in Snapshots : ValidSnapshot(s)

\* The ledger writes no file it refuses to open (LedgerCorruptError), unless
\* some account was paid more than a safe integer, which nothing checks.
Reopens == phase = "corrupt" => \E a \in Acct : Credited(disk, a) > SafeMax

\* The ledger file through failed writes and crashes: it adds up, it holds all
\* that was acknowledged and nothing that was refused, and it can be opened
\* again unless an account overflowed.
LedgerSound == Conserved /\ AckDurable /\ RefusedNoEffect /\ Reopens
=============================================================================
