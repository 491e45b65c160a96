------------------------------ MODULE BppRuntime ------------------------------
(***************************************************************************)
(* A provider process (keeper/bpps/*/main.ts on keeper/templates/bpp): it  *)
(* registers its agent card, checks its own credential, and runs runBpp:   *)
(* take an event from the queue, drop it if its task was seen, ask the     *)
(* credential gate, run the handler against a timeout, and submit the      *)
(* signed verdict to the chain.  One action per stretch between awaits.    *)
(*                                                                         *)
(* The loop dispatches one task at a time, but a handler that timed out is *)
(* not stopped: it goes on beside the tasks that follow.  External: the    *)
(* chain, the agent cards on it, and who delivers events (any of them may  *)
(* be delivered again).  The mains wire stubs at these places (a lookup    *)
(* that finds nothing, a seeded card); the model stands for the seams of   *)
(* RegisterBppDeps, CredentialGateDeps and RuntimeChain instead.           *)
(***************************************************************************)
EXTENDS CredentialGate, ServiceHandlers

CONSTANTS
  Cards,       \* the cards an agent may hold at the beginning
  Reqs,        \* the requirement lists a provider may be configured with
  Self,        \* [schema, issuerSet] of the provider's own skill credential
  None,
  MaxEvents,   \* bound: events delivered
  MaxCrash,    \* bound: crashes
  MaxNow       \* bound: the clock

ASSUME BppAssumption ==
  /\ None \notin Task
  /\ Self.issuerSet # {}   \* main.ts falls back to one issuer
  /\ MaxEvents \in Nat /\ MaxCrash \in Nat /\ MaxNow \in Nat \ {0}
  /\ \A held \in Cards : held \subseteq Credential
  /\ \A r \in Reqs : r \in Seq(Requirement)

VARIABLES
  kind,      \* which provider this is (fixed)
  required,  \* requiredBapCredentials (fixed)
  card,      \* the card of the agent the tasks come from
  now,       \* seconds
  agents,    \* agent cards registered for the provider
  at,        \* where main and runBpp stand
  queue,     \* InMemoryEventSource.queue, by task
  closed,    \* InMemoryEventSource.closed
  seen,      \* seenTaskIds
  cur,       \* the task in dispatchOne
  snap,      \* the card loadAgentCard returned, until the gate has judged it
  verdict,   \* what dispatchOne will submit: status, and whose result it is
  events,    \* events delivered so far
  crashes,   \* crashes so far
  landed,    \* history: the verdicts of this process the chain took, in order
  late,      \* history: tasks whose handler timed out in this process
  barred,    \* history: tasks taken when every credential was revoked
  ran        \* history: tasks whose handler was started in this process

config == <<kind, required>>
process == <<at, queue, closed, seen, cur, snap, verdict, work, landed, late, barred, ran>>
world == <<card, now, agents, events, crashes>>
vars == <<config, process, world>>

Startup == {"down", "find", "register", "preflight"}
Loop == {"loop", "parked", "gate", "gated", "work", "submit", "done"}
Verdict == [status: {"complete", "fail"}, of: Task]

TypeOK ==
  /\ kind \in Kinds /\ required \in Reqs
  /\ card \subseteq Credential /\ snap \in (SUBSET Credential) \cup {None}
  /\ now \in 1..MaxNow /\ agents \in Nat
  /\ at \in Startup \cup Loop
  /\ queue \in Seq(Task) /\ closed \in BOOLEAN
  /\ seen \subseteq Task /\ cur \in seen \cup {None}
  /\ verdict \in Verdict \cup {None}
  /\ work \in [Task -> Stage \cup Settled \cup {"none"}]
  /\ events \in 0..MaxEvents /\ crashes \in 0..MaxCrash
  /\ landed \in Seq([task: Task, status: {"complete", "fail"}, of: Task])
  /\ late \subseteq ran /\ ran \subseteq seen /\ barred \subseteq seen

FreshProcess ==
  /\ queue = <<>> /\ closed = FALSE
  /\ seen = {} /\ cur = None /\ snap = None /\ verdict = None
  /\ work = [t \in Task |-> "none"]
  /\ landed = <<>> /\ late = {} /\ barred = {} /\ ran = {}

Init ==
  /\ kind \in Kinds /\ required \in Reqs
  /\ card \in Cards /\ now = 1 /\ agents = 0
  /\ at = "down" /\ FreshProcess
  /\ events = 0 /\ crashes = 0

----------------------------------------------------------------------------
(* main: registration and the check of the provider's own credential. *)

At(p, q) == at = p /\ at' = q
queueVars == <<queue, closed>>
taskVars == <<seen, cur, snap, verdict, work>>
history == <<landed, late, barred, ran>>

Start ==
  /\ At("down", "find")
  /\ UNCHANGED <<config, world, queueVars, taskVars, history>>

\* main.ts: only two of the providers have the preflight.
AfterRegistration == IF kind \in {"data_analyze", "code_audit"} THEN "preflight" ELSE "loop"

\* Mutant: registers without looking for a card of its own first.
FindAgentCardBlind ==
  /\ At("find", "register")
  /\ UNCHANGED <<config, world, queueVars, taskVars, history>>

FindAgentCard ==
  /\ At("find", IF agents > 0 THEN AfterRegistration ELSE "register")
  /\ UNCHANGED <<config, world, queueVars, taskVars, history>>

\* registerAgent, or the pinner before it, may throw, also when the
\* transaction went through: main rejects and the process ends.
RegisterAgent ==
  /\ at = "register"
  /\ \E ok, taken \in BOOLEAN :
       /\ ok => taken
       /\ at' = IF ok THEN AfterRegistration ELSE "down"
       /\ agents' = IF taken THEN agents + 1 ELSE agents
  /\ UNCHANGED <<config, card, now, events, crashes, queueVars, taskVars, history>>

\* The provider's own card, as it is on the chain now.
Preflight ==
  /\ \E own \in Cards :
       At("preflight", IF AssertSelfSkillCredential(own, Self.schema, Self.issuerSet, now)
                       THEN "loop" ELSE "down")
  /\ UNCHANGED <<config, world, queueVars, taskVars, history>>

----------------------------------------------------------------------------
(* InMemoryEventSource *)

\* Mutant: push does not wake the iterator that waits.
PushSilent(t) ==
  /\ at \in Loop /\ ~closed /\ events < MaxEvents
  /\ queue' = Append(queue, t)
  /\ events' = events + 1
  /\ UNCHANGED <<config, at, card, now, agents, crashes, closed, taskVars, history>>

Push(t) ==
  /\ at \in Loop /\ ~closed /\ events < MaxEvents
  /\ queue' = Append(queue, t)
  /\ at' = IF at = "parked" THEN "loop" ELSE at
  /\ events' = events + 1
  /\ UNCHANGED <<config, card, now, agents, crashes, closed, taskVars, history>>

Close ==
  /\ at \in Loop /\ ~closed
  /\ closed' = TRUE
  /\ at' = IF at = "parked" THEN "loop" ELSE at
  /\ UNCHANGED <<config, world, queue, taskVars, history>>

\* The iterator on an empty queue: end of the stream, or wait for push.
Park ==
  /\ queue = <<>>
  /\ At("loop", IF closed THEN "done" ELSE "parked")
  /\ UNCHANGED <<config, world, queueVars, taskVars, history>>

----------------------------------------------------------------------------
(* runBpp and dispatchOne *)

\* The head of the queue: a task seen before is dropped, another one is
\* dispatched.
Take ==
  /\ at = "loop" /\ queue # <<>>
  /\ queue' = Tail(queue)
  /\ LET t == Head(queue) IN
       IF t \in seen
       THEN UNCHANGED <<at, seen, cur, barred>>
       ELSE /\ at' = "gate"
            /\ seen' = seen \cup {t}
            /\ cur' = t
            /\ barred' = IF \A c \in card : c.revoked THEN barred \cup {t} ELSE barred
  /\ UNCHANGED <<config, world, closed, snap, verdict, work, landed, late, ran>>

\* dispatchOne goes on to submit v.
Decide(v) ==
  /\ at' = "submit"
  /\ verdict' = v

Failed == [status |-> "fail", of |-> cur]

\* Mutant: the gate keeps cards and sees them as they were before revocation.
GateLoadCached ==
  /\ required # <<>>
  /\ At("gate", "gated")
  /\ snap' = {[c EXCEPT !.revoked = FALSE] : c \in card}
  /\ UNCHANGED <<config, world, queueVars, seen, cur, verdict, work, history>>

\* gate(bapPubkey): a list of requirements needs the card as it is now.
GateLoad ==
  /\ required # <<>>
  /\ At("gate", "gated")
  /\ snap' = card
  /\ UNCHANGED <<config, world, queueVars, seen, cur, verdict, work, history>>

\* loadAgentCard throws and the gate denies, or the gate itself throws.
GateFails ==
  /\ required # <<>>
  /\ at = "gate" /\ Decide(Failed)
  /\ UNCHANGED <<config, world, queueVars, seen, cur, snap, work, history>>

\* handleTask is called and runs to its first await; its input is valid or
\* not.
StartHandler ==
  /\ at' = "work"
  /\ \E valid \in BOOLEAN :
       work' = [work EXCEPT ![cur] = IF valid THEN FirstAwait[kind] ELSE "failure"]
  /\ ran' = ran \cup {cur}
  /\ UNCHANGED verdict

\* The gate without requirements is open; with them it judges the card it
\* loaded at the time it has now.
GateDecides ==
  /\ \/ at = "gate" /\ required = <<>> /\ StartHandler
     \/ /\ at = "gated"
        /\ IF DefaultMissing(snap, required, now) = {}
           THEN StartHandler
           ELSE Decide(Failed) /\ UNCHANGED <<work, ran>>
  /\ snap' = None
  /\ UNCHANGED <<config, world, queueVars, seen, cur, landed, late, barred>>

\* Mutant: the runtime takes the result of any handler that has settled.
HandlerSettlesAny ==
  /\ at = "work"
  /\ \E t \in ran :
       /\ work[t] \in Settled
       /\ Decide([status |-> IF work[t] = "success" THEN "complete" ELSE "fail", of |-> t])
  /\ UNCHANGED <<config, world, queueVars, seen, cur, snap, work, history>>

\* The promise of the handler settles before the timer fires.
HandlerSettles ==
  /\ at = "work" /\ work[cur] \in Settled
  /\ Decide([status |-> IF work[cur] = "success" THEN "complete" ELSE "fail", of |-> cur])
  /\ UNCHANGED <<config, world, queueVars, seen, cur, snap, work, history>>

\* The timer fires first: the task fails and its handler goes on.
HandlerTimeout ==
  /\ at = "work" /\ work[cur] \notin Settled
  /\ Decide(Failed)
  /\ late' = late \cup {cur}
  /\ UNCHANGED <<config, world, queueVars, seen, cur, snap, work, landed, barred, ran>>

HandlerRuns(t) ==
  /\ HandlerStep(t)
  /\ UNCHANGED <<config, world, queueVars, at, seen, cur, snap, verdict, history>>

\* What the chain has taken after a submission of v.
Land(v) == landed' = Append(landed, [task |-> cur, status |-> v.status, of |-> v.of])

\* Mutant: completeTask that throws is followed by failTask.
SubmitThenFail ==
  /\ at = "submit"
  /\ \E ok, taken \in BOOLEAN :
       /\ ok => taken
       /\ IF taken THEN Land(verdict) ELSE UNCHANGED landed
       /\ IF ok \/ verdict.status = "fail"
          THEN at' = "loop" /\ cur' = None /\ verdict' = None
          ELSE at' = "submit" /\ cur' = cur /\ verdict' = Failed
  /\ UNCHANGED <<config, world, queueVars, seen, snap, work, late, barred, ran>>

\* completeTask or failTask through SigningRuntimeChain.  The signer or the
\* chain may throw, also when the chain took the call; it is logged, and the
\* loop goes on.
Submit ==
  /\ at = "submit"
  /\ \E taken \in BOOLEAN : IF taken THEN Land(verdict) ELSE UNCHANGED landed
  /\ at' = "loop" /\ cur' = None /\ verdict' = None
  /\ UNCHANGED <<config, world, queueVars, seen, snap, work, late, barred, ran>>

----------------------------------------------------------------------------
(* The world *)

\* The process ends; what it kept in memory is gone.
Crash ==
  /\ at # "down" /\ crashes < MaxCrash
  /\ crashes' = crashes + 1
  /\ at' = "down"
  /\ queue' = <<>> /\ closed' = FALSE
  /\ seen' = {} /\ cur' = None /\ snap' = None /\ verdict' = None
  /\ work' = [t \in Task |-> "none"]
  /\ landed' = <<>> /\ late' = {} /\ barred' = {} /\ ran' = {}
  /\ UNCHANGED <<config, card, now, agents, events>>

\* The issuer revokes a credential of the agent, for good.
Revoke ==
  /\ \E c \in card :
       /\ ~c.revoked
       /\ card' = (card \ {c}) \cup {[c EXCEPT !.revoked = TRUE]}
  /\ UNCHANGED <<config, process, now, agents, events, crashes>>

Tick ==
  /\ now < MaxNow /\ now' = now + 1
  /\ UNCHANGED <<config, process, card, agents, events, crashes>>

Next ==
  \/ Start \/ FindAgentCard \/ RegisterAgent \/ Preflight
  \/ Close \/ Park \/ Take
  \/ GateLoad \/ GateFails \/ GateDecides
  \/ HandlerSettles \/ HandlerTimeout \/ Submit
  \/ Crash \/ Revoke \/ Tick
  \/ \E t \in Task : Push(t) \/ HandlerRuns(t)

\* The event loop runs what is ready, timers fire, and the card loader and
\* the chain answer each call in the end: they have no timeout here.  Nothing
\* is assumed of a handler.
Fairness ==
  /\ WF_vars(Park) /\ WF_vars(Take)
  /\ WF_vars(GateLoad \/ GateFails) /\ WF_vars(GateDecides)
  /\ WF_vars(HandlerSettles \/ HandlerTimeout)
  /\ WF_vars(Submit)

Spec == Init /\ [][Next]_vars
FairSpec == Spec /\ Fairness

----------------------------------------------------------------------------
(* Properties *)

Verdicts == {landed[i] : i \in 1..Len(landed)}

\* However often an event is delivered, whatever times out and whatever reply
\* is lost, one process gets at most one verdict of a task onto the chain:
\* never two, and never both a completion and a failure.
OneVerdictPerTask ==
  \A i, j \in 1..Len(landed) : landed[i].task = landed[j].task => i = j

\* A task is completed with the result of its own handler, which succeeded in
\* time; a handler that runs on after its timeout leaks into no verdict.
VerdictIsOwn ==
  \A v \in Verdicts : v.status = "complete" =>
    v.of = v.task /\ work[v.task] = "success" /\ v.task \notin late

\* A revocation takes effect at once: when the agent's last credential is
\* revoked before its task is taken from the queue, the handler of a
\* provider that requires an active credential never starts.
RevocationTakesEffect ==
  (\E i \in DOMAIN required : required[i].mustBeActive)
    => barred \cap ran = {}

\* The three gates agree at every time and card: without predicates
\* composeGates lets through and reports what defaultCredentialGate does, in
\* "first-fail" mode the first of it; a predicate only narrows; and the check
\* of a provider's own card is the gate with one active requirement.
GatesAgree ==
  /\ \A r \in Reqs, predicate \in BOOLEAN :
       LET d == DefaultMissing(card, r, now)
           all == ComposedMissing(card, r, predicate, now, "all")
           first == ComposedMissing(card, r, predicate, now, "first-fail")
       IN  /\ ~predicate => all = d
           /\ all = {} => d = {}
           /\ first \subseteq all /\ \A i \in first, j \in all : i <= j
           /\ first = {} => all = {}
  /\ AssertSelfSkillCredential(card, Self.schema, Self.issuerSet, now) =
       FindMatchingCredential(card, [schema |-> Self.schema, issuerSet |-> Self.issuerSet,
                                     mustBeActive |-> TRUE, margin |-> 0], now)

\* Through crashes and lost replies a provider registers one agent card.
RegisteredOnce == agents <= 1

\* Every event that was pushed is dispatched and left behind although handlers
\* hang and chain calls throw, unless the process ends.
EveryEventDispatched ==
  \A t \in Task :
    (\E i \in 1..Len(queue) : queue[i] = t) ~> (at \in Startup \/ (t \in seen /\ cur # t))
=============================================================================
