-------------------------- MODULE BppRuntime_proofs --------------------------
(***************************************************************************)
(* Proofs about BppRuntime for any tasks, cards, requirements and any      *)
(* number of events and crashes: types, one verdict per task, verdicts are *)
(* own, revocations take effect, and one registration.                     *)
(***************************************************************************)
EXTENDS BppRuntime, WellFoundedInduction, TLAPS

Busy == {"gate", "gated", "work", "submit"}

\* dispatchOne always has a task, and something to submit when it submits.
CurrentInv ==
  /\ at \in Busy => cur \in seen
  /\ at = "work" => cur \in ran
  /\ at = "submit" => verdict \in Verdict

TInv == TypeOK /\ CurrentInv

\* What dispatchOne knows of its task at each await.
DispatchInv ==
  /\ at \in {"gate", "gated"} => cur \notin ran
  /\ at = "work" => cur \notin late
  /\ at = "submit" =>
       /\ verdict.of = cur
       /\ verdict.status = "complete" => work[cur] = "success" /\ cur \notin late

\* A verdict on the chain is of a task that was seen, and not of the one in
\* dispatch.
LandedInv ==
  \A i \in 1..Len(landed) :
    landed[i].task \in seen /\ (at \in Busy => landed[i].task # cur)

AllRevoked(held) == \A c \in held : c.revoked

\* While a barred task is at the gate its agent's card has nothing left that
\* is active, on the chain or in the gate's hands.
BarredInv ==
  /\ at \in {"gate", "gated"} /\ cur \in barred => AllRevoked(card)
  /\ at = "gated" /\ cur \in barred => AllRevoked(snap)

\* registerAgent is only reached when the look-up found nothing.
RegisterInv == agents <= 1 /\ (at = "register" => agents = 0)

-----------------------------------------------------------------------------
\* A handler that has settled takes no further step, and a step of one
\* handler leaves the others alone.
LEMMA HandlerKeepsSettled ==
  ASSUME TypeOK, NEW t \in Task, HandlerStep(t)
  PROVE  /\ work' \in [Task -> Stage \cup Settled \cup {"none"}]
         /\ \A u \in Task : work[u] \in Settled => work'[u] = work[u]
<1>1. ASSUME NEW stage \in Stage, NEW outcomes \in SUBSET (Stage \cup Settled), Await(t, stage, outcomes)
      PROVE  /\ work' \in [Task -> Stage \cup Settled \cup {"none"}]
             /\ \A u \in Task : work[u] \in Settled => work'[u] = work[u]
  BY <1>1 DEF Await, TypeOK, Stage, Settled
<1>2. CASE TextSummarize(t)
  BY <1>1, <1>2 DEF TextSummarize, FetchSource, Summarize, Stage, Settled
<1>3. CASE WebResearch(t)
  BY <1>1, <1>3 DEF WebResearch, PlanQueries, Search, FetchPages, Synthesize, Stage, Settled
<1>4. CASE ImageGenerate(t)
  BY <1>1, <1>4 DEF ImageGenerate, Generate, PollUntilDone, Download, PinBytes, Stage, Settled
<1>5. CASE DataAnalyze(t)
  BY <1>1, <1>5 DEF DataAnalyze, FetchCsv, Analyze, Stage, Settled
<1>6. CASE CodeAudit(t)
  BY <1>1, <1>6 DEF CodeAudit, LoadSources, RunStaticAuditor, LlmAudit, Stage, Settled
<1>. QED
  BY <1>2, <1>3, <1>4, <1>5, <1>6 DEF HandlerStep

\* The first state a handler can be in is one of the types of work.
LEMMA FirstAwaitType ==
  ASSUME NEW k \in Kinds
  PROVE  FirstAwait[k] \in Stage \cup Settled
BY DEF Kinds, FirstAwait, Stage, Settled

-----------------------------------------------------------------------------
(* Types *)

LEMMA InitType == Init => TInv
<1>. SUFFICES ASSUME Init PROVE TInv
  OBVIOUS
<1>1. CurrentInv
  BY DEF Init, CurrentInv, Busy
<1>2. card \subseteq Credential /\ now \in 1..MaxNow /\ events \in 0..MaxEvents /\ crashes \in 0..MaxCrash
  BY BppAssumption DEF Init
<1>3. work \in [Task -> Stage \cup Settled \cup {"none"}] /\ queue \in Seq(Task)
  BY DEF Init, FreshProcess
<1>4. landed \in Seq([task: Task, status: {"complete", "fail"}, of: Task])
  BY DEF Init, FreshProcess
<1>. QED
  BY <1>1, <1>2, <1>3, <1>4 DEF Init, FreshProcess, TInv, TypeOK, Startup, Loop

(* Every step of the runtime keeps the types. *)
LEMMA TypeStep == TInv /\ [Next]_vars => TInv'
<1>. SUFFICES ASSUME TInv, [Next]_vars PROVE TInv'
  OBVIOUS
<1>. USE DEF TInv, TypeOK, CurrentInv, Busy, Startup, Loop
<1>1. CASE Start
  BY <1>1 DEF Start, At, config, world, queueVars, taskVars, history
<1>2. CASE FindAgentCard
  BY <1>2 DEF FindAgentCard, AfterRegistration, At, config, world, queueVars, taskVars, history
<1>3. CASE RegisterAgent
  BY <1>3 DEF RegisterAgent, AfterRegistration, config, queueVars, taskVars, history
<1>4. CASE Preflight
  BY <1>4 DEF Preflight, At, config, world, queueVars, taskVars, history
<1>5. CASE Close
  BY <1>5 DEF Close, config, world, taskVars, history
<1>6. CASE Park
  BY <1>6 DEF Park, At, config, world, queueVars, taskVars, history
<1>7. CASE Take
  BY <1>7 DEF Take, config, world
<1>8. CASE GateLoad
  BY <1>8 DEF GateLoad, At, config, world, queueVars, history
<1>9. CASE GateFails
  BY <1>9 DEF GateFails, Decide, Failed, Verdict, config, world, queueVars, history
<1>10. CASE GateDecides
  <2>1. ASSUME StartHandler, UNCHANGED <<seen, cur>>, cur \in seen
        PROVE  /\ at' = "work" /\ verdict' = verdict
               /\ work' \in [Task -> Stage \cup Settled \cup {"none"}]
               /\ ran' = ran \cup {cur}
    BY <2>1, FirstAwaitType DEF StartHandler, Settled
  <2>2. ASSUME Decide(Failed), cur \in seen
        PROVE  at' = "submit" /\ verdict' \in Verdict
    BY <2>2 DEF Decide, Failed, Verdict
  <2>. QED
    BY <1>10, <2>1, <2>2 DEF GateDecides, config, world, queueVars
<1>11. CASE HandlerSettles
  BY <1>11 DEF HandlerSettles, Decide, Verdict, config, world, queueVars, history
<1>12. CASE HandlerTimeout
  BY <1>12 DEF HandlerTimeout, Decide, Failed, Verdict, config, world, queueVars
<1>13. CASE Submit
  <2>. DEFINE R == [task: Task, status: {"complete", "fail"}, of: Task]
              r == [task |-> cur, status |-> verdict.status, of |-> verdict.of]
  <2>0. r \in R /\ landed \in Seq(R)
    BY <1>13 DEF Submit, Verdict
  <2>1. landed' = Append(landed, r) \/ landed' = landed
    BY <1>13 DEF Submit, Land
  <2>. HIDE DEF R, r
  <2>2. landed' \in Seq(R)
    BY <2>0, <2>1
  <2>. QED
    BY <1>13, <2>2 DEF R, Submit, config, world, queueVars
<1>14. CASE Crash
  <2>1. /\ work' \in [Task -> Stage \cup Settled \cup {"none"}]
        /\ landed' \in Seq([task: Task, status: {"complete", "fail"}, of: Task])
        /\ queue' \in Seq(Task)
    BY <1>14 DEF Crash
  <2>2. crashes' \in 0..MaxCrash
    BY <1>14, BppAssumption DEF Crash
  <2>3. CurrentInv' /\ at' \in Startup
    BY <1>14 DEF Crash
  <2>. QED
    BY <1>14, <2>1, <2>2, <2>3 DEF Crash, config
<1>15. CASE Revoke
  <2>1. card' \subseteq Credential
    BY <1>15 DEF Revoke, Credential
  <2>. QED
    BY <1>15, <2>1 DEF Revoke, config, process
<1>16. CASE Tick
  BY <1>16, BppAssumption DEF Tick, config, process
<1>17. ASSUME NEW t \in Task, Push(t) PROVE TInv'
  BY <1>17, BppAssumption DEF Push, config, taskVars, history
<1>18. ASSUME NEW t \in Task, HandlerRuns(t) PROVE TInv'
  BY <1>18, HandlerKeepsSettled DEF HandlerRuns, config, world, queueVars, history
<1>19. CASE UNCHANGED vars
  BY <1>19 DEF vars, config, process, world
<1>. QED
  BY <1>1, <1>2, <1>3, <1>4, <1>5, <1>6, <1>7, <1>8, <1>9, <1>10, <1>11, <1>12, <1>13,
     <1>14, <1>15, <1>16, <1>17, <1>18, <1>19 DEF Next

\* Every variable keeps its type, whatever the bounds, cards and requirements:
\* the task in dispatch was seen, and handlers start and time out only for
\* tasks that were seen.
THEOREM TypeCorrect == Spec => []TypeOK
<1>1. Init => TInv BY InitType
<1>2. TInv /\ [Next]_vars => TInv' BY TypeStep
<1>3. TInv => TypeOK BY DEF TInv
<1>. QED BY <1>1, <1>2, <1>3, PTL DEF Spec

-----------------------------------------------------------------------------
(* Verdicts *)

\* The part of the invariant about verdicts, with VerdictIsOwn spelled out by
\* position.
OwnAt(i) == landed[i].status = "complete" =>
              /\ landed[i].of = landed[i].task
              /\ work[landed[i].task] = "success"
              /\ landed[i].task \notin late

VInv == DispatchInv /\ LandedInv /\ OneVerdictPerTask /\ \A i \in 1..Len(landed) : OwnAt(i)

\* A step that leaves dispatch and verdicts alone.
LEMMA VFrame ==
  ASSUME VInv, UNCHANGED <<landed, work, late, seen, cur, ran, verdict>>,
         at' \in Busy => at' = at
  PROVE  VInv'
BY DEF VInv, DispatchInv, LandedInv, OneVerdictPerTask, OwnAt, Busy

\* A step of dispatchOne that lands nothing and can change the handler's state
\* and the mark of the current task only.
LEMMA VDispatch ==
  ASSUME TInv, VInv, UNCHANGED <<landed, seen, cur>>, at \in Busy, at' \in Busy,
         \A u \in Task : u # cur => work'[u] = work[u] /\ (u \in late' => u \in late)
  PROVE  LandedInv' /\ OneVerdictPerTask' /\ (\A i \in 1..Len(landed) : OwnAt(i))'
<1>1. \A i \in 1..Len(landed) : landed[i].task \in Task /\ landed[i].task # cur
  BY DEF TInv, TypeOK, VInv, LandedInv
<1>. QED
  BY <1>1 DEF VInv, LandedInv, OneVerdictPerTask, OwnAt

(* Every step keeps what the verdicts say about their tasks. *)
LEMMA VStep == TInv /\ VInv /\ [Next]_vars => VInv'
<1>. SUFFICES ASSUME TInv, VInv, [Next]_vars PROVE VInv'
  OBVIOUS
<1>1. CASE Start \/ FindAgentCard \/ RegisterAgent \/ Preflight
  BY <1>1, VFrame DEF Start, FindAgentCard, RegisterAgent, Preflight, AfterRegistration, At,
     taskVars, history, Busy
<1>2. CASE Close \/ Park
  BY <1>2, VFrame DEF Close, Park, At, taskVars, history, Busy
<1>3. CASE Take
  <2>1. CASE Head(queue) \in seen
    BY <1>3, <2>1, VFrame DEF Take
  <2>2. CASE Head(queue) \notin seen
    <3>1. /\ at' = "gate" /\ cur' = Head(queue) /\ seen' = seen \cup {Head(queue)}
          /\ UNCHANGED <<landed, work, late, ran, verdict>>
      BY <1>3, <2>2 DEF Take
    <3>2. Head(queue) \notin ran
      BY <2>2 DEF TInv, TypeOK
    <3>. QED
      BY <2>2, <3>1, <3>2 DEF VInv, DispatchInv, LandedInv, OneVerdictPerTask, OwnAt, Busy
  <2>. QED
    BY <2>1, <2>2
<1>4. CASE GateLoad
  <2>1. UNCHANGED <<landed, seen, cur, work, late, ran>> /\ at = "gate" /\ at' = "gated"
    BY <1>4 DEF GateLoad, At, history
  <2>2. DispatchInv'
    BY <2>1 DEF VInv, DispatchInv
  <2>. QED
    BY <2>1, <2>2, VDispatch DEF VInv, Busy
<1>5. CASE GateFails
  <2>1. UNCHANGED <<landed, seen, cur, work, late>> /\ at = "gate" /\ at' = "submit" /\ verdict' = Failed
    BY <1>5 DEF GateFails, Decide, history
  <2>2. DispatchInv'
    BY <2>1 DEF DispatchInv, Failed
  <2>. QED
    BY <2>1, <2>2, VDispatch DEF VInv, Busy
<1>6. CASE GateDecides
  <2>1. UNCHANGED <<landed, seen, cur, late>> /\ at \in {"gate", "gated"}
    BY <1>6 DEF GateDecides
  <2>2. CASE StartHandler
    <3>1. at' = "work" /\ \A u \in Task : u # cur => work'[u] = work[u]
      BY <2>2 DEF StartHandler, TInv, TypeOK
    <3>2. cur \notin late
      BY <2>1 DEF VInv, DispatchInv, TInv, TypeOK
    <3>3. DispatchInv'
      BY <2>1, <3>1, <3>2 DEF DispatchInv
    <3>. QED
      BY <2>1, <3>1, <3>3, VDispatch DEF VInv, Busy
  <2>3. CASE Decide(Failed) /\ UNCHANGED <<work, ran>>
    <3>1. DispatchInv'
      BY <2>1, <2>3 DEF DispatchInv, Decide, Failed
    <3>. QED
      BY <2>1, <2>3, <3>1, VDispatch DEF VInv, Busy, Decide
  <2>. QED
    BY <1>6, <2>2, <2>3 DEF GateDecides
<1>7. CASE HandlerSettles
  <2>1. UNCHANGED <<landed, seen, cur, work, late>> /\ at = "work" /\ at' = "submit"
    BY <1>7 DEF HandlerSettles, Decide, history
  <2>2. verdict' = [status |-> IF work[cur] = "success" THEN "complete" ELSE "fail", of |-> cur]
    BY <1>7 DEF HandlerSettles, Decide
  <2>3. DispatchInv'
    BY <2>1, <2>2 DEF VInv, DispatchInv
  <2>. QED
    BY <2>1, <2>3, VDispatch DEF VInv, Busy
<1>8. CASE HandlerTimeout
  <2>1. UNCHANGED <<landed, seen, cur, work>> /\ at = "work" /\ at' = "submit" /\ verdict' = Failed
        /\ late' = late \cup {cur}
    BY <1>8 DEF HandlerTimeout, Decide
  <2>2. DispatchInv'
    BY <2>1 DEF DispatchInv, Failed
  <2>. QED
    BY <2>1, <2>2, VDispatch DEF VInv, Busy
<1>9. CASE Submit
  <2>. DEFINE r == [task |-> cur, status |-> verdict.status, of |-> verdict.of]
  <2>1. at = "submit" /\ at' = "loop" /\ UNCHANGED <<seen, work, late>> /\ cur \in seen
    BY <1>9 DEF Submit, TInv, CurrentInv, Busy
  <2>2. landed' = Append(landed, r) \/ landed' = landed
    BY <1>9 DEF Submit, Land
  <2>3. landed \in Seq([task: Task, status: {"complete", "fail"}, of: Task])
    BY DEF TInv, TypeOK
  <2>4. /\ \A i \in 1..Len(landed) : landed[i].task \in seen /\ landed[i].task # cur /\ OwnAt(i)
        /\ verdict.of = cur
        /\ verdict.status = "complete" => work[cur] = "success" /\ cur \notin late
    BY <2>1 DEF VInv, LandedInv, DispatchInv, Busy
  <2>5. CASE landed' = landed
    BY <2>1, <2>4, <2>5 DEF VInv, DispatchInv, LandedInv, OneVerdictPerTask, OwnAt, Busy
  <2>6. CASE landed' = Append(landed, r)
    <3>1. /\ Len(landed') = Len(landed) + 1 /\ Len(landed) \in Nat
          /\ landed'[Len(landed) + 1] = r
          /\ \A i \in 1..Len(landed) : landed'[i] = landed[i]
      BY <2>3, <2>6
    <3>2. OneVerdictPerTask'
      BY <2>4, <3>1 DEF OneVerdictPerTask, VInv
    <3>3. LandedInv' /\ (\A i \in 1..Len(landed) : OwnAt(i))'
      BY <2>1, <2>4, <3>1 DEF LandedInv, OwnAt, Busy
    <3>. QED
      BY <2>1, <3>2, <3>3 DEF VInv, DispatchInv, Busy
  <2>. QED
    BY <2>2, <2>5, <2>6
<1>10. CASE Crash
  BY <1>10 DEF Crash, VInv, DispatchInv, LandedInv, OneVerdictPerTask, OwnAt, Busy
<1>11. CASE Revoke \/ Tick
  BY <1>11, VFrame DEF Revoke, Tick, process
<1>12. ASSUME NEW t \in Task, Push(t) PROVE VInv'
  BY <1>12, VFrame DEF Push, taskVars, history, Busy
<1>13. ASSUME NEW t \in Task, HandlerRuns(t) PROVE VInv'
  <2>1. UNCHANGED <<landed, late, seen, cur, ran, verdict, at>>
    BY <1>13 DEF HandlerRuns, history
  <2>2. \A u \in Task : work[u] = "success" => work'[u] = "success"
    BY <1>13, HandlerKeepsSettled DEF HandlerRuns, TInv, Settled
  <2>3. \A i \in 1..Len(landed) : landed[i].task \in Task
    BY DEF VInv, LandedInv, TInv, TypeOK
  <2>4. at = "submit" => cur \in Task
    BY DEF TInv, CurrentInv, TypeOK, Busy
  <2>5. DispatchInv'
    BY <2>1, <2>2, <2>4 DEF VInv, DispatchInv
  <2>6. LandedInv' /\ OneVerdictPerTask'
    BY <2>1 DEF VInv, LandedInv, OneVerdictPerTask
  <2>7. (\A i \in 1..Len(landed) : OwnAt(i))'
    BY <2>1, <2>2, <2>3 DEF VInv, OwnAt
  <2>. QED
    BY <2>5, <2>6, <2>7 DEF VInv
<1>14. CASE UNCHANGED vars
  BY <1>14, VFrame DEF vars, process
<1>. QED
  BY <1>1, <1>2, <1>3, <1>4, <1>5, <1>6, <1>7, <1>8, <1>9, <1>10, <1>11, <1>12, <1>13, <1>14
  DEF Next

(* Types and verdicts are invariants of the runtime. *)
LEMMA VInvariant == Spec => [](TInv /\ VInv)
<1>1. Init => VInv
  BY DEF Init, FreshProcess, VInv, DispatchInv, LandedInv, OneVerdictPerTask, OwnAt, Busy
<1>. QED
  BY <1>1, InitType, TypeStep, VStep, PTL DEF Spec

\* For any number of deliveries, timeouts and lost replies: a process gets at
\* most one verdict of a task onto the chain.
THEOREM OneVerdict == Spec => []OneVerdictPerTask
<1>1. VInv => OneVerdictPerTask
  BY DEF VInv
<1>. QED
  BY <1>1, VInvariant, PTL

\* A completed task carries the result of its own handler, which succeeded
\* before its timeout, whatever handlers run on beside it.
THEOREM VerdictsAreOwn == Spec => []VerdictIsOwn
<1>1. VInv => VerdictIsOwn
  BY DEF VInv, VerdictIsOwn, Verdicts, OwnAt
<1>. QED
  BY <1>1, VInvariant, PTL

-----------------------------------------------------------------------------
(* Revocation *)

NeedsActive == \E i \in DOMAIN required : required[i].mustBeActive

RInv == BarredInv /\ RevocationTakesEffect

\* A card on which everything is revoked misses an active requirement.
LEMMA RevokedIsMissing ==
  ASSUME NEW held, AllRevoked(held), NeedsActive
  PROVE  DefaultMissing(held, required, now) # {}
BY DEF AllRevoked, NeedsActive, DefaultMissing, FindMatchingCredential, IsActiveAt

\* A step that leaves tasks and cards alone and enters no gate.
LEMMA RFrame ==
  ASSUME RInv, UNCHANGED <<required, card, cur, snap, barred, ran>>,
         at' \in {"gate", "gated"} => at' = at
  PROVE  RInv'
BY DEF RInv, BarredInv, AllRevoked, RevocationTakesEffect

(* Every step keeps the invariant of the revocation gate. *)
LEMMA RStep == TInv /\ VInv /\ RInv /\ [Next]_vars => RInv'
<1>. SUFFICES ASSUME TInv, VInv, RInv, [Next]_vars PROVE RInv'
  OBVIOUS
<1>1. CASE Start \/ FindAgentCard \/ RegisterAgent \/ Preflight
  BY <1>1, RFrame DEF Start, FindAgentCard, RegisterAgent, Preflight, AfterRegistration, At,
     taskVars, history, config, world
<1>2. CASE Close \/ Park
  BY <1>2, RFrame DEF Close, Park, At, taskVars, history, config, world
<1>3. CASE Take
  <2>1. CASE Head(queue) \in seen
    BY <1>3, <2>1, RFrame DEF Take, config, world
  <2>2. CASE Head(queue) \notin seen
    <3>1. /\ at' = "gate" /\ cur' = Head(queue)
          /\ barred' = IF AllRevoked(card) THEN barred \cup {Head(queue)} ELSE barred
          /\ UNCHANGED <<required, card, ran>>
      BY <1>3, <2>2 DEF Take, config, world, AllRevoked
    <3>2. Head(queue) \notin ran /\ Head(queue) \notin barred
      BY <2>2 DEF TInv, TypeOK
    <3>3. BarredInv'
      BY <3>1, <3>2 DEF BarredInv, AllRevoked
    <3>4. RevocationTakesEffect'
      BY <3>1, <3>2 DEF RInv, RevocationTakesEffect
    <3>. QED
      BY <3>3, <3>4 DEF RInv
  <2>. QED
    BY <2>1, <2>2
<1>4. CASE GateLoad
  <2>1. at = "gate" /\ at' = "gated" /\ snap' = card /\ UNCHANGED <<required, card, cur, barred, ran>>
    BY <1>4 DEF GateLoad, At, config, world, history
  <2>2. BarredInv'
    <3>1. ASSUME cur \in barred PROVE AllRevoked(card)
      BY <2>1, <3>1 DEF RInv, BarredInv
    <3>. QED
      BY <2>1, <3>1 DEF BarredInv, AllRevoked
  <2>. QED
    BY <2>1, <2>2 DEF RInv, RevocationTakesEffect
<1>5. CASE GateFails \/ HandlerSettles \/ HandlerTimeout
  BY <1>5, RFrame DEF GateFails, HandlerSettles, HandlerTimeout, Decide, config, world, history
<1>6. CASE GateDecides
  <2>1. at' \notin {"gate", "gated"} /\ UNCHANGED <<required, barred>>
    BY <1>6 DEF GateDecides, StartHandler, Decide, config
  <2>2. BarredInv'
    BY <2>1 DEF BarredInv
  <2>3. ASSUME NeedsActive PROVE cur \notin barred \/ ran' = ran
    <3>1. required # <<>>
      BY <2>3 DEF NeedsActive
    <3>2. CASE at = "gated" /\ cur \in barred
      BY <1>6, <2>3, <3>1, <3>2, RevokedIsMissing DEF GateDecides, RInv, BarredInv
    <3>. QED
      BY <1>6, <3>1, <3>2 DEF GateDecides
  <2>4. ran' = ran \/ ran' = ran \cup {cur}
    BY <1>6 DEF GateDecides, StartHandler
  <2>5. RevocationTakesEffect'
    BY <2>1, <2>3, <2>4 DEF RInv, RevocationTakesEffect, NeedsActive
  <2>. QED
    BY <2>2, <2>5 DEF RInv
<1>7. CASE Submit
  BY <1>7, RFrame DEF Submit, config, world, RInv, BarredInv, RevocationTakesEffect
<1>8. CASE Crash
  BY <1>8 DEF Crash, config, RInv, BarredInv, RevocationTakesEffect
<1>9. CASE Revoke
  <2>1. PICK c \in card : card' = (card \ {c}) \cup {[c EXCEPT !.revoked = TRUE]}
    BY <1>9 DEF Revoke
  <2>2. AllRevoked(card) => AllRevoked(card')
    BY <2>1 DEF AllRevoked, TInv, TypeOK, Credential
  <2>3. UNCHANGED <<required, at, cur, snap, barred, ran>>
    BY <1>9 DEF Revoke, config, process
  <2>4. BarredInv'
    BY <2>2, <2>3 DEF RInv, BarredInv, AllRevoked
  <2>. QED
    BY <2>3, <2>4 DEF RInv, RevocationTakesEffect
<1>10. CASE Tick
  BY <1>10, RFrame DEF Tick, config, process
<1>11. ASSUME NEW t \in Task, Push(t) PROVE RInv'
  BY <1>11, RFrame DEF Push, config, taskVars, history
<1>12. ASSUME NEW t \in Task, HandlerRuns(t) PROVE RInv'
  BY <1>12, RFrame DEF HandlerRuns, config, world, history
<1>13. CASE UNCHANGED vars
  BY <1>13, RFrame DEF vars, config, process, world
<1>. QED
  BY <1>1, <1>2, <1>3, <1>4, <1>5, <1>6, <1>7, <1>8, <1>9, <1>10, <1>11, <1>12, <1>13
  DEF Next

\* Whatever is delivered, cached or awaited: a task taken after the last
\* credential of its agent was revoked never runs where an active credential
\* is required.
THEOREM RevocationsTakeEffect == Spec => []RevocationTakesEffect
<1>1. Init => RInv
  BY DEF Init, FreshProcess, RInv, BarredInv, RevocationTakesEffect
<1>2. RInv => RevocationTakesEffect
  BY DEF RInv
<1>. QED
  BY <1>1, <1>2, VInvariant, RStep, PTL DEF Spec

-----------------------------------------------------------------------------
(* Registration *)

\* Through any number of restarts, thrown errors and lost replies of
\* registerAgent a provider registers one agent card.
THEOREM RegistersOnce == Spec => []RegisteredOnce
<1>. DEFINE Inv == agents \in Nat /\ RegisterInv
<1>1. Init => Inv
  BY DEF Init, RegisterInv
<1>2. Inv /\ [Next]_vars => Inv'
  <2>. SUFFICES ASSUME Inv, [Next]_vars PROVE Inv'
    OBVIOUS
  <2>. USE DEF RegisterInv
  <2>1. CASE FindAgentCard
    BY <2>1 DEF FindAgentCard, AfterRegistration, At, world
  <2>2. CASE RegisterAgent
    BY <2>2 DEF RegisterAgent, AfterRegistration
  <2>3. ASSUME agents' = agents, at' = "register" => at = "register" PROVE Inv'
    BY <2>3
  <2>4. CASE Start \/ Preflight \/ Close \/ Park \/ Take
    BY <2>3, <2>4 DEF Start, Preflight, Close, Park, Take, At, world
  <2>5. CASE GateLoad \/ GateFails \/ GateDecides
    BY <2>3, <2>5 DEF GateLoad, GateFails, GateDecides, StartHandler, Decide, At, world
  <2>6. CASE HandlerSettles \/ HandlerTimeout \/ Submit \/ Crash
    BY <2>3, <2>6 DEF HandlerSettles, HandlerTimeout, Submit, Crash, Decide, world
  <2>7. CASE Revoke \/ Tick \/ UNCHANGED vars
    BY <2>3, <2>7 DEF Revoke, Tick, vars, process, world
  <2>8. ASSUME NEW t \in Task, Push(t) \/ HandlerRuns(t) PROVE Inv'
    BY <2>3, <2>8 DEF Push, HandlerRuns, world
  <2>. QED
    BY <2>1, <2>2, <2>4, <2>5, <2>6, <2>7, <2>8 DEF Next
<1>3. Inv => RegisteredOnce
  BY DEF RegisterInv, RegisteredOnce
<1>. QED
  BY <1>1, <1>2, <1>3, PTL DEF Spec

-----------------------------------------------------------------------------
(* The three gates *)

LEMMA RankMax ==
  ASSUME NEW S \in SUBSET (0..5), 0 \in S
  PROVE  Max(S) \in 0..5 /\ (Max(S) = 5 <=> 5 \in S)
<1>1. \E x \in S : \A y \in S : x >= y
  <2>1. S \subseteq Int
    OBVIOUS
  <2>2. CASE 5 \in S
    BY <2>2
  <2>3. CASE 5 \notin S /\ 4 \in S
    BY <2>3
  <2>4. CASE 5 \notin S /\ 4 \notin S /\ 3 \in S
    BY <2>4
  <2>5. CASE 5 \notin S /\ 4 \notin S /\ 3 \notin S /\ 2 \in S
    BY <2>5
  <2>6. CASE 5 \notin S /\ 4 \notin S /\ 3 \notin S /\ 2 \notin S
    BY <2>6
  <2>. QED
    BY <2>2, <2>3, <2>4, <2>5, <2>6
<1>2. Max(S) \in S /\ \A y \in S : Max(S) >= y
  BY <1>1 DEF Max
<1>3. \A m \in S : (\A y \in S : m >= y) => m \in 0..5 /\ (m = 5 <=> 5 \in S)
  OBVIOUS
<1>. QED
  BY <1>2, <1>3, Zenon

(* The least element of a set of naturals is in the set and below every *)
(* other.                                                               *)
LEMMA NatMin ==
  ASSUME NEW S \in SUBSET Nat, S # {}
  PROVE  Min(S) \in S /\ \A y \in S : Min(S) <= y
<1>1. \E x \in S : \A y \in S : ~ (<<y, x>> \in OpToRel(<, Nat))
  BY WFMin, NatLessThanWellFounded, Zenon
<1>2. \A a, b \in Nat : a < b => <<a, b>> \in OpToRel(<, Nat)
  BY DEF OpToRel
<1>3. \E x \in S : \A y \in S : ~(y < x)
  BY <1>1, <1>2, Zenon
<1>4. \E x \in S : \A y \in S : x <= y
  BY <1>3
<1>. QED
  BY <1>4 DEF Min

\* The rank is 5 exactly for a credential that no stage turns away.
LEMMA RankFive ==
  ASSUME NEW c \in Credential, NEW req \in Requirement, NEW p \in BOOLEAN, NEW t \in Nat
  PROVE  /\ NearMissRank(c, req, p, t) \in 1..5
         /\ NearMissRank(c, req, p, t) = 5 <=>
              /\ req.issuerSet = {} \/ c.issuer \in req.issuerSet
              /\ req.mustBeActive => IsActiveAt(c, t)
              /\ (req.margin > 0 /\ c.validUntil # 0) => c.validUntil >= t + req.margin
              /\ p => c.fits
BY DEF NearMissRank, Credential, Requirement

\* requireCred lets a card through when findMatchingCredential finds
\* something on it, and only then; with a predicate, only then.
LEMMA RequireMatches ==
  ASSUME NEW held \in SUBSET Credential, NEW req \in Requirement, NEW p \in BOOLEAN, NEW t \in Nat
  PROVE  /\ RequireCred(held, req, p, t) \in 0..5
         /\ ~p => (RequireCred(held, req, p, t) < 5 <=> ~FindMatchingCredential(held, req, t))
         /\ ~(RequireCred(held, req, p, t) < 5) => FindMatchingCredential(held, req, t)
<1>. DEFINE S == {0} \cup {NearMissRank(c, req, p, t) : c \in {d \in held : d.schema = req.schema}}
<1>1. S \in SUBSET (0..5) /\ 0 \in S
  BY RankFive
<1>2. 5 \in S <=> \E c \in held : c.schema = req.schema /\ NearMissRank(c, req, p, t) = 5
  OBVIOUS
<1>3. RequireCred(held, req, p, t) = Max(S)
  BY DEF RequireCred
<1>. HIDE DEF S
<1>4. RequireCred(held, req, p, t) \in 0..5 /\ (RequireCred(held, req, p, t) < 5 <=> 5 \notin S)
  BY <1>1, <1>3, RankMax
<1>. QED
  BY <1>2, <1>4, RankFive DEF FindMatchingCredential

\* For all cards, requirement lists and times the three gates agree.
THEOREM GatesDoAgree == Spec => []GatesAgree
<1>1. ASSUME TInv PROVE GatesAgree
  <2>1. card \in SUBSET Credential /\ now \in Nat
    BY <1>1, BppAssumption DEF TInv, TypeOK
  <2>2. ASSUME NEW r \in Reqs, NEW p \in BOOLEAN
        PROVE  LET d == DefaultMissing(card, r, now)
                   all == ComposedMissing(card, r, p, now, "all")
                   first == ComposedMissing(card, r, p, now, "first-fail")
               IN  /\ ~p => all = d
                   /\ all = {} => d = {}
                   /\ first \subseteq all /\ \A i \in first, j \in all : i <= j
                   /\ first = {} => all = {}
    <3>. DEFINE denied == {i \in DOMAIN r : RequireCred(card, r[i], p, now) < 5}
    <3>1. DOMAIN r \subseteq Nat /\ \A i \in DOMAIN r : r[i] \in Requirement
      BY BppAssumption
    <3>2. ComposedMissing(card, r, p, now, "all") = denied
      BY DEF ComposedMissing
    <3>3. ComposedMissing(card, r, p, now, "first-fail") =
            IF denied # {} THEN {Min(denied)} ELSE denied
      BY DEF ComposedMissing
    <3>4. ~p => denied = DefaultMissing(card, r, now)
      BY <2>1, <3>1, RequireMatches DEF DefaultMissing
    <3>5. DefaultMissing(card, r, now) \subseteq denied
      BY <2>1, <3>1, RequireMatches DEF DefaultMissing
    <3>6. denied \in SUBSET Nat
      BY <3>1
    <3>. HIDE DEF denied
    <3>7. denied # {} => Min(denied) \in denied /\ \A y \in denied : Min(denied) <= y
      BY <3>6, NatMin
    <3>. QED
      BY <3>2, <3>3, <3>4, <3>5, <3>6, <3>7
  <2>3. AssertSelfSkillCredential(card, Self.schema, Self.issuerSet, now) =
          FindMatchingCredential(card, [schema |-> Self.schema, issuerSet |-> Self.issuerSet,
                                        mustBeActive |-> TRUE, margin |-> 0], now)
    BY <2>1, BppAssumption DEF AssertSelfSkillCredential, FindMatchingCredential, IsActiveAt, Credential
  <2>. QED
    BY <2>2, <2>3 DEF GatesAgree
<1>. QED
  BY <1>1, VInvariant, PTL
=============================================================================
