--------------------------- MODULE ExecutionGraph ---------------------------
(***************************************************************************)
(* The execution of planned runs: executiongraph.Runner.Run with its loop  *)
(* and its unit goroutines, the task budget that all runs of the workspace *)
(* share, and the durable rows of the units (pipeline_run_units) that the  *)
(* callbacks of service/direct_run.go and the finalization write.          *)
(*                                                                         *)
(* The runner of one run is a single goroutine: what it does between two   *)
(* looks at its context, at the budget or at its result channel is one     *)
(* step.  The counters and maps of reservations (active, activeConnections,*)
(* activeResources, exclusiveActive, remaining) are functions of the node  *)
(* statuses and appear as operators.                                       *)
(***************************************************************************)
EXTENDS TaskBudget, FiniteSets

CONSTANTS
  UnitCount,        \* units of each run; a unit is named by its position
  Connection,       \* connection names
  Resource,         \* write resources
  ConnectionLimit,  \* limit of each limited connection
  MaxActive,        \* Runner.MaxActive
  Graph             \* the graphs the planner hands to runs

Unit == 0..(UnitCount - 1)

(* canonicalConnectionLimits drops limits below one; validateNodes refuses *)
(* a dependency on a later position.                                       *)
ASSUME GraphAssumption ==
  /\ UnitCount \in Nat
  /\ MaxActive \in Nat \ {0}
  /\ DOMAIN ConnectionLimit \subseteq Connection
  /\ \A c \in DOMAIN ConnectionLimit : ConnectionLimit[c] \in Nat \ {0}
  /\ Graph \subseteq [deps : [Unit -> SUBSET Unit],
                      connections : [Unit -> SUBSET Connection],
                      resources : [Unit -> SUBSET Resource],
                      exclusive : SUBSET Unit]
  /\ \A g \in Graph : \A u \in Unit : \A d \in g.deps[u] : d < u

VARIABLES
  graph,        \* graph[r] is what run r executes
  pc,           \* where the runner of r is
  node,         \* statuses[u] of the runner
  phase,        \* the goroutine of u, or the result it has sent
  errs,         \* kinds of errors in runErrors
  cancelled,    \* runs whose context is cancelled
  unit,         \* pipeline_run_units.status
  handedOff,    \* units whose completion record is durable
  runStatus     \* pipeline_runs.status

runner == <<pc, node, phase, errs>>
durable == <<unit, handedOff, runStatus>>
vars == <<graph, runner, cancelled, durable, budget>>

NodeStatus == {"pending", "running", "succeeded", "failed", "skipped", "cancelled"}
Outcome == {"ok", "error", "canceled"}
Phase == {"none", "starting", "operating"} \cup Outcome
UnitOpen == {"queued", "running"}
UnitStatus == UnitOpen \cup {"success", "failed", "cancelled", "skipped"}

Init ==
  /\ graph \in [Run -> Graph]
  /\ pc = [r \in Run |-> "scheduling"]
  /\ node = [r \in Run |-> [u \in Unit |-> "pending"]]
  /\ phase = [r \in Run |-> [u \in Unit |-> "none"]]
  /\ errs = [r \in Run |-> {}]
  /\ cancelled = {}
  /\ unit = [r \in Run |-> [u \in Unit |-> "queued"]]
  /\ handedOff = [r \in Run |-> {}]
  /\ runStatus = [r \in Run |-> "running"]
  /\ NewBudget

-----------------------------------------------------------------------------
(* What the runner knows of its units. *)

UnitsIn(r, s) == {u \in Unit : node[r][u] = s}
Pending(r) == UnitsIn(r, "pending")
Reserved(r) == UnitsIn(r, "running")
Remaining(r) == Pending(r) \cup Reserved(r)

(* A goroutine holds its lease from its launch until it sends its result.  *)
Executing(r) == {u \in Unit : phase[r][u] \in {"starting", "operating"}}

(* Mutant: a dependency that has not finished does not hold the unit back. *)
NoDependencyFailed(r, u) ==
  \A d \in graph[r].deps[u] : node[r][d] \in {"succeeded", "running"}

DependenciesSucceeded(r, u) ==
  \A d \in graph[r].deps[u] : node[r][d] = "succeeded"

(* Mutant: a cancelled dependency does not count. *)
HardFailedDependencies(r, u) ==
  {d \in graph[r].deps[u] : node[r][d] \in {"failed", "skipped"}}

FailedDependencies(r, u) ==
  {d \in graph[r].deps[u] : node[r][d] \in {"failed", "skipped", "cancelled"}}

(* The units that the repeated passes over the pending units skip: the     *)
(* least set closed under "depends on a failed or on a skipped unit".      *)
SkipClosed(r, S) ==
  \A u \in Pending(r) :
    (FailedDependencies(r, u) # {} \/ graph[r].deps[u] \cap S # {}) => u \in S

Blocked(r) ==
  {u \in Pending(r) : \A S \in SUBSET Pending(r) : SkipClosed(r, S) => u \in S}

ConnectionsAvailable(r, u) ==
  \A c \in graph[r].connections[u] \cap DOMAIN ConnectionLimit :
    Cardinality({o \in Reserved(r) : c \in graph[r].connections[o]}) < ConnectionLimit[c]

ResourcesAvailable(r, u) ==
  \A o \in Reserved(r) : graph[r].resources[o] \cap graph[r].resources[u] = {}

(* Mutant: the units beside an exclusive one are not held back. *)
AvailableToExclusive(r, u) ==
  u \in graph[r].exclusive => Reserved(r) = {}

ExclusionAllows(r, u) ==
  IF u \in graph[r].exclusive
    THEN Reserved(r) = {}
    ELSE Reserved(r) \cap graph[r].exclusive = {}

Runnable(r) ==
  {u \in Pending(r) : /\ DependenciesSucceeded(r, u)
                      /\ ExclusionAllows(r, u)
                      /\ ConnectionsAvailable(r, u)
                      /\ ResourcesAvailable(r, u)}

(* nextRunnableNode: the first position; MaxActive bounds what is active.  *)
IsNext(r, u) ==
  /\ Cardinality(Reserved(r)) < MaxActive
  /\ u \in Runnable(r)
  /\ \A o \in Runnable(r) : u <= o

-----------------------------------------------------------------------------
(* The loop of Runner.Run. *)

Goto(r, l) == pc' = [pc EXCEPT ![r] = l]

(* OnBypass runs under the context of the run: once that is cancelled, the *)
(* row cannot be written and stays queued.                                 *)
CancelPending(r) ==
  /\ r \in cancelled
  /\ node' = [node EXCEPT ![r] =
                [u \in Unit |-> IF u \in Pending(r) THEN "cancelled" ELSE @[u]]]
  /\ UNCHANGED <<errs, unit>>

(* Any of the writes may fail, or be applied and still return an error;    *)
(* the error is kept and the loop goes on.                                 *)
SkipBlocked(r) ==
  /\ r \notin cancelled
  /\ node' = [node EXCEPT ![r] =
                [u \in Unit |-> IF u \in Blocked(r) THEN "skipped" ELSE @[u]]]
  /\ \E W \in SUBSET Blocked(r) :
       /\ unit' = [unit EXCEPT ![r] =
                     [u \in Unit |-> IF u \in W THEN "skipped" ELSE @[u]]]
       /\ \/ W = Blocked(r) /\ UNCHANGED errs
          \/ Blocked(r) # {} /\ errs' = [errs EXCEPT ![r] = @ \cup {"error"}]

Schedule(r) ==
  /\ pc[r] = "scheduling"
  /\ Remaining(r) # {}
  /\ CancelPending(r) \/ SkipBlocked(r)
  /\ Goto(r, "launching")
  /\ UNCHANGED <<graph, phase, cancelled, handedOff, runStatus, budget>>

(* reserveNode and go executeNode *)
LaunchUnit(r, u) ==
  /\ node' = [node EXCEPT ![r][u] = "running"]
  /\ phase' = [phase EXCEPT ![r][u] = "starting"]
  /\ UNCHANGED <<graph, errs, cancelled, durable>>

(* Acquire looks at the context first. *)
AcquireAtOnce(r) ==
  /\ pc[r] = "launching" /\ r \notin cancelled
  /\ \E u \in Unit : IsNext(r, u) /\ LaunchUnit(r, u)
  /\ AcquireSlot
  /\ UNCHANGED pc

WaitForSlot(r) ==
  /\ pc[r] = "launching" /\ r \notin cancelled
  /\ \E u \in Unit : IsNext(r, u)
  /\ JoinWaiters(r)
  /\ Goto(r, "waiting")
  /\ UNCHANGED <<graph, node, phase, errs, cancelled, durable>>

(* The unit was chosen before the wait, and the runner, blocked, has       *)
(* received no result since.                                               *)
SlotGranted(r) ==
  /\ pc[r] = "waiting" /\ r \in granted /\ r \notin cancelled
  /\ \E u \in Unit : IsNext(r, u) /\ LaunchUnit(r, u)
  /\ granted' = granted \ {r}
  /\ Goto(r, "launching")
  /\ UNCHANGED <<active, waiters>>

(* Mutant: the slot granted at the moment of cancellation is not returned. *)
ForgetWait(r) ==
  /\ pc[r] = "waiting" /\ r \in cancelled
  /\ IF r \in granted THEN granted' = granted \ {r} /\ UNCHANGED <<active, waiters>>
                      ELSE RemoveWaiter(r)
  /\ Goto(r, "collecting")
  /\ UNCHANGED <<graph, node, phase, errs, cancelled, durable>>

(* The context ends while r waits; whether or not the grant came first,    *)
(* no slot is kept.                                                        *)
AbandonWait(r) ==
  /\ pc[r] = "waiting" /\ r \in cancelled
  /\ IF r \in granted THEN Release(granted \ {r})
                      ELSE RemoveWaiter(r)
  /\ Goto(r, "collecting")
  /\ UNCHANGED <<graph, node, phase, errs, cancelled, durable>>

LaunchDone(r) ==
  /\ pc[r] = "launching"
  /\ r \in cancelled \/ ~\E u \in Unit : IsNext(r, u)
  /\ Goto(r, "collecting")
  /\ UNCHANGED <<graph, node, phase, errs, cancelled, durable, budget>>

(* Mutant: what the goroutine sent becomes the status. *)
SettledAsSent(r, u) ==
  IF phase[r][u] = "ok" THEN "succeeded"
  ELSE IF r \in cancelled THEN "cancelled" ELSE phase[r][u]

(* releaseNode and the status of the unit; an error under a cancelled      *)
(* context is a cancellation.                                              *)
Settled(r, u) ==
  IF phase[r][u] = "ok" THEN "succeeded"
  ELSE IF phase[r][u] = "canceled" \/ r \in cancelled THEN "cancelled"
  ELSE "failed"

Receive(r, u) ==
  /\ pc[r] = "collecting"
  /\ u \in Reserved(r)
  /\ phase[r][u] \in Outcome
  /\ node' = [node EXCEPT ![r][u] = Settled(r, u)]
  /\ phase' = [phase EXCEPT ![r][u] = "none"]
  /\ errs' = IF phase[r][u] = "ok" THEN errs
             ELSE [errs EXCEPT ![r] = @ \cup {phase[r][u]}]
  /\ Goto(r, "scheduling")
  /\ UNCHANGED <<graph, cancelled, durable, budget>>

(* Nothing is left, or nothing is active: all is over, the context has     *)
(* ended, or no unit could be launched ("execution graph stalled").        *)
LoopOver(r) ==
  \/ pc[r] = "scheduling" /\ Remaining(r) = {}
  \/ pc[r] = "collecting" /\ Reserved(r) = {}

(* Mutant: a cancelled run does not wait for its active units. *)
ReturnUndrained(r) ==
  /\ LoopOver(r) \/ (pc[r] = "collecting" /\ r \in cancelled)
  /\ errs' = [errs EXCEPT ![r] = @ \cup
       (IF r \in cancelled THEN {"canceled"}
        ELSE IF Pending(r) # {} THEN {"stalled"} ELSE {})]
  /\ Goto(r, "returned")
  /\ UNCHANGED <<graph, node, phase, cancelled, durable, budget>>

Return(r) ==
  /\ LoopOver(r)
  /\ errs' = [errs EXCEPT ![r] = @ \cup
       (IF r \in cancelled THEN {"canceled"}
        ELSE IF Pending(r) # {} THEN {"stalled"} ELSE {})]
  /\ Goto(r, "returned")
  /\ UNCHANGED <<graph, node, phase, cancelled, durable, budget>>

-----------------------------------------------------------------------------
(* executeNode around runPlannedPipelineUnit, one goroutine per unit.      *)

(* Mutant: the lease is kept. *)
KeepLease(r, u, outcome) ==
  /\ phase' = [phase EXCEPT ![r][u] = outcome]
  /\ UNCHANGED <<graph, pc, node, errs, cancelled, runStatus, budget>>

(* The deferred function: the lease first, then the result, which the      *)
(* buffered channel always takes.                                          *)
SendResult(r, u, outcome) ==
  /\ phase' = [phase EXCEPT ![r][u] = outcome]
  /\ Release(granted)
  /\ UNCHANGED <<graph, pc, node, errs, cancelled, runStatus>>

BeginUnit(r, u) ==
  /\ phase[r][u] = "starting" /\ r \notin cancelled
  /\ unit' = [unit EXCEPT ![r][u] = "running"]
  /\ phase' = [phase EXCEPT ![r][u] = "operating"]
  /\ UNCHANGED <<graph, pc, node, errs, cancelled, handedOff, runStatus, budget>>

(* The preparation, the "running" row or its reading back fails: no        *)
(* operator is started.                                                    *)
RefuseUnit(r, u) ==
  /\ phase[r][u] = "starting"
  /\ \/ UNCHANGED unit
     \/ r \notin cancelled /\ unit' = [unit EXCEPT ![r][u] = "running"]
  /\ SendResult(r, u, IF r \in cancelled THEN "canceled" ELSE "error")
  /\ UNCHANGED handedOff

(* The operator, its row and its completion record all succeed. *)
FinishUnit(r, u) ==
  /\ phase[r][u] = "operating" /\ r \notin cancelled
  /\ unit' = [unit EXCEPT ![r][u] = "success"]
  /\ handedOff' = [handedOff EXCEPT ![r] = @ \cup {u}]
  /\ SendResult(r, u, "ok")

(* Mutant: a completion that could not be recorded is not reported. *)
SwallowUnrecorded(r, u) ==
  /\ phase[r][u] = "operating" /\ r \notin cancelled
  /\ unit' = [unit EXCEPT ![r][u] = "success"]
  /\ SendResult(r, u, "ok")
  /\ UNCHANGED handedOff

(* The row says success, but the completion could not be recorded.         *)
LoseCompletion(r, u) ==
  /\ phase[r][u] = "operating" /\ r \notin cancelled
  /\ unit' = [unit EXCEPT ![r][u] = "success"]
  /\ SendResult(r, u, "error")
  /\ UNCHANGED handedOff

(* The operator fails, is cancelled, times out or panics, or one of its    *)
(* events cannot be written.  The row of the unit may stay "running", and  *)
(* does so under a cancelled context.                                      *)
FailUnit(r, u) ==
  /\ phase[r][u] = "operating"
  /\ \E outcome \in {"error", "canceled"} :
       /\ \/ UNCHANGED unit
          \/ /\ r \notin cancelled
             /\ unit' = [unit EXCEPT ![r][u] =
                           IF outcome = "canceled" THEN "cancelled" ELSE "failed"]
       /\ SendResult(r, u, outcome)
  /\ UNCHANGED handedOff

-----------------------------------------------------------------------------
(* The context of a run: CancelRun, a closed request, a stopping server.   *)
Cancel(r) ==
  /\ r \notin cancelled
  /\ pc[r] # "closed"
  /\ cancelled' = cancelled \cup {r}
  /\ UNCHANGED <<graph, runner, durable, budget>>

(* The status the caller derives from the error of the runner. *)
FinalStatus(r) ==
  IF errs[r] = {} THEN "success"
  ELSE IF r \in cancelled \/ "canceled" \in errs[r] THEN "cancelled"
  ELSE "failed"

(* Mutant: a unit that never started stays as it is. *)
ClosedStarted(r) ==
  [u \in Unit |-> IF unit[r][u] # "running" THEN unit[r][u]
                  ELSE IF FinalStatus(r) = "cancelled" THEN "cancelled" ELSE "failed"]

(* Mutant: every unit takes the status of its run. *)
ClosedAlike(r) ==
  [u \in Unit |-> IF FinalStatus(r) = "cancelled" THEN "cancelled" ELSE "failed"]

(* finishOpenRunUnits *)
Closed(r) ==
  [u \in Unit |-> IF unit[r][u] = "queued" THEN "skipped"
                  ELSE IF unit[r][u] # "running" THEN unit[r][u]
                  ELSE IF FinalStatus(r) = "cancelled" THEN "cancelled" ELSE "failed"]

(* FinalizeExecution, under a context of its own; it refuses a success     *)
(* over an open unit.  Its own failures are those of module RunLedger.     *)
Finalize(r) ==
  /\ pc[r] = "returned"
  /\ \/ /\ FinalStatus(r) = "success"
        /\ \A u \in Unit : unit[r][u] \notin UnitOpen
        /\ UNCHANGED unit
     \/ /\ FinalStatus(r) # "success"
        /\ unit' = [unit EXCEPT ![r] = Closed(r)]
  /\ runStatus' = [runStatus EXCEPT ![r] = FinalStatus(r)]
  /\ Goto(r, "closed")
  /\ UNCHANGED <<graph, node, phase, errs, cancelled, handedOff, budget>>

-----------------------------------------------------------------------------
RunnerStep(r) ==
  \/ Schedule(r)
  \/ AcquireAtOnce(r) \/ WaitForSlot(r) \/ SlotGranted(r)
  \/ AbandonWait(r) \/ LaunchDone(r)
  \/ \E u \in Unit : Receive(r, u)
  \/ Return(r)
  \/ Finalize(r)

UnitStep(r, u) ==
  \/ BeginUnit(r, u) \/ RefuseUnit(r, u)
  \/ FinishUnit(r, u) \/ LoseCompletion(r, u) \/ FailUnit(r, u)

AllClosed == (\A r \in Run : pc[r] = "closed") /\ UNCHANGED vars

Next ==
  \/ \E r \in Run : RunnerStep(r) \/ Cancel(r) \/ \E u \in Unit : UnitStep(r, u)
  \/ AllClosed

Spec == Init /\ [][Next]_vars

(* Goroutines are scheduled and operators return; nobody need cancel.      *)
Fairness ==
  \A r \in Run : /\ WF_vars(RunnerStep(r))
                 /\ \A u \in Unit : WF_vars(UnitStep(r, u))

FairSpec == Spec /\ Fairness

-----------------------------------------------------------------------------
(* Properties. *)

TypeOK ==
  /\ graph \in [Run -> Graph]
  /\ pc \in [Run -> {"scheduling", "launching", "waiting", "collecting",
                     "returned", "closed"}]
  /\ node \in [Run -> [Unit -> NodeStatus]]
  /\ phase \in [Run -> [Unit -> Phase]]
  /\ errs \in [Run -> SUBSET {"error", "canceled", "stalled"}]
  /\ cancelled \subseteq Run
  /\ unit \in [Run -> [Unit -> UnitStatus]]
  /\ handedOff \in [Run -> SUBSET Unit]
  /\ runStatus \in [Run -> {"running", "success", "failed", "cancelled"}]
  /\ active \in Nat
  /\ waiters \in Seq(Run)
  /\ granted \subseteq Run

(* The leases that are out: of executing units, and of granted waiters     *)
(* that have not woken up (under a position that is no unit's).            *)
Leases == {l \in Run \X Unit : l[2] \in Executing(l[1])} \cup (granted \X {UnitCount})

(* budget.go: over all runs, whatever is cancelled or waits, the counter   *)
(* is the number of leases out and within the limit, and nobody waits      *)
(* while a slot is free: no slot is lost, none is granted twice.           *)
BudgetAccounts ==
  /\ active = Cardinality(Leases)
  /\ active <= Limit
  /\ waiters # <<>> => active = Limit

(* runner.go nextRunnableNode, releaseNode: what executes in one run stays *)
(* within MaxActive and the connection limits, two units never write one   *)
(* resource together, and an exclusive unit is alone.                      *)
LimitsRespected ==
  \A r \in Run :
    LET g == graph[r] IN
    /\ Cardinality(Executing(r)) <= MaxActive
    /\ \A c \in DOMAIN ConnectionLimit :
         Cardinality({u \in Executing(r) : c \in g.connections[u]}) <= ConnectionLimit[c]
    /\ \A u, o \in Executing(r) :
         u # o => /\ g.resources[u] \cap g.resources[o] = {}
                  /\ u \notin g.exclusive

(* backend.md "Planned execution": a unit starts only after the success    *)
(* and the completion record of every dependency are durable.              *)
DependenciesHandedOff ==
  \A r \in Run : \A u \in Unit :
    phase[r][u] # "none" => graph[r].deps[u] \subseteq handedOff[r]

(* Runner.Run: when it returns, no unit goroutine is left, no result is    *)
(* unread and no request is in the budget.                                 *)
ReturnsDrained ==
  \A r \in Run :
    pc[r] \in {"returned", "closed"} =>
      /\ \A u \in Unit : phase[r][u] = "none"
      /\ r \notin Waiting \cup granted

(* Runner.Run without a cancellation: every unit ran, except those that    *)
(* depend, directly or not, on a unit that did not succeed; the graph      *)
(* never stalls.                                                           *)
BranchesIndependent ==
  \A r \in Run :
    pc[r] \in {"returned", "closed"} =>
      /\ "stalled" \notin errs[r]
      /\ ~(r \in cancelled /\ "canceled" \in errs[r]) =>
           \A u \in Unit :
             /\ node[r][u] \in {"succeeded", "failed", "skipped", "cancelled"}
             /\ node[r][u] = "skipped" <=> FailedDependencies(r, u) # {}

(* FinalizeExecution: a run that succeeded has executed and handed off     *)
(* every unit; a run that closed has no open unit.                         *)
ClosedRunsAreComplete ==
  \A r \in Run :
    pc[r] = "closed" =>
      /\ \A u \in Unit : unit[r][u] \notin UnitOpen
      /\ runStatus[r] = "success" =>
           handedOff[r] = Unit /\ \A u \in Unit : unit[r][u] = "success"

(* UpdateRunUnit and finishOpenRunUnits: the outcome of a unit, once       *)
(* written, is never replaced, not by a later event nor by the end of the  *)
(* run.                                                                    *)
UnitOutcomeIsFinal ==
  [][\A r \in Run : \A u \in Unit :
       unit[r][u] \notin UnitOpen => unit'[r][u] = unit[r][u]]_vars

(* Runs that wait for the budget, hold slots of it while they wait, are    *)
(* cancelled or fail: as long as operators return, every run closes.       *)
RunsClose == \A r \in Run : <>(pc[r] = "closed")

(* runner_test.go TestRunnerCancellationDrainsActiveAndCancelsQueued:      *)
(* cancellation reports every unit that was not started.                   *)
CancellationReportsUnits ==
  \A r \in Run : pc[r] = "returned" => Pending(r) = {}

(* The slots a run holds, for its units or not noticed yet.                *)
Held == [r \in Run |-> Cardinality(Executing(r)) + (IF r \in granted THEN 1 ELSE 0)]

(* The runs that queue before each other.                                  *)
Ahead == [r \in Run |->
            {waiters[j] : j \in {k \in DOMAIN waiters :
                                  \E i \in DOMAIN waiters : k < i /\ waiters[i] = r}}]

(* budget.go: the budget is a FairBudget. *)
Fair == INSTANCE FairBudget WITH
  free <- Limit - active, held <- Held, asking <- Waiting, ahead <- Ahead

ImplementsFairBudget == Fair!FairSpec
=============================================================================
