----------------------------- MODULE RunLedger ------------------------------
(***************************************************************************)
(* The durable run ledger of internal/web/scheduler and the processes that *)
(* work on it: admission into pipeline slots and resource claims, the      *)
(* River worker, the request-owned inline executor, user cancellation,     *)
(* shutdown, process crashes and startup recovery.                         *)
(*                                                                         *)
(* One step is one SQLite transaction (or one statement in autocommit), or *)
(* one step on the in-memory maps under Service.mu.  A write that fails    *)
(* may or may not have been applied when its context ends under it.        *)
(***************************************************************************)
EXTENDS RunAdmission, Naturals

CONSTANTS
  Run,          \* run ids, none of them in the ledger at first
  NoRun,        \* "no owner" of a slot or a claim
  NoDemand,     \* the demand of a run that was never admitted
  MaxCrashes,   \* bound on process crashes
  MaxFaults     \* bound on database writes that fail

ASSUME LedgerAssumption ==
  /\ NoRun \notin Run
  /\ NoDemand \notin Demand
  /\ MaxCrashes \in Nat
  /\ MaxFaults \in Nat

VARIABLES
  (* SQLite: the ledger *)
  status,       \* pipeline_runs.status ("absent" before admission)
  demand,       \* the run's spec, plan and selection
  slot,         \* pipeline_run_slots: slot_key -> run_id
  claimSet,     \* pipeline_run_claim_sets: run ids
  claim,        \* pipeline_run_resource_claims: claim_key -> run_id
  open,         \* runs with a unit or step that is not terminal
  pending,      \* pipeline_runs.recovery_pending
  (* SQLite: River's queue *)
  job,          \* river_job.state of the run's job
  cancelAsked,  \* runs whose job metadata holds cancel_attempted_at
  (* memory of the server process *)
  proc,         \* "up", "stopping", "down" or "recovering"
  phase,        \* where the run's worker or inline executor is
  result,       \* what the runner returned, then what Work returns
  ctxDone,      \* runs whose execution context is cancelled
  canceller,    \* where the CancelRun call for the run is
  replay,       \* recovered runs that startup still has to replay
  (* history and bounds *)
  unclosed,     \* runs whose last write, the one that closes them, failed
  starts,       \* how often the executor of the run was entered
  crashes, faults

ledger == <<status, demand, slot, claimSet, claim, open, pending>>
river == <<job, cancelAsked>>
memory == <<phase, result, ctxDone, canceller, replay>>
bounds == <<crashes, faults>>
vars == <<ledger, river, proc, memory, starts, unclosed, bounds>>

Active == {"queued", "running"}
Terminal == {"success", "failed", "cancelled"}
Runnable == {"available", "scheduled"}
JobState == {"none", "running", "completed", "cancelled", "discarded"} \cup Runnable
Phase == {"idle", "preparing", "rejecting", "retrying", "starting",
          "executing", "closing", "returning"}
Result == {"none", "ok", "snooze", "cancel", "error"} \cup Terminal
Canceller == {"idle", "checked", "finalizing", "signalling"}

Init ==
  /\ status = [r \in Run |-> "absent"]
  /\ demand = [r \in Run |-> NoDemand]
  /\ slot = [k \in Key |-> NoRun]
  /\ claimSet = {}
  /\ claim = [c \in Resource |-> NoRun]
  /\ open = {} /\ pending = {}
  /\ job = [r \in Run |-> "none"]
  /\ cancelAsked = {}
  /\ proc = "up"
  /\ phase = [r \in Run |-> "idle"]
  /\ result = [r \in Run |-> "none"]
  /\ ctxDone = {}
  /\ canceller = [r \in Run |-> "idle"]
  /\ replay = {}
  /\ starts = [r \in Run |-> 0]
  /\ unclosed = {}
  /\ crashes = 0 /\ faults = 0

-----------------------------------------------------------------------------
(* Updating pipeline_runs.status fires the triggers that delete the slots  *)
(* and the claim sets (with their claims) of every run that leaves Active. *)

(* Mutant: the triggers fire as soon as a run is no longer queued.         *)
ReleasedAtStart(newStatus) == {r \in Run : status[r] = "queued" /\ newStatus[r] # "queued"}

Released(newStatus) == {r \in Run : status[r] \in Active /\ newStatus[r] \notin Active}

UpdateStatus(newStatus) ==
  LET gone == Released(newStatus) IN
  /\ status' = newStatus
  /\ slot' = [k \in Key |-> IF slot[k] \in gone THEN NoRun ELSE slot[k]]
  /\ claimSet' = claimSet \ gone
  /\ claim' = [c \in Resource |-> IF claim[c] \in gone THEN NoRun ELSE claim[c]]

(* A write the database refuses; Bound: at most MaxFaults of them. *)
Fault == /\ faults < MaxFaults
         /\ faults' = faults + 1

(* Mutant: the run row is closed alone.                                    *)
FinalizedRowOnly(r, s) ==
  /\ UpdateStatus([status EXCEPT ![r] = s])
  /\ UNCHANGED open

(* Open steps and units are closed with the run row, in one transaction.   *)
Finalized(r, s) ==
  /\ UpdateStatus([status EXCEPT ![r] = s])
  /\ open' = open \ {r}

LedgerKept == UNCHANGED <<status, slot, claimSet, claim, open>>

(* FinalizeExecution refuses a run that is not active, and a success over  *)
(* an unfinished unit.                                                     *)
Finalizable(r, s) == status[r] \in Active /\ (s = "success" => r \notin open)

FinalizeReturns(r, s) ==
  /\ Finalizable(r, s)
  /\ Finalized(r, s)
  /\ UNCHANGED faults

FinalizeErrs(r, s) ==
  \/ ~Finalizable(r, s) /\ LedgerKept /\ UNCHANGED faults
  \/ Fault /\ (LedgerKept \/ (Finalizable(r, s) /\ Finalized(r, s)))

ServerRuns == proc \in {"up", "stopping"}

-----------------------------------------------------------------------------
(* Admission: one transaction, rolled back whole on the first conflict.    *)

OwnsClaim(o) == \E c \in Resource : claim[c] = o

(* Mutant: only the runs with pipeline isolation are looked for.           *)
PipelineRunActive(d) ==
  \E o \in claimSet : TakesSlot(demand[o]) /\ OwnsClaim(o) /\ SamePipeline(demand[o], d)

(* activeResourceRunForPipeline *)
ResourceRunActive(d) ==
  \E o \in claimSet : OwnsClaim(o) /\ SamePipeline(demand[o], d)

SlotsFree(d) == \A k \in d.keys : slot[k] = NoRun

(* claimRunAdmission, claimRunSlot for a run without a plan *)
Admissible(d) ==
  /\ TakesSlot(d) => SlotsFree(d) /\ ~ResourceRunActive(d)
  /\ (~TakesSlot(d) /\ d.claims # {}) => SlotsFree(d)
  /\ \A c \in d.claims : claim[c] = NoRun

Admit(r, d) ==
  /\ ServerRuns
  /\ status[r] = "absent"
  /\ Admissible(d)
  /\ status' = [status EXCEPT ![r] = "queued"]
  /\ demand' = [demand EXCEPT ![r] = d]
  /\ slot' = [k \in Key |-> IF TakesSlot(d) /\ k \in d.keys THEN r ELSE slot[k]]
  /\ claimSet' = IF TakesClaimSet(d) THEN claimSet \cup {r} ELSE claimSet
  /\ claim' = [c \in Resource |-> IF c \in d.claims THEN r ELSE claim[c]]
  /\ open' = IF d.units THEN open \cup {r} ELSE open
  /\ UNCHANGED <<pending, cancelAsked, proc, result, ctxDone, canceller, replay, starts, unclosed, bounds>>

(* admitQueuedRun: the run, its spec, plan, job and link commit together. *)
AdmitQueuedRun(r, d) ==
  /\ d.dispatch = "river"
  /\ Admit(r, d)
  /\ job' = [job EXCEPT ![r] = "available"]
  /\ UNCHANGED phase

(* AdmitInlineRun and RegisterInlineRunCancellation: the request goroutine *)
(* is the executor, River has no job.                                      *)
AdmitInlineRun(r, d) ==
  /\ d.dispatch = "inline"
  /\ Admit(r, d)
  /\ phase' = [phase EXCEPT ![r] = "starting"]
  /\ UNCHANGED job

-----------------------------------------------------------------------------
(* The River worker.  River fetches a job, the worker prepares, executes   *)
(* and finalizes the run, and River records what Work returned.            *)

(* activeRunCancels and inlineRunCancels hold a handle from the start of   *)
(* execute (the admission, for an inline run) until it has returned.       *)
Registered(r) == phase[r] \in {"starting", "executing", "closing"}

StepTo(r, p, res) == /\ phase' = [phase EXCEPT ![r] = p]
                     /\ result' = [result EXCEPT ![r] = res]

FetchJob(r) ==
  /\ proc = "up"
  /\ job[r] = "available"
  /\ job' = [job EXCEPT ![r] = "running"]
  /\ StepTo(r, "preparing", "none")
  /\ UNCHANGED <<ledger, cancelAsked, proc, ctxDone, canceller, replay, starts, unclosed, bounds>>

SnoozeEnds(r) ==
  /\ proc = "up"
  /\ job[r] = "scheduled"
  /\ job' = [job EXCEPT ![r] = "available"]
  /\ UNCHANGED <<ledger, cancelAsked, proc, memory, starts, unclosed, bounds>>

(* prepareRun: a terminal run needs nothing; an invalid spec or a blocked  *)
(* plan fails the run; a run already running had an indeterminate start.   *)
PrepareRun(r) ==
  /\ ServerRuns /\ phase[r] = "preparing"
  /\ IF status[r] \notin Active
     THEN StepTo(r, "returning", "ok")
     ELSE \/ StepTo(r, "rejecting", "none")
          \/ StepTo(r, IF status[r] = "running" THEN "retrying" ELSE "starting", "none")
  /\ UNCHANGED <<ledger, river, proc, ctxDone, canceller, replay, starts, unclosed, bounds>>

(* A read that fails, or that the stopping client's context cuts short.    *)
PrepareRunFails(r) ==
  /\ ServerRuns /\ phase[r] = "preparing"
  /\ Fault \/ (proc = "stopping" /\ UNCHANGED faults)
  /\ StepTo(r, "returning", "snooze")
  /\ UNCHANGED <<ledger, river, proc, ctxDone, canceller, replay, starts, unclosed, crashes>>

(* failRunBeforeExecution and Finish, an update without a status guard     *)
(* under the context of the job; Work then cancels the job, or returns the *)
(* persistence error.                                                      *)
FailRunBeforeExecution(r) ==
  /\ ServerRuns /\ phase[r] = "rejecting"
  /\ \/ /\ Finalized(r, "failed")
        /\ StepTo(r, "returning", "cancel")
        /\ UNCHANGED <<unclosed, faults>>
     \/ /\ Fault \/ (proc = "stopping" /\ UNCHANGED faults)
        /\ Finalized(r, "failed") \/ LedgerKept
        /\ StepTo(r, "returning", "error")
        /\ unclosed' = unclosed \cup {r}
  /\ UNCHANGED <<demand, pending, river, proc, ctxDone, canceller, replay, starts, crashes>>

(* finalizeIndeterminateRetry never enters the executor a second time.     *)
FinalizeIndeterminateRetry(r) ==
  /\ ServerRuns /\ phase[r] = "retrying"
  /\ \/ FinalizeReturns(r, "failed") /\ StepTo(r, "returning", "ok")
     \/ FinalizeErrs(r, "failed") /\ StepTo(r, "returning", "snooze")
  /\ UNCHANGED <<demand, pending, river, proc, ctxDone, canceller, replay, starts, unclosed, crashes>>

(* MarkRunning is an update without a status guard.  The executor then     *)
(* binds its units and steps, which stay open while it works.              *)
MarkRunning(r) ==
  /\ ServerRuns /\ phase[r] = "starting" /\ r \notin ctxDone
  /\ UpdateStatus([status EXCEPT ![r] = "running"])
  /\ StepTo(r, "executing", "none")
  /\ open' = open \cup {r}
  /\ starts' = [starts EXCEPT ![r] = @ + 1]
  /\ UNCHANGED <<demand, pending, river, proc, ctxDone, canceller, replay, unclosed, bounds>>

(* The start is not persisted, or not known to be: the worker snoozes its  *)
(* job (runStartPersistenceError), an inline run is finished at once.      *)
StartFails(r) ==
  IF demand[r].dispatch = "river"
  THEN StepTo(r, "returning", "snooze")
  ELSE StepTo(r, "closing", IF r \in ctxDone THEN "cancelled" ELSE "failed")

MarkRunningFails(r) ==
  /\ ServerRuns /\ phase[r] = "starting"
  /\ \/ /\ r \in ctxDone
        /\ UNCHANGED <<status, slot, claimSet, claim, faults>>
     \/ /\ Fault
        /\ \/ UpdateStatus([status EXCEPT ![r] = "running"])
           \/ UNCHANGED <<status, slot, claimSet, claim>>
  /\ StartFails(r)
  /\ UNCHANGED <<demand, pending, open, river, proc, ctxDone, canceller, replay, starts, unclosed, crashes>>

(* The runner returns a success only when it has closed every unit, and a  *)
(* cancellation only when its context was cancelled; a panic is a failure. *)
RunnerReturns(r) ==
  /\ ServerRuns /\ phase[r] = "executing"
  /\ \E s \in Terminal :
       /\ s = "cancelled" => r \in ctxDone
       /\ StepTo(r, "closing", s)
       /\ open' = IF s = "success" THEN open \ {r} ELSE open
  /\ UNCHANGED <<status, demand, slot, claimSet, claim, pending, river, proc,
                 ctxDone, canceller, replay, starts, unclosed, bounds>>

(* An inline executor that has tried to finalize returns and is forgotten. *)
Leave(r, res) ==
  IF demand[r].dispatch = "river"
  THEN StepTo(r, "returning", res) /\ UNCHANGED ctxDone
  ELSE StepTo(r, "idle", "none") /\ ctxDone' = ctxDone \ {r}

(* FinalizeExecution under a context detached from the cancelled one.  It  *)
(* is tried once: an error is returned to River (to nobody after a panic). *)
FinalizeExecution(r) ==
  /\ ServerRuns /\ phase[r] = "closing"
  /\ \/ /\ FinalizeReturns(r, result[r])
        /\ Leave(r, "ok")
        /\ UNCHANGED unclosed
     \/ /\ FinalizeErrs(r, result[r])
        /\ \E res \in {"ok", "error"} : Leave(r, res)
        /\ unclosed' = unclosed \cup {r}
  /\ UNCHANGED <<demand, pending, river, proc, canceller, replay, starts, crashes>>

(* Mutant: more than one attempt, so that River retries an error.          *)
RetriedOutcome(r) == IF result[r] = "error" THEN "retryable" ELSE "completed"

(* Mutant: a persistence error is logged and the job is done.              *)
UnsnoozedOutcome(r) == IF result[r] = "cancel" THEN "cancelled" ELSE "completed"

(* What River records of a job that Work has returned from; it turns the   *)
(* snooze of a job whose cancellation was asked for into a cancellation.   *)
JobOutcome(r) ==
  CASE result[r] = "ok" -> "completed"
    [] result[r] = "cancel" -> "cancelled"
    [] result[r] = "error" -> "discarded"
    [] OTHER -> IF r \in cancelAsked THEN "cancelled" ELSE "scheduled"

JobDone(r) ==
  /\ ServerRuns /\ phase[r] = "returning"
  /\ job' = [job EXCEPT ![r] = JobOutcome(r)]
  /\ StepTo(r, "idle", "none")
  /\ ctxDone' = ctxDone \ {r}
  /\ UNCHANGED <<ledger, cancelAsked, proc, canceller, replay, starts, unclosed, bounds>>

-----------------------------------------------------------------------------
(* CancelRun, a call of its own beside the worker.                         *)

CancelRun(r) ==
  /\ proc = "up" /\ canceller[r] = "idle"
  /\ status[r] \in Active
  /\ job[r] \in Runnable \cup {"running"} /\ r \notin cancelAsked
  /\ canceller' = [canceller EXCEPT ![r] = "checked"]
  /\ UNCHANGED <<ledger, river, proc, phase, result, ctxDone, replay, starts, unclosed, bounds>>

(* Mutant: the run is closed at once, whoever works on it.                 *)
ClosesAtOnce(r) == "finalizing"

(* CancelRun closes the run itself unless a worker has its job.            *)
AfterJobCancel(r) == IF job[r] = "running" THEN "signalling" ELSE "finalizing"

(* River's JobCancel: a job that does not run is cancelled on the spot, a  *)
(* running one only records the request, a finalized one refuses.  CancelRun *)
(* gives up on an error, whether or not the update was applied.            *)
JobCancel(r) ==
  /\ ServerRuns /\ canceller[r] = "checked"
  /\ LET cancellable == job[r] \in Runnable \cup {"running"}
         updated ==
           /\ cancelAsked' = cancelAsked \cup {r}
           /\ job' = [job EXCEPT ![r] = IF @ = "running" THEN @ ELSE "cancelled"]
         goesTo(place) == canceller' = [canceller EXCEPT ![r] = place]
     IN \/ /\ cancellable /\ updated
           /\ goesTo(AfterJobCancel(r))
           /\ UNCHANGED faults
        \/ /\ ~cancellable /\ goesTo("idle")
           /\ UNCHANGED <<river, faults>>
        \/ /\ Fault /\ goesTo("idle")
           /\ (cancellable /\ updated) \/ UNCHANGED river
  /\ UNCHANGED <<ledger, proc, phase, result, ctxDone, replay, starts, unclosed, crashes>>

(* The execution context is cancelled if the worker has registered it.     *)
SignalExecution(r) ==
  /\ ServerRuns /\ canceller[r] = "signalling"
  /\ canceller' = [canceller EXCEPT ![r] = "idle"]
  /\ ctxDone' = IF Registered(r) THEN ctxDone \cup {r} ELSE ctxDone
  /\ UNCHANGED <<ledger, river, proc, phase, result, replay, starts, unclosed, bounds>>

FinalizeCancelled(r) ==
  /\ ServerRuns /\ canceller[r] = "finalizing"
  /\ FinalizeReturns(r, "cancelled") \/ FinalizeErrs(r, "cancelled")
  /\ canceller' = [canceller EXCEPT ![r] = "idle"]
  /\ UNCHANGED <<demand, pending, river, proc, phase, result, ctxDone, replay, starts, unclosed, crashes>>

(* cancelInlineRun, or the client of the request going away.               *)
CancelInlineRun(r) ==
  /\ ServerRuns
  /\ demand[r] # NoDemand /\ demand[r].dispatch = "inline"
  /\ Registered(r) /\ r \notin ctxDone
  /\ ctxDone' = ctxDone \cup {r}
  /\ UNCHANGED <<ledger, river, proc, phase, result, canceller, replay, starts, unclosed, bounds>>

-----------------------------------------------------------------------------
(* Stopping, crashing, starting again.  Bound: MaxCrashes of the first two.*)

Stop ==
  /\ proc = "up" /\ crashes < MaxCrashes
  /\ proc' = "stopping"
  /\ crashes' = crashes + 1
  /\ UNCHANGED <<ledger, river, memory, starts, unclosed, faults>>

(* River cancels the context of the jobs that outlive its soft stop.       *)
StopCancels(r) ==
  /\ proc = "stopping"
  /\ Registered(r) /\ r \notin ctxDone
  /\ ctxDone' = ctxDone \cup {r}
  /\ UNCHANGED <<ledger, river, proc, phase, result, canceller, replay, starts, unclosed, bounds>>

LoseMemory ==
  /\ proc' = "down"
  /\ phase' = [r \in Run |-> "idle"]
  /\ result' = [r \in Run |-> "none"]
  /\ ctxDone' = {}
  /\ canceller' = [r \in Run |-> "idle"]
  /\ replay' = {}
  /\ UNCHANGED <<ledger, river, starts, unclosed, faults>>

Exit == /\ proc = "stopping"
        /\ LoseMemory
        /\ UNCHANGED crashes

Crash == /\ proc \in {"up", "recovering"} /\ crashes < MaxCrashes
         /\ LoseMemory
         /\ crashes' = crashes + 1

(* Mutant: a queued run is taken to have its job still.                    *)
InterruptedRunning == {r \in Run : status[r] = "running"}

(* The runs no worker can continue: running ones, and queued ones without  *)
(* a job that is still going to be fetched.                                *)
Interrupted == {r \in Run : \/ status[r] = "running"
                            \/ status[r] = "queued" /\ job[r] \notin Runnable}

(* Mutant: interrupted runs go back to the queue with their jobs.          *)
RequeueInterruptedState ==
  /\ proc = "down"
  /\ UpdateStatus([r \in Run |-> IF r \in Interrupted THEN "queued" ELSE status[r]])
  /\ job' = [r \in Run |-> IF job[r] = "running" THEN "available" ELSE job[r]]
  /\ replay' = pending
  /\ proc' = "recovering"
  /\ UNCHANGED <<demand, open, pending, cancelAsked, phase, result, ctxDone,
                 canceller, starts, unclosed, bounds>>

(* One transaction, before the new River client starts.                    *)
ReconcileInterruptedState ==
  /\ proc = "down"
  /\ UpdateStatus([r \in Run |-> IF r \in Interrupted THEN "failed" ELSE status[r]])
  /\ open' = open \ Interrupted
  /\ pending' = pending \cup Interrupted
  /\ \E repaired \in SUBSET {r \in Run : job[r] = "scheduled"} :
       job' = [r \in Run |-> IF job[r] = "running" THEN "cancelled"
                             ELSE IF r \in repaired THEN "available" ELSE job[r]]
  /\ replay' = pending'
  /\ proc' = "recovering"
  /\ UNCHANGED <<demand, cancelAsked, phase, result, ctxDone, canceller, starts, unclosed, bounds>>

(* recoverOrphanedRuns replays each recovered run into the derived stores, *)
(* acknowledges it, and goes on to the next when the replay failed.        *)
ReplayRun(r) ==
  /\ proc = "recovering" /\ r \in replay
  /\ replay' = replay \ {r}
  /\ open' = open \ {r}
  /\ pending' \in {pending, pending \ {r}}
  /\ UNCHANGED <<status, demand, slot, claimSet, claim, river, proc, phase, result,
                 ctxDone, canceller, starts, unclosed, bounds>>

StartWorkers ==
  /\ proc = "recovering" /\ replay = {}
  /\ proc' = "up"
  /\ UNCHANGED <<ledger, river, memory, starts, unclosed, bounds>>

-----------------------------------------------------------------------------
Worker(r) ==
  \/ FetchJob(r) \/ SnoozeEnds(r) \/ PrepareRun(r) \/ FailRunBeforeExecution(r)
  \/ FinalizeIndeterminateRetry(r) \/ MarkRunning(r) \/ MarkRunningFails(r)
  \/ RunnerReturns(r) \/ FinalizeExecution(r) \/ JobDone(r)

CancelCall(r) == JobCancel(r) \/ SignalExecution(r) \/ FinalizeCancelled(r)

Startup == ReconcileInterruptedState \/ (\E r \in Run : ReplayRun(r)) \/ StartWorkers

Next ==
  \/ \E r \in Run, d \in Demand : AdmitQueuedRun(r, d) \/ AdmitInlineRun(r, d)
  \/ \E r \in Run : \/ Worker(r) \/ PrepareRunFails(r)
                    \/ CancelRun(r) \/ CancelCall(r) \/ CancelInlineRun(r)
                    \/ StopCancels(r)
  \/ Stop \/ Exit \/ Crash
  \/ Startup

Spec == Init /\ [][Next]_vars

(* The worker, an accepted cancellation and the startup sequence are       *)
(* goroutines that run to their end; the executor and the replay return.   *)
(* A server that stops does exit and is started again.  Nobody has to      *)
(* admit or cancel a run, to stop the server or to make it crash.          *)
Fairness ==
  /\ \A r \in Run : WF_vars(Worker(r)) /\ WF_vars(CancelCall(r))
  /\ WF_vars(Startup)
  /\ WF_vars(Exit)

FairSpec == Spec /\ Fairness

-----------------------------------------------------------------------------
(* Type invariant of the ledger, the queue and the server's memory.        *)
TypeOK ==
  /\ status \in [Run -> {"absent"} \cup Active \cup Terminal]
  /\ demand \in [Run -> Demand \cup {NoDemand}]
  /\ slot \in [Key -> Run \cup {NoRun}]
  /\ claimSet \subseteq Run
  /\ claim \in [Resource -> Run \cup {NoRun}]
  /\ open \subseteq Run /\ pending \subseteq Run
  /\ job \in [Run -> JobState]
  /\ cancelAsked \subseteq Run
  /\ proc \in {"up", "stopping", "down", "recovering"}
  /\ phase \in [Run -> Phase]
  /\ result \in [Run -> Result]
  /\ ctxDone \subseteq Run /\ replay \subseteq Run
  /\ canceller \in [Run -> Canceller]
  /\ starts \in [Run -> Nat]
  /\ unclosed \subseteq Run
  /\ crashes \in Nat /\ faults \in Nat

(* Two runs that are queued or running at the same time may be so: never   *)
(* two of one pipeline (under its path or its UUID) that would write, never *)
(* two that claim one write resource.                                      *)
ActiveRunsExclude ==
  \A r, o \in Run :
    (r # o /\ status[r] \in Active /\ status[o] \in Active)
      => Compatible(demand[r], demand[o])

(* No slot or claim is leaked or lost: exactly the active runs own them,   *)
(* each all the keys, the claim set and the resources of its demand.       *)
OwnershipFollowsActivity ==
  /\ \A k \in Key : slot[k] # NoRun => status[slot[k]] \in Active
  /\ \A c \in Resource : claim[c] # NoRun => status[claim[c]] \in Active
  /\ \A r \in Run : status[r] \in Active =>
       /\ TakesSlot(demand[r]) => \A k \in demand[r].keys : slot[k] = r
       /\ r \in claimSet <=> TakesClaimSet(demand[r])
       /\ \A c \in demand[r].claims : claim[c] = r
  /\ \A r \in claimSet : status[r] \in Active

(* The slot outlives the executor: while a run executes, or has returned   *)
(* without being finalized, its row is running, so that what it owns keeps *)
(* every conflicting executor out.                                         *)
ExecutorsExclude ==
  \A r \in Run : phase[r] = "executing" =>
    /\ status[r] = "running"
    /\ \A o \in Run \ {r} : phase[o] = "executing" => Compatible(demand[r], demand[o])

(* Snoozes, retries, restarts and indeterminate starts never enter the     *)
(* executor of a run twice.                                                *)
ExecutedAtMostOnce == \A r \in Run : starts[r] <= 1

(* "A terminal run can therefore never become visible with a running step" *)
(* (FinalizeExecution), on every path that closes a run.                   *)
TerminalRunsAreClosed == \A r \in Run : status[r] \in Terminal => r \notin open

(* An active run is never forgotten by a server that is not stopping: a    *)
(* job that will be fetched, an executor or a cancellation that will close *)
(* it is there, unless the write that closes it failed or its running job  *)
(* was cancelled.                                                          *)
Attended(r) == job[r] \in Runnable \/ phase[r] # "idle" \/ canceller[r] = "finalizing"

ActiveRunsAreAttended ==
  \A r \in Run : (proc = "up" /\ status[r] \in Active /\ ~Attended(r))
                   => r \in unclosed \cup cancelAsked

(* Once startup has reconciled the ledger, every active run is a queued    *)
(* one that the new client is going to fetch.                              *)
StartupLeavesRunnableRuns ==
  proc = "recovering" =>
    \A r \in Run : status[r] \in Active => status[r] = "queued" /\ job[r] \in Runnable

(* A run that has ended keeps its end, although MarkRunning and Finish     *)
(* update the row without looking at its status.                           *)
TerminalIsFinal ==
  [][\A r \in Run : status[r] \in Terminal => status'[r] = status[r]]_status

(* Every run that nobody cancels closes, across restarts.                  *)
RunsClose == \A r \in Run : status[r] \in Active ~> (status[r] \notin Active \/ r \in cancelAsked)

(* A queued run whose job was cancelled on the spot is closed, also when   *)
(* the server goes down between the two transactions.                      *)
QueuedCancelCloses == \A r \in Run : canceller[r] = "finalizing" ~> status[r] \notin Active

(* backend.md, runs: cancelling a running job "leaves the run active until *)
(* the ordinary context-detached finalizer closes" it.                     *)
CancelledRunsClose == \A r \in Run : r \in cancelAsked ~> status[r] \notin Active

(* backend.md, runs: "for a running job it records River's durable         *)
(* cancellation request, cancels the in-process execution context".        *)
CancelReachesExecutor ==
  \A r \in Run : (r \in cancelAsked /\ canceller[r] = "idle" /\ phase[r] = "executing")
                   => r \in ctxDone

(* The ledger implements the abstract exclusion.                           *)
Life == [r \in Run |-> IF status[r] \in Active THEN "active"
                       ELSE IF status[r] \in Terminal THEN "closed" ELSE "absent"]

Exclusion == INSTANCE RunExclusion WITH life <- Life, wants <- demand
ImplementsExclusion == Exclusion!ExclusionSpec
=============================================================================
