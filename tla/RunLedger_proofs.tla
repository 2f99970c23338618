------------------------- MODULE RunLedger_proofs ---------------------------
(***************************************************************************)
(* The run ledger is correct for every set of runs, keys, resources and    *)
(* demands, and for every number of crashes and failing writes.            *)
(***************************************************************************)
EXTENDS RunLedgerInvariant, TLAPS

Status == {"absent"} \cup Active \cup Terminal

(* The invariant holds in the empty ledger. *)
LEMMA InitInv == Init => IInv
  <1> SUFFICES ASSUME Init PROVE IInv
    OBVIOUS
  <1> USE LedgerAssumption
  <1>1. TypeOK
    BY DEF Init, TypeOK, JobState, Phase, Result, Canceller
  <1>2. OwnershipFollowsActivity /\ ActiveRunsExclude
    BY DEF Init, OwnershipFollowsActivity, ActiveRunsExclude, Active
  <1>3. ASSUME NEW r \in Run PROVE RunInv(r)
    BY DEF Init, RunInv, AdmissionInv, ExecutorInv, PhaseInv, StartInv, OpenInv,
           AttentionInv, ServerRuns, Active, Terminal
  <1>4. StartupLeavesRunnableRuns /\ ActiveRunsAreAttended
    BY DEF Init, StartupLeavesRunnableRuns, ActiveRunsAreAttended, Active
  <1> QED
    BY <1>1, <1>2, <1>3, <1>4 DEF IInv

LEMMA DemandFields ==
  ASSUME NEW d \in Demand
  PROVE  /\ d.keys \subseteq Key /\ d.keys # {}
         /\ d.claims \subseteq Resource
         /\ d.dispatch \in {"river", "inline"}
         /\ d.units \in BOOLEAN
         /\ d.claims # {} => TakesClaimSet(d)
  BY DemandAssumption DEF Dispatch, TakesClaimSet

(* Updating a status releases what the runs that leave Active own, and     *)
(* nothing else.                                                           *)
LEMMA UpdateKeepsOwnership ==
  ASSUME TypeOK, OwnershipFollowsActivity,
         \A r \in Run : status[r] \in Active => demand[r] \in Demand,
         NEW newStatus \in [Run -> Status],
         \A r \in Run : newStatus[r] \in Active => status[r] \in Active,
         UpdateStatus(newStatus), UNCHANGED demand
  PROVE  OwnershipFollowsActivity'
  <1> USE LedgerAssumption
  <1> DEFINE gone == Released(newStatus)
  <1>1. /\ slot' = [k \in Key |-> IF slot[k] \in gone THEN NoRun ELSE slot[k]]
        /\ claim' = [c \in Resource |-> IF claim[c] \in gone THEN NoRun ELSE claim[c]]
        /\ claimSet' = claimSet \ gone
        /\ status' = newStatus
    BY DEF UpdateStatus
  <1>2. \A r \in Run : r \in gone <=> status[r] \in Active /\ status'[r] \notin Active
    BY <1>1 DEF Released
  <1> HIDE DEF gone
  <1>3. \A k \in Key : slot'[k] # NoRun => status'[slot'[k]] \in Active
    BY <1>1, <1>2 DEF TypeOK, OwnershipFollowsActivity
  <1>4. \A c \in Resource : claim'[c] # NoRun => status'[claim'[c]] \in Active
    BY <1>1, <1>2 DEF TypeOK, OwnershipFollowsActivity
  <1>5. ASSUME NEW r \in Run, status'[r] \in Active
        PROVE  /\ TakesSlot(demand[r]) => \A k \in demand[r].keys : slot'[k] = r
               /\ r \in claimSet' <=> TakesClaimSet(demand[r])
               /\ \A c \in demand[r].claims : claim'[c] = r
    <2>1. status[r] \in Active /\ r \notin gone /\ demand[r] \in Demand
      BY <1>1, <1>2, <1>5
    <2>2. demand[r].keys \subseteq Key /\ demand[r].claims \subseteq Resource
      BY <2>1, DemandFields
    <2> QED
      BY <1>1, <2>1, <2>2 DEF OwnershipFollowsActivity
  <1>6. \A r \in claimSet' : status'[r] \in Active
    BY <1>1, <1>2 DEF TypeOK, OwnershipFollowsActivity
  <1> QED
    BY <1>3, <1>4, <1>5, <1>6 DEF OwnershipFollowsActivity

LEMMA UpdateKeepsExclusion ==
  ASSUME ActiveRunsExclude,
         NEW newStatus,
         \A r \in Run : newStatus[r] \in Active => status[r] \in Active,
         UpdateStatus(newStatus), UNCHANGED demand
  PROVE  ActiveRunsExclude'
  BY DEF UpdateStatus, ActiveRunsExclude

(* Admission is the one step that makes a run active.  Every conflict the  *)
(* demand can have with an active run shows in a slot or in a claim.       *)
LEMMA AdmitKeepsExclusion ==
  ASSUME TypeOK, OwnershipFollowsActivity, ActiveRunsExclude,
         \A r \in Run : status[r] \in Active => demand[r] \in Demand,
         NEW r \in Run, NEW d \in Demand, Admit(r, d)
  PROVE  ActiveRunsExclude'
  <1> USE LedgerAssumption
  <1>1. /\ status' = [status EXCEPT ![r] = "queued"]
        /\ demand' = [demand EXCEPT ![r] = d]
        /\ Admissible(d)
    BY DEF Admit
  <1>2. ASSUME NEW o \in Run, status[o] \in Active
        PROVE  Compatible(demand[o], d) /\ Compatible(d, demand[o])
    <2> DEFINE e == demand[o]
    <2>1. e \in Demand /\ e.keys \subseteq Key /\ e.claims \subseteq Resource
      BY <1>2, DemandFields
    <2>2. d.keys \subseteq Key /\ d.claims \subseteq Resource
      BY DemandFields
    <2>3. /\ TakesSlot(e) => \A k \in e.keys : slot[k] = o
          /\ \A c \in e.claims : claim[c] = o
          /\ e.claims # {} => o \in claimSet
      BY <1>2, <2>1, DemandFields DEF OwnershipFollowsActivity
    <2>4. d.claims \cap e.claims = {}
      BY <1>1, <2>3 DEF Admissible
    <2>5. ASSUME SamePipeline(d, e) PROVE ~(TakesSlot(d) /\ TakesSlot(e))
      BY <1>1, <2>3, <2>5 DEF Admissible, SlotsFree, SamePipeline
    <2>6. ASSUME SamePipeline(d, e), TakesSlot(d) PROVE e.claims = {}
      <3> SUFFICES ASSUME e.claims # {} PROVE FALSE
        OBVIOUS
      <3>1. o \in claimSet /\ OwnsClaim(o)
        BY <2>1, <2>3 DEF OwnsClaim
      <3>2. SamePipeline(e, d)
        BY <2>6 DEF SamePipeline
      <3>3. ResourceRunActive(d)
        BY <3>1, <3>2 DEF ResourceRunActive
      <3> QED
        BY <1>1, <2>6, <3>3 DEF Admissible
    <2>7. ASSUME SamePipeline(d, e), TakesSlot(e) PROVE d.claims = {}
      <3> SUFFICES ASSUME d.claims # {} PROVE FALSE
        OBVIOUS
      <3>1. SlotsFree(d)
        BY <1>1 DEF Admissible
      <3> QED
        BY <2>3, <2>7, <3>1 DEF SlotsFree, SamePipeline
    <2>8. SamePipeline(d, e) <=> SamePipeline(e, d)
      BY DEF SamePipeline
    <2> QED
      BY <2>4, <2>5, <2>6, <2>7, <2>8 DEF Compatible
  <1>3. ASSUME NEW a \in Run, NEW o \in Run, a # o, status'[a] \in Active, status'[o] \in Active
        PROVE  Compatible(demand'[a], demand'[o])
    <2>1. CASE a # r /\ o # r
      BY <1>1, <1>3, <2>1 DEF ActiveRunsExclude, TypeOK
    <2>2. CASE a = r
      BY <1>1, <1>2, <1>3, <2>2 DEF TypeOK
    <2>3. CASE o = r
      BY <1>1, <1>2, <1>3, <2>3 DEF TypeOK
    <2> QED
      BY <2>1, <2>2, <2>3
  <1> QED
    BY <1>3 DEF ActiveRunsExclude

(* An admitted run takes what was free and leaves the others what they own.*)
LEMMA AdmitKeepsOwnership ==
  ASSUME TypeOK, OwnershipFollowsActivity,
         \A r \in Run : status[r] \in Active => demand[r] \in Demand,
         NEW r \in Run, NEW d \in Demand, Admit(r, d)
  PROVE  OwnershipFollowsActivity'
  <1> USE LedgerAssumption
  <1>1. /\ status[r] = "absent"
        /\ Admissible(d)
        /\ status' = [status EXCEPT ![r] = "queued"]
        /\ demand' = [demand EXCEPT ![r] = d]
        /\ slot' = [k \in Key |-> IF TakesSlot(d) /\ k \in d.keys THEN r ELSE slot[k]]
        /\ claimSet' = IF TakesClaimSet(d) THEN claimSet \cup {r} ELSE claimSet
        /\ claim' = [c \in Resource |-> IF c \in d.claims THEN r ELSE claim[c]]
    BY DEF Admit
  <1>2. \A o \in Run : status'[o] \in Active <=> o = r \/ status[o] \in Active
    BY <1>1 DEF TypeOK, Active
  <1>3. \A o \in Run \ {r} : demand'[o] = demand[o]
    BY <1>1 DEF TypeOK
  <1>4. demand'[r] = d /\ r \notin claimSet
    BY <1>1 DEF TypeOK, OwnershipFollowsActivity, Active
  <1>5. \A k \in Key : slot'[k] # NoRun => status'[slot'[k]] \in Active
    BY <1>1, <1>2 DEF TypeOK, OwnershipFollowsActivity
  <1>6. \A c \in Resource : claim'[c] # NoRun => status'[claim'[c]] \in Active
    BY <1>1, <1>2 DEF TypeOK, OwnershipFollowsActivity
  <1>7. \A o \in claimSet' : status'[o] \in Active
    BY <1>1, <1>2 DEF TypeOK, OwnershipFollowsActivity
  <1>8. ASSUME NEW o \in Run, status'[o] \in Active
        PROVE  /\ TakesSlot(demand'[o]) => \A k \in demand'[o].keys : slot'[k] = o
               /\ o \in claimSet' <=> TakesClaimSet(demand'[o])
               /\ \A c \in demand'[o].claims : claim'[c] = o
    <2>1. CASE o = r
      <3>1. d.keys \subseteq Key /\ d.claims \subseteq Resource
        BY DemandFields
      <3> QED
        BY <1>1, <1>4, <2>1, <3>1
    <2>2. CASE o # r
      <3> DEFINE e == demand[o]
      <3>1. demand'[o] = e /\ status[o] \in Active /\ e \in Demand
        BY <1>2, <1>3, <1>8, <2>2
      <3>2. e.keys \subseteq Key /\ e.claims \subseteq Resource
        BY <3>1, DemandFields
      <3>3. /\ TakesSlot(e) => \A k \in e.keys : slot[k] = o
            /\ o \in claimSet <=> TakesClaimSet(e)
            /\ \A c \in e.claims : claim[c] = o
        BY <3>1 DEF OwnershipFollowsActivity
      <3>4. TakesSlot(d) => \A k \in d.keys : slot[k] = NoRun
        BY <1>1 DEF Admissible, SlotsFree
      <3>5. \A c \in d.claims : claim[c] = NoRun
        BY <1>1 DEF Admissible
      <3>6. TakesSlot(e) => \A k \in e.keys : slot'[k] = o
        BY <1>1, <3>2, <3>3, <3>4
      <3>7. o \in claimSet' <=> TakesClaimSet(e)
        BY <1>1, <2>2, <3>3
      <3>8. \A c \in e.claims : claim'[c] = o
        BY <1>1, <3>2, <3>3, <3>5
      <3> QED
        BY <3>1, <3>6, <3>7, <3>8
    <2> QED
      BY <2>1, <2>2
  <1> QED
    BY <1>5, <1>6, <1>7, <1>8 DEF OwnershipFollowsActivity

-----------------------------------------------------------------------------
(* What a step may do to the rows: admit one run, close active runs or     *)
(* move them from queued to running, or nothing.                           *)

RowsMove(newStatus) ==
  /\ newStatus \in [Run -> Status]
  /\ \A r \in Run : \/ newStatus[r] = status[r]
                    \/ status[r] \in Active /\ newStatus[r] \in {"running"} \cup Terminal

AdmitStep == \E r \in Run, d \in Demand : Admit(r, d)
MoveStep == /\ UNCHANGED demand
            /\ \E newStatus \in [Run -> Status] : RowsMove(newStatus) /\ UpdateStatus(newStatus)
KeepStep == UNCHANGED <<status, demand, slot, claimSet, claim>>

LEMMA MoveOne ==
  ASSUME TypeOK, NEW r \in Run, status[r] \in Active,
         NEW s \in {"running"} \cup Terminal
  PROVE  RowsMove([status EXCEPT ![r] = s])
  BY DEF RowsMove, TypeOK, Status, Active, Terminal

LEMMA FinalizedMoves ==
  ASSUME TypeOK, NEW r \in Run, status[r] \in Active, NEW s \in Terminal,
         Finalized(r, s), UNCHANGED demand
  PROVE  MoveStep
  BY MoveOne DEF Finalized, MoveStep, RowsMove

LEMMA FinalizeErrsMoves ==
  ASSUME TypeOK, NEW r \in Run, NEW s \in Terminal,
         FinalizeErrs(r, s), UNCHANGED demand
  PROVE  MoveStep \/ KeepStep
  BY FinalizedMoves DEF FinalizeErrs, Finalizable, LedgerKept, KeepStep

LEMMA LedgerSteps ==
  ASSUME IInv, [Next]_vars
  PROVE  AdmitStep \/ MoveStep \/ KeepStep
  <1>1. TypeOK /\ \A r \in Run : RunInv(r)
    BY DEF IInv
  <1>2. ASSUME NEW r \in Run, NEW d \in Demand, AdmitQueuedRun(r, d) \/ AdmitInlineRun(r, d)
        PROVE  AdmitStep
    BY <1>2 DEF AdmitQueuedRun, AdmitInlineRun, AdmitStep
  <1>3. ASSUME NEW r \in Run, FailRunBeforeExecution(r)
        PROVE  MoveStep \/ KeepStep
    <2>1. status[r] \in Active
      BY <1>1, <1>3 DEF FailRunBeforeExecution, RunInv, PhaseInv
    <2> QED
      BY <1>1, <1>3, <2>1, FinalizedMoves
      DEF FailRunBeforeExecution, LedgerKept, KeepStep, Terminal
  <1>4. ASSUME NEW r \in Run, FinalizeIndeterminateRetry(r)
        PROVE  MoveStep \/ KeepStep
    BY <1>1, <1>4, FinalizedMoves, FinalizeErrsMoves
    DEF FinalizeIndeterminateRetry, FinalizeReturns, Finalizable, Terminal
  <1>5. ASSUME NEW r \in Run, FinalizeExecution(r)
        PROVE  MoveStep \/ KeepStep
    <2>1. result[r] \in Terminal
      BY <1>1, <1>5 DEF FinalizeExecution, RunInv, PhaseInv
    <2> QED
      BY <1>1, <1>5, <2>1, FinalizedMoves, FinalizeErrsMoves
      DEF FinalizeExecution, FinalizeReturns, Finalizable
  <1>6. ASSUME NEW r \in Run, FinalizeCancelled(r)
        PROVE  MoveStep \/ KeepStep
    BY <1>1, <1>6, FinalizedMoves, FinalizeErrsMoves
    DEF FinalizeCancelled, FinalizeReturns, Finalizable, Terminal
  <1>7. ASSUME NEW r \in Run, MarkRunning(r) \/ MarkRunningFails(r)
        PROVE  MoveStep \/ KeepStep
    <2>1. RowsMove([status EXCEPT ![r] = "running"])
      BY <1>1, <1>7, MoveOne DEF MarkRunning, MarkRunningFails, RunInv, PhaseInv, Active
    <2> QED
      BY <1>7, <2>1 DEF MarkRunning, MarkRunningFails, MoveStep, KeepStep, RowsMove
  <1>8. ASSUME ReconcileInterruptedState
        PROVE  MoveStep
    <2> DEFINE ns == [r \in Run |-> IF r \in Interrupted THEN "failed" ELSE status[r]]
    <2>1. RowsMove(ns)
      BY <1>1 DEF RowsMove, Interrupted, TypeOK, Status, Active, Terminal
    <2>2. UpdateStatus(ns) /\ UNCHANGED demand
      BY <1>8 DEF ReconcileInterruptedState
    <2> QED
      BY <2>1, <2>2 DEF MoveStep, RowsMove
  <1>9. ASSUME NEW r \in Run,
               \/ FetchJob(r) \/ SnoozeEnds(r) \/ PrepareRun(r) \/ PrepareRunFails(r)
               \/ RunnerReturns(r) \/ JobDone(r) \/ CancelRun(r) \/ JobCancel(r)
               \/ SignalExecution(r) \/ CancelInlineRun(r) \/ StopCancels(r) \/ ReplayRun(r)
        PROVE  KeepStep
    BY <1>9 DEF FetchJob, SnoozeEnds, PrepareRun, PrepareRunFails, RunnerReturns, JobDone,
                CancelRun, JobCancel, SignalExecution, CancelInlineRun, StopCancels, ReplayRun,
                KeepStep, ledger
  <1>10. ASSUME Stop \/ Exit \/ Crash \/ StartWorkers \/ UNCHANGED vars
         PROVE  KeepStep
    BY <1>10 DEF Stop, Exit, Crash, LoseMemory, StartWorkers, KeepStep, ledger, vars
  <1> QED
    BY <1>2, <1>3, <1>4, <1>5, <1>6, <1>7, <1>8, <1>9, <1>10
    DEF Next, Worker, CancelCall, Startup

(* The slots and claims stay with the active runs, and these compatible.   *)
LEMMA OwnershipStep ==
  ASSUME IInv, [Next]_vars
  PROVE  OwnershipFollowsActivity' /\ ActiveRunsExclude'
  <1>1. /\ TypeOK /\ OwnershipFollowsActivity /\ ActiveRunsExclude
        /\ \A r \in Run : status[r] \in Active => demand[r] \in Demand
    BY DEF IInv, RunInv, AdmissionInv, Active
  <1>2. CASE AdmitStep
    BY <1>1, <1>2, AdmitKeepsOwnership, AdmitKeepsExclusion DEF AdmitStep
  <1>3. CASE MoveStep
    <2>1. PICK newStatus \in [Run -> Status] : RowsMove(newStatus) /\ UpdateStatus(newStatus)
      BY <1>3 DEF MoveStep
    <2>2. \A r \in Run : newStatus[r] \in Active => status[r] \in Active
      BY <2>1 DEF RowsMove
    <2>3. UNCHANGED demand
      BY <1>3 DEF MoveStep
    <2> QED
      BY <1>1, <2>1, <2>2, <2>3, UpdateKeepsOwnership, UpdateKeepsExclusion
  <1>4. CASE KeepStep
    BY <1>1, <1>4 DEF KeepStep, OwnershipFollowsActivity, ActiveRunsExclude
  <1> QED
    BY <1>2, <1>3, <1>4, LedgerSteps

-----------------------------------------------------------------------------
LEMMA TypeStep ==
  ASSUME IInv, [Next]_vars
  PROVE  TypeOK'
  <1> USE LedgerAssumption
  <1> USE DEF TypeOK, Active, Terminal, Runnable, JobState, Phase, Result, Canceller
  <1>1. TypeOK /\ \A r \in Run : PhaseInv(r)
    BY DEF IInv, RunInv
  <1>2. ASSUME NEW r \in Run, NEW d \in Demand, AdmitQueuedRun(r, d) \/ AdmitInlineRun(r, d)
        PROVE  TypeOK'
    BY <1>1, <1>2 DEF AdmitQueuedRun, AdmitInlineRun, Admit, bounds
  <1>3. ASSUME NEW r \in Run, FetchJob(r) \/ SnoozeEnds(r) \/ PrepareRun(r) \/ PrepareRunFails(r)
        PROVE  TypeOK'
    BY <1>1, <1>3 DEF FetchJob, SnoozeEnds, PrepareRun, PrepareRunFails, StepTo, Fault,
                      ledger, river, memory, bounds
  <1>4. ASSUME NEW r \in Run, FailRunBeforeExecution(r)
        PROVE  TypeOK'
    BY <1>1, <1>4 DEF FailRunBeforeExecution, Finalized, UpdateStatus, LedgerKept, StepTo, Fault, river
  <1>5. ASSUME NEW r \in Run, FinalizeIndeterminateRetry(r)
        PROVE  TypeOK'
    BY <1>1, <1>5 DEF FinalizeIndeterminateRetry, FinalizeReturns, FinalizeErrs, Finalized,
                      UpdateStatus, LedgerKept, StepTo, Fault, river
  <1>6. ASSUME NEW r \in Run, MarkRunning(r) \/ MarkRunningFails(r)
        PROVE  TypeOK'
    BY <1>1, <1>6 DEF MarkRunning, MarkRunningFails, StartFails, UpdateStatus, StepTo, Fault,
                      river, bounds
  <1>7. ASSUME NEW r \in Run, RunnerReturns(r) \/ JobDone(r)
        PROVE  TypeOK'
    BY <1>1, <1>7 DEF RunnerReturns, JobDone, JobOutcome, StepTo, ledger, river, bounds
  <1>8. ASSUME NEW r \in Run, FinalizeExecution(r)
        PROVE  TypeOK'
    <2>1. result[r] \in Terminal
      BY <1>1, <1>8 DEF FinalizeExecution, PhaseInv
    <2> QED
      BY <1>1, <1>8, <2>1 DEF FinalizeExecution, FinalizeReturns, FinalizeErrs, Finalized,
                      UpdateStatus, LedgerKept, Leave, StepTo, Fault, river
  <1>9. ASSUME NEW r \in Run, FinalizeCancelled(r)
        PROVE  TypeOK'
    BY <1>1, <1>9 DEF FinalizeCancelled, FinalizeReturns, FinalizeErrs, Finalized,
                      UpdateStatus, LedgerKept, Fault, river
  <1>10. ASSUME NEW r \in Run, \/ CancelRun(r) \/ JobCancel(r) \/ SignalExecution(r)
                               \/ CancelInlineRun(r) \/ StopCancels(r)
         PROVE  TypeOK'
    BY <1>1, <1>10 DEF CancelRun, JobCancel, AfterJobCancel, SignalExecution, CancelInlineRun,
                       StopCancels, Fault, ledger, river, bounds
  <1>11. ASSUME Stop \/ Exit \/ Crash \/ StartWorkers \/ (\E r \in Run : ReplayRun(r)) \/ UNCHANGED vars
         PROVE  TypeOK'
    BY <1>1, <1>11 DEF Stop, Exit, Crash, LoseMemory, StartWorkers, ReplayRun,
                       ledger, river, memory, bounds, vars
  <1>12. ASSUME ReconcileInterruptedState
         PROVE  TypeOK'
    BY <1>1, <1>12 DEF ReconcileInterruptedState, Interrupted, UpdateStatus, bounds
  <1> QED
    BY <1>2, <1>3, <1>4, <1>5, <1>6, <1>7, <1>8, <1>9, <1>10, <1>11, <1>12
    DEF Next, Worker, CancelCall, Startup

-----------------------------------------------------------------------------
(* What holds of each run is kept by the steps of that run, and is not     *)
(* about the others, but for the steps of the whole process.               *)

LEMMA RunStep ==
  ASSUME IInv, [Next]_vars, NEW o \in Run
  PROVE  RunInv(o)'
  <1> USE LedgerAssumption
  <1> USE DEF RunInv, AdmissionInv, ExecutorInv, PhaseInv, StartInv, OpenInv, AttentionInv,
              ServerRuns, Active, Terminal, Runnable
  <1>1. TypeOK /\ \A r \in Run : RunInv(r)
    BY DEF IInv
  <1> USE DEF TypeOK
  <1>2. ASSUME NEW r \in Run, NEW d \in Demand, AdmitQueuedRun(r, d) \/ AdmitInlineRun(r, d)
        PROVE  RunInv(o)'
    BY <1>1, <1>2 DEF AdmitQueuedRun, AdmitInlineRun, Admit, bounds
  <1>3. ASSUME NEW r \in Run, FetchJob(r) \/ SnoozeEnds(r) \/ PrepareRun(r) \/ PrepareRunFails(r)
        PROVE  RunInv(o)'
    BY <1>1, <1>3 DEF FetchJob, SnoozeEnds, PrepareRun, PrepareRunFails, StepTo, Fault,
                      ledger, river, memory, bounds
  <1>4. ASSUME NEW r \in Run, FailRunBeforeExecution(r)
        PROVE  RunInv(o)'
    BY <1>1, <1>4 DEF FailRunBeforeExecution, Finalized, UpdateStatus, LedgerKept, StepTo, Fault, river
  <1>5. ASSUME NEW r \in Run, FinalizeIndeterminateRetry(r)
        PROVE  RunInv(o)'
    BY <1>1, <1>5 DEF FinalizeIndeterminateRetry, FinalizeReturns, FinalizeErrs, Finalizable, Finalized,
                      UpdateStatus, LedgerKept, StepTo, Fault, river
  <1>6. ASSUME NEW r \in Run, MarkRunning(r) \/ MarkRunningFails(r)
        PROVE  RunInv(o)'
    BY <1>1, <1>6 DEF MarkRunning, MarkRunningFails, StartFails, UpdateStatus, StepTo, Fault,
                      river, bounds
  <1>7. ASSUME NEW r \in Run, RunnerReturns(r) \/ JobDone(r)
        PROVE  RunInv(o)'
    BY <1>1, <1>7 DEF RunnerReturns, JobDone, JobOutcome, StepTo, ledger, river, bounds
  <1>8. ASSUME NEW r \in Run, FinalizeExecution(r)
        PROVE  RunInv(o)'
    BY <1>1, <1>8 DEF FinalizeExecution, FinalizeReturns, FinalizeErrs, Finalizable, Finalized,
                      UpdateStatus, LedgerKept, Leave, StepTo, Fault, river
  <1>9. ASSUME NEW r \in Run, FinalizeCancelled(r)
        PROVE  RunInv(o)'
    BY <1>1, <1>9 DEF FinalizeCancelled, FinalizeReturns, FinalizeErrs, Finalizable, Finalized,
                      UpdateStatus, LedgerKept, Fault, river
  <1>10. ASSUME NEW r \in Run, \/ CancelRun(r) \/ JobCancel(r) \/ SignalExecution(r)
                               \/ CancelInlineRun(r) \/ StopCancels(r)
         PROVE  RunInv(o)'
    BY <1>1, <1>10 DEF CancelRun, JobCancel, AfterJobCancel, SignalExecution, CancelInlineRun,
                       StopCancels, Fault, ledger, river, bounds
  <1>11. ASSUME Stop \/ Exit \/ Crash \/ StartWorkers \/ (\E r \in Run : ReplayRun(r)) \/ UNCHANGED vars
         PROVE  RunInv(o)'
    BY <1>1, <1>11 DEF Stop, Exit, Crash, LoseMemory, StartWorkers, ReplayRun,
                       ledger, river, memory, bounds, vars
  <1>12. ASSUME ReconcileInterruptedState
         PROVE  RunInv(o)'
    BY <1>1, <1>12 DEF ReconcileInterruptedState, Interrupted, UpdateStatus, bounds
  <1> QED
    BY <1>2, <1>3, <1>4, <1>5, <1>6, <1>7, <1>8, <1>9, <1>10, <1>11, <1>12
    DEF Next, Worker, CancelCall, Startup

(* Only the recovery transaction opens the startup, and only the start of  *)
(* the workers closes it.                                                  *)
LEMMA StartupStep ==
  ASSUME IInv, [Next]_vars
  PROVE  StartupLeavesRunnableRuns'
  <1> USE LedgerAssumption
  <1>1. TypeOK /\ StartupLeavesRunnableRuns
    BY DEF IInv
  <1>2. CASE ReconcileInterruptedState
    BY <1>1, <1>2 DEF ReconcileInterruptedState, StartupLeavesRunnableRuns, Interrupted,
                      UpdateStatus, TypeOK, Active, Runnable
  <1>3. CASE \E r \in Run : ReplayRun(r)
    BY <1>1, <1>3 DEF ReplayRun, StartupLeavesRunnableRuns, river
  <1>4. CASE UNCHANGED vars
    BY <1>1, <1>4 DEF StartupLeavesRunnableRuns, vars, ledger, river
  <1>5. CASE Stop \/ Exit \/ Crash \/ StartWorkers
    BY <1>5 DEF Stop, Exit, Crash, LoseMemory, StartWorkers, StartupLeavesRunnableRuns
  <1>6. ASSUME NEW r \in Run, NEW d \in Demand, AdmitQueuedRun(r, d) \/ AdmitInlineRun(r, d)
        PROVE  StartupLeavesRunnableRuns'
    BY <1>6 DEF AdmitQueuedRun, AdmitInlineRun, Admit, ServerRuns, StartupLeavesRunnableRuns
  <1>7. ASSUME NEW r \in Run, \/ Worker(r) \/ PrepareRunFails(r) \/ CancelRun(r)
                              \/ CancelCall(r) \/ CancelInlineRun(r) \/ StopCancels(r)
        PROVE  StartupLeavesRunnableRuns'
    BY <1>7 DEF Worker, FetchJob, SnoozeEnds, PrepareRun, PrepareRunFails, FailRunBeforeExecution,
                FinalizeIndeterminateRetry, MarkRunning, MarkRunningFails, RunnerReturns,
                FinalizeExecution, JobDone, CancelRun, CancelCall, JobCancel, SignalExecution,
                FinalizeCancelled, CancelInlineRun, StopCancels, ServerRuns,
                StartupLeavesRunnableRuns
  <1> QED
    BY <1>2, <1>3, <1>4, <1>5, <1>6, <1>7 DEF Next, Startup

(* A run loses what attends to it only to a fault or to a cancellation.    *)
LEMMA AttentionStep ==
  ASSUME IInv, [Next]_vars
  PROVE  ActiveRunsAreAttended'
  <1> USE LedgerAssumption
  <1>1. TypeOK /\ (\A r \in Run : RunInv(r)) /\ StartupLeavesRunnableRuns /\ ActiveRunsAreAttended
    BY DEF IInv
  <1> USE DEF RunInv, AdmissionInv, ExecutorInv, PhaseInv, OpenInv, AttentionInv,
              ServerRuns, Active, Terminal, Runnable, ActiveRunsAreAttended, Attended, TypeOK
  <1>2. ASSUME NEW r \in Run, NEW d \in Demand, AdmitQueuedRun(r, d) \/ AdmitInlineRun(r, d)
        PROVE  ActiveRunsAreAttended'
    BY <1>1, <1>2 DEF AdmitQueuedRun, AdmitInlineRun, Admit, bounds
  <1>3. ASSUME NEW r \in Run, FetchJob(r) \/ SnoozeEnds(r) \/ PrepareRun(r) \/ PrepareRunFails(r)
        PROVE  ActiveRunsAreAttended'
    BY <1>1, <1>3 DEF FetchJob, SnoozeEnds, PrepareRun, PrepareRunFails, StepTo, Fault,
                      ledger, river, memory, bounds
  <1>4. ASSUME NEW r \in Run, FailRunBeforeExecution(r)
        PROVE  ActiveRunsAreAttended'
    BY <1>1, <1>4 DEF FailRunBeforeExecution, Finalized, UpdateStatus, LedgerKept, StepTo, Fault, river
  <1>5. ASSUME NEW r \in Run, FinalizeIndeterminateRetry(r)
        PROVE  ActiveRunsAreAttended'
    BY <1>1, <1>5 DEF FinalizeIndeterminateRetry, FinalizeReturns, FinalizeErrs, Finalizable, Finalized,
                      UpdateStatus, LedgerKept, StepTo, Fault, river
  <1>6. ASSUME NEW r \in Run, MarkRunning(r) \/ MarkRunningFails(r)
        PROVE  ActiveRunsAreAttended'
    BY <1>1, <1>6 DEF MarkRunning, MarkRunningFails, StartFails, UpdateStatus, StepTo, Fault,
                      river, bounds
  <1>7. ASSUME NEW r \in Run, RunnerReturns(r) \/ JobDone(r)
        PROVE  ActiveRunsAreAttended'
    BY <1>1, <1>7 DEF RunnerReturns, JobDone, JobOutcome, StepTo, ledger, river, bounds
  <1>8. ASSUME NEW r \in Run, FinalizeExecution(r)
        PROVE  ActiveRunsAreAttended'
    BY <1>1, <1>8 DEF FinalizeExecution, FinalizeReturns, FinalizeErrs, Finalizable, Finalized,
                      UpdateStatus, LedgerKept, Leave, StepTo, Fault, river
  <1>9. ASSUME NEW r \in Run, FinalizeCancelled(r)
        PROVE  ActiveRunsAreAttended'
    BY <1>1, <1>9 DEF FinalizeCancelled, FinalizeReturns, FinalizeErrs, Finalizable, Finalized,
                      UpdateStatus, LedgerKept, Fault, river
  <1>10. ASSUME NEW r \in Run, \/ CancelRun(r) \/ JobCancel(r) \/ SignalExecution(r)
                               \/ CancelInlineRun(r) \/ StopCancels(r)
         PROVE  ActiveRunsAreAttended'
    BY <1>1, <1>10 DEF CancelRun, JobCancel, AfterJobCancel, SignalExecution, CancelInlineRun,
                       StopCancels, Fault, ledger, river, bounds
  <1>11. ASSUME Stop \/ Exit \/ Crash \/ (\E r \in Run : ReplayRun(r)) \/ ReconcileInterruptedState
         PROVE  ActiveRunsAreAttended'
    BY <1>11 DEF Stop, Exit, Crash, LoseMemory, ReplayRun, ReconcileInterruptedState
  <1>12. ASSUME StartWorkers \/ UNCHANGED vars
         PROVE  ActiveRunsAreAttended'
    BY <1>1, <1>12 DEF StartWorkers, StartupLeavesRunnableRuns, ledger, river, memory, bounds, vars
  <1> QED
    BY <1>2, <1>3, <1>4, <1>5, <1>6, <1>7, <1>8, <1>9, <1>10, <1>11, <1>12
    DEF Next, Worker, CancelCall, Startup

-----------------------------------------------------------------------------
(* The invariant is inductive: no step of the server, of a canceller, of a *)
(* crash or of the recovery breaks it.                                     *)
THEOREM Invariance == Spec => []IInv
  <1>1. Init => IInv
    BY InitInv
  <1>2. IInv /\ [Next]_vars => IInv'
    BY TypeStep, OwnershipStep, RunStep, StartupStep, AttentionStep DEF IInv
  <1> QED
    BY <1>1, <1>2, PTL DEF Spec

(* Every variable keeps its type. *)
THEOREM TypeCorrect == Spec => []TypeOK
  <1>1. IInv => TypeOK
    BY DEF IInv
  <1> QED
    BY <1>1, Invariance, PTL

(* Runs that are active together are compatible (the slot and claim tables *)
(* of the store), and what they own is exactly what their demands name.    *)
THEOREM Exclusivity == Spec => [](ActiveRunsExclude /\ OwnershipFollowsActivity)
  <1>1. IInv => ActiveRunsExclude /\ OwnershipFollowsActivity
    BY DEF IInv
  <1> QED
    BY <1>1, Invariance, PTL

(* The slots, claims and resources in the store are those of the active    *)
(* runs and no others: a crash, a cancellation or an admission that is     *)
(* rolled back leaves none behind (claimRunAdmission, and the triggers     *)
(* release_pipeline_run_slot and release_pipeline_run_resource_claims).    *)
THEOREM Ownership == Spec => []OwnershipFollowsActivity
  <1>1. IInv => OwnershipFollowsActivity
    BY DEF IInv
  <1> QED
    BY <1>1, Invariance, PTL

(* No two executors that conflict work at the same time (Service.execute). *)
THEOREM ExecutorExclusion == Spec => []ExecutorsExclude
  <1>1. IInv => ExecutorsExclude
    BY DEF IInv, RunInv, PhaseInv, ActiveRunsExclude, ExecutorsExclude, Active
  <1> QED
    BY <1>1, Invariance, PTL

(* The executor of a run is entered at most once, whatever is retried.     *)
THEOREM AtMostOnce == Spec => []ExecutedAtMostOnce
  <1>1. IInv => ExecutedAtMostOnce
    BY DEF IInv, RunInv, StartInv, ExecutedAtMostOnce
  <1> QED
    BY <1>1, Invariance, PTL

(* A terminal run has no open step or unit (FinalizeExecution, Finish and  *)
(* ReconcileInterruptedState).                                             *)
THEOREM ClosedRuns == Spec => []TerminalRunsAreClosed
  <1>1. IInv => TerminalRunsAreClosed
    BY DEF IInv, RunInv, OpenInv, TerminalRunsAreClosed
  <1> QED
    BY <1>1, Invariance, PTL

(* A live server attends to every active run, and starts only when every   *)
(* active run has a job its client will fetch (recoverOrphanedRuns).       *)
THEOREM Attendance == Spec => [](ActiveRunsAreAttended /\ StartupLeavesRunnableRuns)
  <1>1. IInv => ActiveRunsAreAttended /\ StartupLeavesRunnableRuns
    BY DEF IInv
  <1> QED
    BY <1>1, Invariance, PTL

(* A closed run is never updated again, although MarkRunRunning and        *)
(* FinishRun have no guard on the status.                                  *)
THEOREM Finality == Spec => TerminalIsFinal
  <1>1. IInv /\ [Next]_vars => [\A r \in Run : status[r] \in Terminal => status'[r] = status[r]]_status
    <2> SUFFICES ASSUME IInv, [Next]_vars, NEW r \in Run, status[r] \in Terminal
                 PROVE  status'[r] = status[r]
      OBVIOUS
    <2>1. TypeOK
      BY DEF IInv
    <2>2. CASE AdmitStep
      BY <2>1, <2>2 DEF AdmitStep, Admit, TypeOK, Terminal
    <2>3. CASE MoveStep
      BY <2>3 DEF MoveStep, RowsMove, UpdateStatus, Terminal, Active
    <2>4. CASE KeepStep
      BY <2>4 DEF KeepStep
    <2> QED
      BY <2>2, <2>3, <2>4, LedgerSteps
  <1> QED
    BY <1>1, Invariance, PTL DEF Spec, TerminalIsFinal

-----------------------------------------------------------------------------
(* The ledger implements the abstract exclusion of module RunExclusion.    *)

LEMMA InitRefines == Init => Exclusion!ExclusionInit
  BY DEF Init, Exclusion!ExclusionInit, Life, Active, Terminal

LEMMA AdmitRefines ==
  ASSUME IInv, AdmitStep
  PROVE  Exclusion!ExclusionNext
  <1>1. PICK r \in Run, d \in Demand : Admit(r, d)
    BY DEF AdmitStep
  <1>2. /\ TypeOK /\ OwnershipFollowsActivity /\ ActiveRunsExclude
        /\ \A o \in Run : status[o] \in Active => demand[o] \in Demand
    BY DEF IInv, RunInv, AdmissionInv, Active
  <1>3. ActiveRunsExclude'
    BY <1>1, <1>2, AdmitKeepsExclusion
  <1>4. /\ status[r] = "absent"
        /\ status' = [status EXCEPT ![r] = "queued"]
        /\ demand' = [demand EXCEPT ![r] = d]
    BY <1>1 DEF Admit
  <1>5. ASSUME NEW o \in Run, Life[o] = "active"
        PROVE  Exclusion!Compatible(demand[o], d)
    <2>1. status[o] \in Active /\ o # r
      BY <1>4, <1>5 DEF Life, Active
    <2>2. status'[o] \in Active /\ status'[r] \in Active /\ demand'[o] = demand[o] /\ demand'[r] = d
      BY <1>2, <1>4, <2>1 DEF TypeOK, Active
    <2>3. Compatible(demand[o], d)
      BY <1>3, <2>1, <2>2 DEF ActiveRunsExclude
    <2> QED
      BY <2>3 DEF Compatible, SamePipeline, TakesSlot,
                  Exclusion!Compatible, Exclusion!SamePipeline, Exclusion!TakesSlot
  <1>6. Life[r] = "absent" /\ Life' = [Life EXCEPT ![r] = "active"]
    BY <1>2, <1>4 DEF Life, TypeOK, Active, Terminal
  <1>7. Exclusion!AdmitRun(r, d)
    BY <1>4, <1>5, <1>6 DEF Exclusion!AdmitRun
  <1> QED
    BY <1>7 DEF Exclusion!ExclusionNext

LEMMA MoveRefines ==
  ASSUME IInv, MoveStep
  PROVE  Exclusion!ExclusionNext
  <1>1. TypeOK
    BY DEF IInv
  <1>2. PICK newStatus \in [Run -> Status] : RowsMove(newStatus) /\ status' = newStatus
    BY DEF MoveStep, UpdateStatus
  <1> DEFINE S == {r \in Run : status[r] \in Active /\ newStatus[r] \in Terminal}
  <1>3. \A r \in S : Life[r] = "active"
    BY DEF Life
  <1>4. Life' = [r \in Run |-> IF r \in S THEN "closed" ELSE Life[r]]
    BY <1>1, <1>2 DEF Life, RowsMove, Active, Terminal
  <1>5. demand' = demand
    BY DEF MoveStep
  <1>6. Exclusion!CloseRuns(S)
    BY <1>3, <1>4, <1>5 DEF Exclusion!CloseRuns
  <1> QED
    BY <1>6 DEF Exclusion!ExclusionNext

THEOREM Refinement == Spec => ImplementsExclusion
  <1>1. IInv /\ [Next]_vars => [Exclusion!ExclusionNext]_(Exclusion!exclusionVars)
    <2> SUFFICES ASSUME IInv, [Next]_vars
                 PROVE  [Exclusion!ExclusionNext]_(Exclusion!exclusionVars)
      OBVIOUS
    <2>1. CASE AdmitStep
      BY <2>1, AdmitRefines
    <2>2. CASE MoveStep
      BY <2>2, MoveRefines
    <2>3. CASE KeepStep
      BY <2>3 DEF KeepStep, Life, Exclusion!exclusionVars
    <2> QED
      BY <2>1, <2>2, <2>3, LedgerSteps
  <1> QED
    BY <1>1, InitRefines, Invariance, PTL DEF Spec, ImplementsExclusion, Exclusion!ExclusionSpec
=============================================================================
