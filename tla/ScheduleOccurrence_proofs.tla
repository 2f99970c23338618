--------------------- MODULE ScheduleOccurrence_proofs ---------------------
(***************************************************************************)
(* Proofs about ScheduleOccurrence: IInv is an inductive invariant, so no  *)
(* interval is run twice and every active run is bound to its occurrence,  *)
(* for any number of runs, ticks, producer deployments, faults, crashes.   *)
(***************************************************************************)
EXTENDS ScheduleOccurrenceInvariant, FiniteSetTheorems, TLAPS

-----------------------------------------------------------------------------
(* Types of what the operators build. *)

(* A due signal belongs to an interval, two ticks of the clock. *)
LEMMA SignalInterval ==
  ASSUME NEW s \in Signal
  PROVE  s[1] \in Interval /\ s[1] \in Tick \X Tick
BY DEF Signal, Interval

(* The records Init begins with. *)
LEMMA InitialRecords ==
  /\ Absent \in Occurrence /\ Pending \in Occurrence
  /\ NoPlan \in PrerequisiteTerms /\ Unused \in AttemptRow
  /\ Absent.status = "none" /\ Absent.current = NoRun
  /\ Pending.status = "pending" /\ Pending.current = NoRun
  /\ Unused.status = "none"
BY ScheduleAssumption
   DEF ScheduleAssumption, Absent, Pending, NoPlan, Unused, Occurrence,
       PrerequisiteTerms, AttemptRow, Deployment, Tick

(* EnsureScheduleOccurrence: a recorded occurrence keeps its current run;  *)
(* only one that is neither active nor a success changes its status.       *)
LEMMA EnsuredFacts ==
  ASSUME NEW o \in Occurrence
  PROVE  /\ Ensured(o) \in Occurrence
         /\ o.status \in {"none", "failed", "cancelled"} => Ensured(o).status = "pending"
         /\ o.status \notin {"none", "failed", "cancelled"} => Ensured(o) = o
         /\ o.status # "none" => Ensured(o).current = o.current
         /\ o.status = "none" => Ensured(o).current = NoRun
         /\ Terms(Ensured(o)) \in PrerequisiteTerms
<1>1. Ensured(o) \in Occurrence
  <2>1. 0 \in Deployment
    BY ScheduleAssumption DEF ScheduleAssumption, Deployment
  <2>2. [o EXCEPT !.status = "pending", !.frozen = 0, !.deadline = "none"] \in Occurrence
    BY <2>1 DEF Occurrence
  <2>3. QED
    BY <2>2, InitialRecords DEF Ensured
<1>2. Terms(Ensured(o)) \in PrerequisiteTerms
  BY <1>1 DEF Terms, Occurrence, PrerequisiteTerms
<1>3. CASE o.status = "none"
  BY <1>1, <1>2, <1>3, InitialRecords DEF Ensured
<1>4. CASE o.status \in {"failed", "cancelled"}
  BY <1>1, <1>2, <1>4 DEF Ensured, Occurrence
<1>5. CASE o.status \notin {"none", "failed", "cancelled"}
  BY <1>1, <1>2, <1>5 DEF Ensured
<1>6. QED
  BY <1>3, <1>4, <1>5

(* MarkScheduleOccurrenceWaiting sets the terms of the wait only. *)
LEMMA WaitFacts ==
  ASSUME NEW s \in Signal, NEW o \in Occurrence, plan \in [Signal -> Deployment]
  PROVE  /\ WaitOf(s, o) \in Occurrence
         /\ WaitOf(s, o).status = o.status
         /\ WaitOf(s, o).current = o.current
         /\ WaitOf(s, o).frozen = plan[s]
         /\ Waits(o) => WaitOf(s, o).deadline = o.deadline
BY DEF WaitOf, Occurrence

(* The trigger changes the status of the occurrences whose active run is   *)
(* among the closed ones, and nothing else.                                *)
LEMMA TerminalFacts ==
  ASSUME NEW closed \in SUBSET Run, NEW status \in Terminal,
         occ \in [Interval -> Occurrence], run \in [Run -> AttemptRow]
  PROVE  /\ TerminalAfter(closed, status) \in [Interval -> Occurrence]
         /\ Closed(closed, status) \in [Run -> AttemptRow]
         /\ \A i \in Interval :
              /\ TerminalAfter(closed, status)[i].current = occ[i].current
              /\ occ[i].status = "active" /\ occ[i].current \in closed
                   => TerminalAfter(closed, status)[i].status = status
              /\ ~(occ[i].status = "active" /\ occ[i].current \in closed)
                   => TerminalAfter(closed, status)[i] = occ[i]
         /\ \A r \in Run :
              /\ Closed(closed, status)[r].interval = run[r].interval
              /\ r \in closed => Closed(closed, status)[r].status = status
              /\ r \notin closed => Closed(closed, status)[r] = run[r]
<1>1. ASSUME NEW i \in Interval
      PROVE  /\ occ[i] \in Occurrence
             /\ [occ[i] EXCEPT !.status = status] \in Occurrence
  BY DEF Occurrence
<1>2. ASSUME NEW r \in Run
      PROVE  /\ run[r] \in AttemptRow
             /\ [run[r] EXCEPT !.status = status] \in AttemptRow
  BY DEF AttemptRow
<1>3. /\ TerminalAfter(closed, status) \in [Interval -> Occurrence]
      /\ Closed(closed, status) \in [Run -> AttemptRow]
  BY <1>1, <1>2 DEF TerminalAfter, Closed
<1>4. QED
  BY <1>1, <1>2, <1>3 DEF TerminalAfter, Closed, Occurrence, AttemptRow

-----------------------------------------------------------------------------
(* The first state. *)

LEMMA InitIInv == Init => IInv
<1> SUFFICES ASSUME Init PROVE IInv
  OBVIOUS
<1>1. /\ \A i \in Interval : occ[i] = Absent
      /\ \A r \in Run : run[r] = Unused
  BY DEF Init
<1>2. TypeOK
  <2>1. occ \in [Interval -> Occurrence] /\ run \in [Run -> AttemptRow]
    BY InitialRecords DEF Init
  <2>2. signal \in [Signal -> SignalState]
    BY DEF Init, SignalState
  <2>3. seen \in [Signal -> PrerequisiteTerms] /\ plan \in [Signal -> Deployment]
    BY InitialRecords, ScheduleAssumption DEF Init, Deployment, ScheduleAssumption
  <2>4. watermark \in (-1)..MaxTick /\ since \in (-1)..MaxTick /\ now \in Tick
    BY ScheduleAssumption DEF Init, Tick, ScheduleAssumption
  <2>5. producer \in Deployment /\ policy \in Policies
    BY ScheduleAssumption DEF Init, Deployment, ScheduleAssumption
  <2>6. QED
    BY <2>1, <2>2, <2>3, <2>4, <2>5 DEF Init, TypeOK
<1>3. CurrentIsAttempt /\ LiveRunIsCurrent /\ LiveOccurrenceHasRun
  BY <1>1, InitialRecords
     DEF CurrentIsAttempt, LiveRunIsCurrent, LiveOccurrenceHasRun, Live
<1>4. QED
  BY <1>2, <1>3 DEF IInv

-----------------------------------------------------------------------------
(* Types. *)

LEMMA InsertedType ==
  ASSUME signal \in [Signal -> SignalState], NEW J
  PROVE  Inserted(J) \in [Signal -> SignalState]
BY DEF Inserted, SignalState

LEMMA LeaveType ==
  ASSUME TypeOK, NEW s \in Signal, NEW state \in SignalState, Leave(s, state)
  PROVE  /\ signal' \in [Signal -> SignalState]
         /\ seen' \in [Signal -> PrerequisiteTerms]
         /\ plan' \in [Signal -> Deployment]
<1>1. 0 \in Deployment
  BY ScheduleAssumption DEF ScheduleAssumption, Deployment
<1>2. QED
  BY <1>1, InitialRecords DEF TypeOK, Leave, SignalTo

(* The steps of the clock, the schedule and the server. *)
LEMMA EnvironmentType ==
  ASSUME TypeOK,
         \/ TickPasses \/ PeriodicSignal \/ Reconcile \/ ReconcileFails
         \/ DeployProducer \/ OtherRunStarts \/ OtherRunEnds \/ Crash \/ Idle
  PROVE  TypeOK' /\ UNCHANGED <<occ, run>>
<1> USE DEF TypeOK
<1>1. CASE TickPasses
  BY <1>1, ScheduleAssumption
     DEF TickPasses, worker, setting, Tick, ScheduleAssumption
<1>2. CASE PeriodicSignal
  BY <1>2, InsertedType DEF PeriodicSignal, worker, setting
<1>3. CASE Reconcile
  <2>1. signal' \in [Signal -> SignalState]
    BY <1>3, InsertedType DEF Reconcile
  <2>2. watermark' \in (-1)..MaxTick /\ since' \in (-1)..MaxTick
    BY <1>3, ScheduleAssumption DEF Reconcile, Tick, ScheduleAssumption
  <2>3. QED
    BY <1>3, <2>1, <2>2 DEF Reconcile, worker, setting
<1>4. CASE ReconcileFails
  <2>1. since' \in (-1)..MaxTick
    BY <1>4, ScheduleAssumption DEF ReconcileFails, ScheduleAssumption
  <2>2. QED
    BY <1>4, <2>1, InsertedType DEF ReconcileFails, worker, setting
<1>5. CASE DeployProducer
  BY <1>5, ScheduleAssumption
     DEF DeployProducer, worker, clock, Deployment, ScheduleAssumption
<1>6. CASE OtherRunStarts
  BY <1>6 DEF OtherRunStarts, worker, clock, setting
<1>7. CASE OtherRunEnds
  BY <1>7 DEF OtherRunEnds, worker, clock, setting
<1>8. CASE Crash
  <2>1. 0 \in Deployment
    BY ScheduleAssumption DEF ScheduleAssumption, Deployment
  <2>2. signal' \in [Signal -> SignalState]
    BY <1>8 DEF Crash, SignalState
  <2>3. seen' \in [Signal -> PrerequisiteTerms] /\ plan' \in [Signal -> Deployment]
    BY <1>8, <2>1, InitialRecords DEF Crash
  <2>4. since' \in (-1)..MaxTick
    BY <1>8, ScheduleAssumption DEF Crash, ScheduleAssumption
  <2>5. QED
    BY <1>8, <2>2, <2>3, <2>4 DEF Crash, setting
<1>9. CASE Idle
  BY <1>9 DEF Idle, vars, worker, clock, setting
<1>10. QED
  BY <1>1, <1>2, <1>3, <1>4, <1>5, <1>6, <1>7, <1>8, <1>9

(* The steps of a worker that leave the occurrence alone. *)
LEMMA WorkerType ==
  ASSUME TypeOK, NEW s \in Signal,
         \/ FetchSignal(s) \/ VariablesUnresolved(s) \/ PlanScheduledRun(s)
         \/ PipelineRunActive(s) \/ AlreadyAdmitted(s) \/ CompleteSignal(s)
         \/ SignalFails(s) \/ SnoozeEnds(s)
  PROVE  TypeOK' /\ UNCHANGED <<occ, run>>
<1> USE DEF TypeOK
<1>1. CASE FetchSignal(s)
  BY <1>1 DEF FetchSignal, SignalTo, worker, clock, setting, SignalState, Claimed
<1>2. CASE VariablesUnresolved(s)
  BY <1>2, LeaveType
     DEF VariablesUnresolved, clock, setting, SignalState
<1>3. CASE PlanScheduledRun(s)
  <2>1. signal' \in [Signal -> SignalState]
    BY <1>3 DEF PlanScheduledRun, SignalTo, SignalState, Claimed
  <2>2. plan' \in [Signal -> Deployment]
    BY <1>3 DEF PlanScheduledRun, PrerequisiteTerms
  <2>3. QED
    BY <1>3, <2>1, <2>2 DEF PlanScheduledRun, clock, setting
<1>4. CASE PipelineRunActive(s)
  BY <1>4, LeaveType DEF PipelineRunActive, clock, setting, SignalState
<1>5. CASE AlreadyAdmitted(s)
  BY <1>5, LeaveType DEF AlreadyAdmitted, clock, setting, SignalState
<1>6. CASE CompleteSignal(s)
  BY <1>6 DEF CompleteSignal, SignalTo, worker, clock, setting, SignalState
<1>7. CASE SignalFails(s)
  BY <1>7, LeaveType DEF SignalFails, clock, setting, SignalState
<1>8. CASE SnoozeEnds(s)
  BY <1>8 DEF SnoozeEnds, SignalTo, worker, clock, setting, SignalState
<1>9. QED
  BY <1>1, <1>2, <1>3, <1>4, <1>5, <1>6, <1>7, <1>8

-----------------------------------------------------------------------------
(* Occurrences and runs. *)

(* A step that changes occurrences and no run may forget a current run,    *)
(* but not the one of a live occurrence.                                   *)
LEMMA BindingKept ==
  ASSUME IInv, TypeOK', UNCHANGED run,
         \A i \in Interval :
           /\ occ'[i].current \in {occ[i].current, NoRun}
           /\ occ[i].status \in Live \/ occ'[i].status \in Live
                => /\ occ'[i].status = occ[i].status
                   /\ occ'[i].current = occ[i].current
  PROVE  IInv'
<1>1. \A r \in Run : run[r].status # "none" => run[r].interval \in Interval
  BY DEF IInv, CurrentIsAttempt
<1>2. CurrentIsAttempt'
  BY DEF IInv, CurrentIsAttempt
<1>3. LiveRunIsCurrent'
  BY <1>1 DEF IInv, LiveRunIsCurrent, Live
<1>4. LiveOccurrenceHasRun'
  BY DEF IInv, LiveOccurrenceHasRun
<1>5. QED
  BY <1>2, <1>3, <1>4 DEF IInv

(* EnsureScheduleOccurrence records or retries an occurrence that has no   *)
(* live run.                                                               *)
LEMMA EnsureStep ==
  ASSUME IInv, NEW s \in Signal, EnsureScheduleOccurrence(s)
  PROVE  IInv'
<1> DEFINE o == occ[s[1]]
<1>1. s[1] \in Interval /\ o \in Occurrence
  BY SignalInterval DEF IInv, TypeOK
<1>2. /\ occ' = [occ EXCEPT ![s[1]] = Ensured(o)]
      /\ UNCHANGED run
  BY DEF EnsureScheduleOccurrence
<1>3. TypeOK'
  <2>1. occ' \in [Interval -> Occurrence]
    BY <1>1, <1>2, EnsuredFacts DEF IInv, TypeOK
  <2>2. signal' \in [Signal -> SignalState]
    BY DEF EnsureScheduleOccurrence, SignalTo, IInv, TypeOK, SignalState, Claimed
  <2>3. seen' \in [Signal -> PrerequisiteTerms]
    <3>1. Terms(Ensured(o)) \in PrerequisiteTerms
      BY <1>1, EnsuredFacts
    <3>2. \/ seen' = seen
          \/ seen' = [seen EXCEPT ![s] = Terms(Ensured(o))]
      BY DEF EnsureScheduleOccurrence
    <3>3. QED
      BY <3>1, <3>2 DEF IInv, TypeOK
  <2>4. QED
    BY <2>1, <2>2, <2>3 DEF EnsureScheduleOccurrence, clock, setting, IInv, TypeOK
<1>4. ASSUME NEW i \in Interval
      PROVE  /\ occ'[i].current \in {occ[i].current, NoRun}
             /\ occ[i].status \in Live \/ occ'[i].status \in Live
                  => /\ occ'[i].status = occ[i].status
                     /\ occ'[i].current = occ[i].current
  <2>1. CASE i = s[1]
    <3>1. occ'[i] = Ensured(o) /\ occ[i] = o
      BY <1>1, <1>2, <2>1 DEF IInv, TypeOK
    <3>2. /\ Ensured(o).current \in {o.current, NoRun}
          /\ \/ Ensured(o) = o
             \/ Ensured(o).status = "pending" /\ o.status \in {"none", "failed", "cancelled"}
      BY <1>1, EnsuredFacts
    <3>3. QED
      BY <3>1, <3>2 DEF Live
  <2>2. CASE i # s[1]
    BY <1>1, <1>2, <2>2 DEF IInv, TypeOK
  <2>3. QED
    BY <2>1, <2>2
<1>5. QED
  BY <1>2, <1>3, <1>4, BindingKept

(* Entering and expiring a wait change pending occurrences only. *)
LEMMA WaitStep ==
  ASSUME IInv, NEW s \in Signal,
         \/ MarkScheduleOccurrenceWaiting(s)
         \/ FailScheduleOccurrencePrerequisites(s)
  PROVE  IInv'
<1> DEFINE o == occ[s[1]]
<1>1. s[1] \in Interval /\ o \in Occurrence
  BY SignalInterval DEF IInv, TypeOK
<1>2. CASE MarkScheduleOccurrenceWaiting(s)
  <2>1. \/ occ' = occ
        \/ MayWait(s, o) /\ occ' = [occ EXCEPT ![s[1]] = WaitOf(s, o)]
    BY <1>2 DEF MarkScheduleOccurrenceWaiting
  <2>2. /\ WaitOf(s, o) \in Occurrence
        /\ WaitOf(s, o).status = o.status
        /\ WaitOf(s, o).current = o.current
    BY <1>1, WaitFacts DEF IInv, TypeOK
  <2>3. occ' \in [Interval -> Occurrence]
    BY <1>1, <2>1, <2>2 DEF IInv, TypeOK
  <2>4. TypeOK'
    BY <1>2, <2>3, LeaveType
       DEF MarkScheduleOccurrenceWaiting, clock, setting, SignalState, IInv, TypeOK
  <2>5. \A i \in Interval :
          occ'[i].current = occ[i].current /\ occ'[i].status = occ[i].status
    BY <1>1, <2>1, <2>2 DEF IInv, TypeOK
  <2>6. QED
    BY <1>2, <2>4, <2>5, BindingKept DEF MarkScheduleOccurrenceWaiting
<1>3. CASE FailScheduleOccurrencePrerequisites(s)
  <2>1. \/ occ' = occ
        \/ Waits(o) /\ occ' = [occ EXCEPT ![s[1]].status = "failed"]
    BY <1>3 DEF FailScheduleOccurrencePrerequisites
  <2>2. [o EXCEPT !.status = "failed"] \in Occurrence
    BY <1>1 DEF Occurrence, Terminal
  <2>3. occ' \in [Interval -> Occurrence]
    BY <1>1, <2>1, <2>2 DEF IInv, TypeOK
  <2>4. \E state \in SignalState : Leave(s, state)
    BY <1>3 DEF FailScheduleOccurrencePrerequisites, SignalState
  <2>5. TypeOK'
    BY <1>3, <2>3, <2>4, LeaveType
       DEF FailScheduleOccurrencePrerequisites, clock, setting, IInv, TypeOK
  <2>6. \A i \in Interval :
          /\ occ'[i].current = occ[i].current
          /\ occ[i].status \in Live \/ occ'[i].status \in Live
               => occ'[i].status = occ[i].status
    BY <1>1, <2>1 DEF Waits, Live, Occurrence, IInv, TypeOK
  <2>7. QED
    BY <1>3, <2>5, <2>6, BindingKept DEF FailScheduleOccurrencePrerequisites
<1>4. QED
  BY <1>2, <1>3

(* A deadline that passes changes no status. *)
LEMMA DeadlineStep ==
  ASSUME IInv, NEW i \in Interval, DeadlinePasses(i)
  PROVE  IInv'
<1>1. [occ[i] EXCEPT !.deadline = "passed"] \in Occurrence
  BY DEF IInv, TypeOK, Occurrence
<1>2. occ' = [occ EXCEPT ![i] = [occ[i] EXCEPT !.deadline = "passed"]]
  BY DEF DeadlinePasses, IInv, TypeOK
<1>3. occ' \in [Interval -> Occurrence]
  BY <1>1, <1>2 DEF IInv, TypeOK
<1>4. \A s \in Signal : [seen[s] EXCEPT !.deadline = "passed"] \in PrerequisiteTerms
  BY DEF IInv, TypeOK, PrerequisiteTerms
<1>5. seen' \in [Signal -> PrerequisiteTerms]
  BY <1>4 DEF DeadlinePasses, IInv, TypeOK
<1>6. TypeOK'
  BY <1>3, <1>5 DEF DeadlinePasses, clock, setting, IInv, TypeOK
<1>7. \A j \in Interval :
        occ'[j].current = occ[j].current /\ occ'[j].status = occ[j].status
  BY <1>2 DEF IInv, TypeOK, Occurrence
<1>8. QED
  BY <1>6, <1>7, BindingKept DEF DeadlinePasses

(* The claim: an occurrence without a live run gets a new one. *)
LEMMA CreateStep ==
  ASSUME IInv, NEW s \in Signal, CreateScheduleOccurrenceAttempt(s)
  PROVE  IInv'
<1> DEFINE o == occ[s[1]]
<1>1. s[1] \in Interval /\ s[1] \in Tick \X Tick /\ o \in Occurrence
  BY SignalInterval DEF IInv, TypeOK
<1>2. Claimable(o) /\ ~SlotTaken
  BY DEF CreateScheduleOccurrenceAttempt
<1>3. PICK r \in Run :
        /\ run[r].status = "none"
        /\ run' = [run EXCEPT ![r] = [status |-> "active", interval |-> s[1],
                      attempt |-> o.attempts + 1, producer |-> plan[s]]]
        /\ occ' = [occ EXCEPT ![s[1]] = ActiveAs(o, r)]
  BY DEF CreateScheduleOccurrenceAttempt
<1>4. ActiveAs(o, r) \in Occurrence
  <2>1. 0 \in Deployment
    BY ScheduleAssumption DEF ScheduleAssumption, Deployment
  <2>2. o.attempts + 1 \in Nat
    BY <1>1 DEF Occurrence
  <2>3. QED
    BY <2>1, <2>2 DEF ActiveAs, Occurrence
<1>5. [status |-> "active", interval |-> s[1],
       attempt |-> o.attempts + 1, producer |-> plan[s]] \in AttemptRow
  <2>1. o.attempts + 1 \in Nat
    BY <1>1 DEF Occurrence
  <2>2. plan[s] \in Deployment
    BY DEF IInv, TypeOK
  <2>3. QED
    BY <1>1, <2>1, <2>2 DEF AttemptRow
<1>6. TypeOK'
  <2>1. occ' \in [Interval -> Occurrence] /\ run' \in [Run -> AttemptRow]
    BY <1>1, <1>3, <1>4, <1>5 DEF IInv, TypeOK
  <2>2. \E state \in SignalState : Leave(s, state)
    BY DEF CreateScheduleOccurrenceAttempt, SignalState, Claimed
  <2>3. QED
    BY <2>1, <2>2, LeaveType
       DEF CreateScheduleOccurrenceAttempt, clock, setting, IInv, TypeOK
<1>7. /\ occ'[s[1]].status = "active" /\ occ'[s[1]].current = r
      /\ \A i \in Interval \ {s[1]} : occ'[i] = occ[i]
      /\ run'[r].status = "active" /\ run'[r].interval = s[1]
      /\ \A q \in Run \ {r} : run'[q] = run[q]
  BY <1>1, <1>3 DEF ActiveAs, IInv, TypeOK
<1>8. \A q \in Run : run[q].status \in Live => run[q].interval # s[1]
  BY <1>2 DEF IInv, LiveRunIsCurrent, Claimable, Live
<1>9. \A i \in Interval : occ[i].current # r
  BY <1>3, ScheduleAssumption DEF IInv, CurrentIsAttempt, ScheduleAssumption
<1>10. CurrentIsAttempt'
  BY <1>1, <1>7, <1>9 DEF IInv, CurrentIsAttempt, TypeOK, Occurrence
<1>11. LiveRunIsCurrent'
  <2>1. \A q \in Run : run[q].status \in Live => run[q].interval \in Interval \ {s[1]}
    BY <1>8 DEF IInv, CurrentIsAttempt, Live
  <2>2. QED
    BY <1>1, <1>7, <2>1 DEF IInv, LiveRunIsCurrent
<1>12. LiveOccurrenceHasRun'
  BY <1>1, <1>7, <1>9 DEF IInv, LiveOccurrenceHasRun
<1>13. QED
  BY <1>6, <1>10, <1>11, <1>12 DEF IInv

(* Runs that end take their occurrences with them. *)
LEMMA CloseStep ==
  ASSUME IInv, TypeOK', NEW closed \in SUBSET Run, NEW status \in Terminal,
         \A r \in closed : run[r].status = "active",
         run' = Closed(closed, status), occ' = TerminalAfter(closed, status)
  PROVE  IInv'
<1>1. /\ \A i \in Interval :
           /\ occ'[i].current = occ[i].current
           /\ occ[i].status = "active" /\ occ[i].current \in closed
                => occ'[i].status = status
           /\ ~(occ[i].status = "active" /\ occ[i].current \in closed)
                => occ'[i].status = occ[i].status
      /\ \A r \in Run :
           /\ run'[r].interval = run[r].interval
           /\ r \in closed => run'[r].status = status
           /\ r \notin closed => run'[r] = run[r]
  <2>1. occ \in [Interval -> Occurrence] /\ run \in [Run -> AttemptRow]
    BY DEF IInv, TypeOK
  <2>2. ASSUME NEW i \in Interval
        PROVE  /\ occ'[i].current = occ[i].current
               /\ occ[i].status = "active" /\ occ[i].current \in closed
                    => occ'[i].status = status
               /\ ~(occ[i].status = "active" /\ occ[i].current \in closed)
                    => occ'[i].status = occ[i].status
    BY <2>1, TerminalFacts
  <2>3. ASSUME NEW r \in Run
        PROVE  /\ run'[r].interval = run[r].interval
               /\ r \in closed => run'[r].status = status
               /\ r \notin closed => run'[r] = run[r]
    BY <2>1 DEF Closed, AttemptRow
  <2>4. QED
    BY <2>2, <2>3
<1>2. /\ status # "none" /\ status # "active"
      /\ \A r \in closed : run[r].status # "none"
  BY DEF Terminal
<1>3. CurrentIsAttempt'
  BY <1>1, <1>2, ScheduleAssumption DEF IInv, CurrentIsAttempt, TypeOK, Occurrence
<1>4. ASSUME NEW r \in Run, run[r].status \in Live
      PROVE  /\ run[r].interval \in Interval
             /\ occ[run[r].interval].current = r
             /\ occ[run[r].interval].status = run[r].status
  BY <1>4 DEF IInv, CurrentIsAttempt, LiveRunIsCurrent, Live
<1>5. LiveRunIsCurrent'
  <2> SUFFICES ASSUME NEW r \in Run, run'[r].status \in Live
               PROVE  /\ occ'[run'[r].interval].current = r
                      /\ occ'[run'[r].interval].status = run'[r].status
    BY DEF LiveRunIsCurrent
  <2>1. run[r].status \in Live
    BY <1>1 DEF Live
  <2>2. QED
    BY <1>1, <1>4, <2>1
<1>6. LiveOccurrenceHasRun'
  <2> SUFFICES ASSUME NEW i \in Interval, occ'[i].status \in Live
               PROVE  /\ occ'[i].current \in Run
                      /\ run'[occ'[i].current].status = occ'[i].status
    BY DEF LiveOccurrenceHasRun
  <2>1. occ[i].status \in Live
    BY <1>1 DEF Live
  <2>2. occ[i].current \in Run /\ run[occ[i].current].status = occ[i].status
    BY <2>1 DEF IInv, LiveOccurrenceHasRun
  <2>3. QED
    BY <1>1, <2>2
<1>7. QED
  BY <1>3, <1>5, <1>6 DEF IInv

(* Finalization of a run, and of the interrupted runs at startup. *)
LEMMA EndStep ==
  ASSUME IInv, (\E r \in Run : FinalizeExecution(r)) \/ Start
  PROVE  IInv'
<1>1. ASSUME NEW r \in Run, FinalizeExecution(r) PROVE IInv'
  <2>1. PICK status \in Terminal :
          /\ run' = Closed({r}, status)
          /\ occ' = TerminalAfter({r}, status)
          /\ watermark' = (IF status = "success" THEN run[r].interval[2] ELSE watermark)
    BY <1>1 DEF FinalizeExecution
  <2>2. occ' \in [Interval -> Occurrence] /\ run' \in [Run -> AttemptRow]
    <3>1. {r} \in SUBSET Run
      OBVIOUS
    <3>2. QED
      BY <2>1, <3>1, TerminalFacts DEF IInv, TypeOK
  <2>3. watermark' \in (-1)..MaxTick
    <3>1. run[r].interval[2] \in Tick
      BY DEF IInv, TypeOK, AttemptRow
    <3>2. QED
      BY <2>1, <3>1, ScheduleAssumption DEF IInv, TypeOK, Tick, ScheduleAssumption
  <2>4. TypeOK'
    BY <1>1, <2>2, <2>3
       DEF FinalizeExecution, worker, clock, setting, IInv, TypeOK
  <2>5. QED
    BY <1>1, <2>1, <2>4, CloseStep DEF FinalizeExecution
<1>2. CASE Start
  <2>1. PICK interrupted \in SUBSET {r \in Run : run[r].status = "active"} :
          /\ run' = Closed(interrupted, "failed")
          /\ occ' = TerminalAfter(interrupted, "failed")
    BY <1>2 DEF Start
  <2>2. "failed" \in Terminal /\ interrupted \in SUBSET Run
    BY DEF Terminal
  <2>3. occ' \in [Interval -> Occurrence] /\ run' \in [Run -> AttemptRow]
    BY <2>1, <2>2, TerminalFacts DEF IInv, TypeOK
  <2>4. signal' \in [Signal -> SignalState]
    BY <1>2 DEF Start, SignalState, IInv, TypeOK
  <2>5. TypeOK'
    BY <1>2, <2>3, <2>4 DEF Start, worker, clock, setting, IInv, TypeOK
  <2>6. QED
    BY <2>1, <2>2, <2>5, CloseStep
<1>3. QED
  BY <1>1, <1>2

(* Every step keeps the invariant. *)
LEMMA StepIInv == IInv /\ [Next]_vars => IInv'
<1> SUFFICES ASSUME IInv, [Next]_vars PROVE IInv'
  OBVIOUS
<1>1. ASSUME TypeOK', UNCHANGED <<occ, run>> PROVE IInv'
  BY <1>1, BindingKept
<1>2. CASE \/ TickPasses \/ PeriodicSignal \/ Reconcile \/ ReconcileFails
           \/ DeployProducer \/ OtherRunStarts \/ OtherRunEnds \/ Crash \/ Idle
  BY <1>1, <1>2, EnvironmentType DEF IInv
<1>3. ASSUME NEW s \in Signal,
             SignalStep(s) \/ VariablesUnresolved(s) \/ SignalFails(s)
      PROVE  IInv'
  <2>1. CASE \/ FetchSignal(s) \/ VariablesUnresolved(s) \/ PlanScheduledRun(s)
             \/ PipelineRunActive(s) \/ AlreadyAdmitted(s) \/ CompleteSignal(s)
             \/ SignalFails(s) \/ SnoozeEnds(s)
    BY <1>1, <2>1, WorkerType DEF IInv
  <2>2. CASE EnsureScheduleOccurrence(s)
    BY <2>2, EnsureStep
  <2>3. CASE \/ MarkScheduleOccurrenceWaiting(s)
             \/ FailScheduleOccurrencePrerequisites(s)
    BY <2>3, WaitStep
  <2>4. CASE CreateScheduleOccurrenceAttempt(s)
    BY <2>4, CreateStep
  <2>5. QED
    BY <1>3, <2>1, <2>2, <2>3, <2>4 DEF SignalStep
<1>4. CASE (\E r \in Run : FinalizeExecution(r)) \/ Start
  BY <1>4, EndStep
<1>5. CASE \E i \in Interval : DeadlinePasses(i)
  BY <1>5, DeadlineStep
<1>6. CASE UNCHANGED vars
  <2>1. TypeOK' /\ UNCHANGED <<occ, run>>
    BY <1>6 DEF vars, worker, clock, setting, IInv, TypeOK
  <2>2. QED
    BY <1>1, <2>1
<1>7. QED
  BY <1>2, <1>3, <1>4, <1>5, <1>6 DEF Next

-----------------------------------------------------------------------------
(* Theorems. *)

(* The invariant holds in every reachable state. *)
THEOREM Invariant == Spec => []IInv
BY InitIInv, StepIInv, PTL DEF Spec

(* The tables hold what their columns may hold: schedule_occurrences keeps *)
(* the four stored statuses, whatever is shown of them.                    *)
THEOREM TypeCorrect == Spec => []TypeOK
<1>1. IInv => TypeOK
  BY DEF IInv
<1>2. QED
  BY <1>1, Invariant, PTL

(* createScheduleOccurrenceAttempt: no interval is run twice at a time or  *)
(* again after a success.                                                  *)
THEOREM IntervalsRunOnce == Spec => []OneRunPerInterval
<1>1. IInv => OneRunPerInterval
  BY DEF IInv, LiveRunIsCurrent, OneRunPerInterval, Live
<1>2. QED
  BY <1>1, Invariant, PTL

(* validateActiveRunOccurrenceBinding never refuses a run that is active.  *)
THEOREM ActiveRunsAreBound == Spec => []RunsAreBound
<1>1. IInv => RunsAreBound
  BY DEF IInv, LiveRunIsCurrent, LiveOccurrenceHasRun, RunsAreBound, Live
<1>2. QED
  BY <1>1, Invariant, PTL

-----------------------------------------------------------------------------
(* The action property. *)

(* A step keeps the terms of every wait it does not end. *)
TermsKept(i) ==
  Waits(occ[i]) /\ Waits(occ[i])' =>
    /\ occ'[i].frozen = occ[i].frozen
    /\ occ[i].deadline = "passed" => occ'[i].deadline = "passed"

LEMMA SameIsKept == \A i \in Interval : occ'[i] = occ[i] => TermsKept(i)
BY DEF TermsKept

LEMMA TermsStep ==
  ASSUME IInv, [Next]_vars, NEW i \in Interval
  PROVE  TermsKept(i)
<1>1. occ \in [Interval -> Occurrence] /\ occ[i] \in Occurrence
  BY DEF IInv, TypeOK
<1>2. CASE \/ TickPasses \/ PeriodicSignal \/ Reconcile \/ ReconcileFails
           \/ DeployProducer \/ OtherRunStarts \/ OtherRunEnds \/ Crash \/ Idle
  BY <1>2, EnvironmentType, SameIsKept DEF IInv
<1>3. ASSUME NEW s \in Signal,
             SignalStep(s) \/ VariablesUnresolved(s) \/ SignalFails(s)
      PROVE  TermsKept(i)
  <2>1. s[1] \in Interval /\ occ[s[1]] \in Occurrence
    BY <1>1, SignalInterval
  <2>2. CASE \/ FetchSignal(s) \/ VariablesUnresolved(s) \/ PlanScheduledRun(s)
             \/ PipelineRunActive(s) \/ AlreadyAdmitted(s) \/ CompleteSignal(s)
             \/ SignalFails(s) \/ SnoozeEnds(s)
    BY <2>2, WorkerType, SameIsKept DEF IInv
  <2>3. CASE EnsureScheduleOccurrence(s)
    <3>1. occ' = [occ EXCEPT ![s[1]] = Ensured(occ[s[1]])]
      BY <2>3 DEF EnsureScheduleOccurrence
    <3>2. Waits(occ[s[1]]) => Ensured(occ[s[1]]) = occ[s[1]]
      BY <2>1, EnsuredFacts DEF Waits
    <3>3. QED
      BY <1>1, <2>1, <3>1, <3>2 DEF TermsKept
  <2>4. CASE MarkScheduleOccurrenceWaiting(s)
    <3>1. \/ occ' = occ
          \/ /\ MayWait(s, occ[s[1]])
             /\ occ' = [occ EXCEPT ![s[1]] = WaitOf(s, occ[s[1]])]
      BY <2>4 DEF MarkScheduleOccurrenceWaiting
    <3>2. /\ WaitOf(s, occ[s[1]]).frozen = plan[s]
          /\ Waits(occ[s[1]]) => WaitOf(s, occ[s[1]]).deadline = occ[s[1]].deadline
      BY <2>1, WaitFacts DEF IInv, TypeOK
    <3>3. QED
      BY <1>1, <2>1, <3>1, <3>2 DEF TermsKept, MayWait
  <2>5. CASE FailScheduleOccurrencePrerequisites(s)
    <3>1. \/ occ' = occ
          \/ occ' = [occ EXCEPT ![s[1]].status = "failed"]
      BY <2>5 DEF FailScheduleOccurrencePrerequisites
    <3>2. QED
      BY <1>1, <2>1, <3>1 DEF TermsKept, Waits, Occurrence
  <2>6. CASE CreateScheduleOccurrenceAttempt(s)
    <3>1. PICK r \in Run : occ' = [occ EXCEPT ![s[1]] = ActiveAs(occ[s[1]], r)]
      BY <2>6 DEF CreateScheduleOccurrenceAttempt
    <3>2. QED
      BY <1>1, <2>1, <3>1 DEF TermsKept, Waits, ActiveAs
  <2>7. QED
    BY <1>3, <2>2, <2>3, <2>4, <2>5, <2>6 DEF SignalStep
<1>4. ASSUME NEW closed \in SUBSET Run, NEW status \in Terminal,
             occ' = TerminalAfter(closed, status)
      PROVE  TermsKept(i)
  <2>1. Waits(occ[i]) => occ'[i] = occ[i]
    BY <1>4 DEF TerminalAfter, Waits
  <2>2. QED
    BY <2>1 DEF TermsKept
<1>5. ASSUME NEW r \in Run, FinalizeExecution(r) PROVE TermsKept(i)
  BY <1>4, <1>5 DEF FinalizeExecution
<1>6. CASE Start
  <2>1. "failed" \in Terminal
    BY DEF Terminal
  <2>2. QED
    BY <1>4, <1>6, <2>1 DEF Start
<1>7. ASSUME NEW j \in Interval, DeadlinePasses(j) PROVE TermsKept(i)
  BY <1>1, <1>7 DEF DeadlinePasses, TermsKept, Occurrence
<1>8. CASE UNCHANGED vars
  BY <1>8, SameIsKept DEF vars
<1>9. QED
  BY <1>2, <1>3, <1>5, <1>6, <1>7, <1>8 DEF Next

(* MarkScheduleOccurrenceWaiting: while an occurrence waits its producer   *)
(* does not move, its deadline is not put off, and it has no active run.   *)
THEOREM WaitsKeepTheirTerms == Spec => WaitKeepsTerms
<1>1. ASSUME IInv, IInv', [Next]_vars
      PROVE  \A i \in Interval : Waits(occ[i]) /\ Waits(occ'[i]) =>
               /\ occ'[i].frozen = occ[i].frozen
               /\ occ[i].deadline = "passed" => occ'[i].deadline = "passed"
               /\ \A r \in Run : run'[r].interval = i => run'[r].status # "active"
  <2> SUFFICES ASSUME NEW i \in Interval, Waits(occ[i]), Waits(occ'[i])
               PROVE  /\ occ'[i].frozen = occ[i].frozen
                      /\ occ[i].deadline = "passed" => occ'[i].deadline = "passed"
                      /\ \A r \in Run : run'[r].interval = i => run'[r].status # "active"
    OBVIOUS
  <2>1. \A r \in Run : run'[r].interval = i => run'[r].status # "active"
    BY <1>1 DEF IInv, LiveRunIsCurrent, Live, Waits
  <2>2. /\ occ'[i].frozen = occ[i].frozen
        /\ occ[i].deadline = "passed" => occ'[i].deadline = "passed"
    BY <1>1, TermsStep DEF TermsKept, Waits
  <2>3. QED
    BY <2>1, <2>2
<1>2. QED
  BY <1>1, Invariant, PTL DEF Spec, WaitKeepsTerms

-----------------------------------------------------------------------------
(* Catch-up. *)

(* An interval that has a due signal or a record is not forgotten. *)
Kept(s) == signal[s] # "none" \/ occ[s[1]].status # "none"

(* What a step has to leave alone for CatchUpInv to survive it: it forgets *)
(* no interval and a worker goes on only with a recorded one.              *)
LEMMA CatchUpKept ==
  ASSUME CatchUpInv, UNCHANGED <<now, due, server, since, policy>>,
         \A s \in Signal : Kept(s) => Kept(s)', Recorded'
  PROVE  CatchUpInv'
<1>1. since' >= 0 => CaughtUp(since)'
  BY DEF CatchUpInv, CaughtUp, Kept
<1>2. QED
  BY <1>1 DEF CatchUpInv

(* An insertion gives every interval it is asked for a signal. *)
LEMMA InsertedFacts ==
  ASSUME TypeOK, NEW J, signal' = Inserted(J)
  PROVE  /\ \A s \in Signal : signal[s] # "none" => signal'[s] = signal[s]
         /\ \A s \in Signal : signal'[s] \in {signal[s], "available"}
         /\ \A i \in Interval \cap J :
              <<i, "v2">> \in Signal /\ signal'[<<i, "v2">>] # "none"
<1>1. \A i \in Interval : <<i, "v2">> \in Signal
  BY DEF Signal
<1>2. \A s \in Signal :
        /\ s[2] = "v2" /\ s[1] \in J /\ signal[s] = "none" => signal'[s] = "available"
        /\ ~(s[2] = "v2" /\ s[1] \in J /\ signal[s] = "none") => signal'[s] = signal[s]
  BY DEF Inserted
<1>3. QED
  BY <1>1, <1>2

(* The worker of a signal gives it up only for an interval it recorded. *)
LEMMA WorkerCatchUp ==
  ASSUME IInv, CatchUpInv, NEW s \in Signal,
         SignalStep(s) \/ VariablesUnresolved(s) \/ SignalFails(s)
  PROVE  CatchUpInv'
<1>1. /\ s[1] \in Interval /\ occ[s[1]] \in Occurrence
      /\ occ \in [Interval -> Occurrence] /\ signal \in [Signal -> SignalState]
  BY SignalInterval DEF IInv, TypeOK
<1>2. UNCHANGED <<now, due, server, since, policy>>
  BY DEF SignalStep, FetchSignal, EnsureScheduleOccurrence, PlanScheduledRun,
         MarkScheduleOccurrenceWaiting, FailScheduleOccurrencePrerequisites,
         CreateScheduleOccurrenceAttempt, PipelineRunActive, AlreadyAdmitted,
         CompleteSignal, SnoozeEnds, VariablesUnresolved, SignalFails, clock, setting
<1>3. \A t \in Signal \ {s} : signal'[t] = signal[t]
  BY <1>1
     DEF SignalStep, FetchSignal, EnsureScheduleOccurrence, PlanScheduledRun,
         MarkScheduleOccurrenceWaiting, FailScheduleOccurrencePrerequisites,
         CreateScheduleOccurrenceAttempt, PipelineRunActive, AlreadyAdmitted,
         CompleteSignal, SnoozeEnds, VariablesUnresolved, SignalFails, Leave, SignalTo
<1>4. /\ \A i \in Interval : occ[i].status # "none" => occ'[i].status # "none"
      /\ signal'[s] \in {"none", "planning", "blocked", "planned", "admitted"}
           => occ'[s[1]].status # "none"
  <2>1. CASE \/ FetchSignal(s) \/ PipelineRunActive(s) \/ SignalFails(s) \/ SnoozeEnds(s)
    <3>1. occ' = occ
      BY <2>1, WorkerType DEF IInv
    <3>2. signal'[s] \in {"fetched", "snoozed", "available"}
      BY <1>1, <2>1
         DEF FetchSignal, PipelineRunActive, SignalFails, SnoozeEnds, Leave, SignalTo
    <3>3. QED
      BY <3>1, <3>2
  <2>2. CASE \/ VariablesUnresolved(s) \/ PlanScheduledRun(s) \/ AlreadyAdmitted(s)
             \/ CompleteSignal(s)
    <3>1. occ' = occ
      BY <2>2, WorkerType DEF IInv
    <3>2. signal[s] \in {"planning", "planned", "admitted"}
      BY <2>2
         DEF VariablesUnresolved, PlanScheduledRun, AlreadyAdmitted, CompleteSignal
    <3>3. QED
      BY <3>1, <3>2 DEF CatchUpInv, Recorded
  <2>3. CASE EnsureScheduleOccurrence(s)
    <3>1. occ' = [occ EXCEPT ![s[1]] = Ensured(occ[s[1]])]
      BY <2>3 DEF EnsureScheduleOccurrence
    <3>2. Ensured(occ[s[1]]).status # "none"
      BY <1>1, EnsuredFacts DEF Occurrence
    <3>3. QED
      BY <1>1, <3>1, <3>2
  <2>4. CASE MarkScheduleOccurrenceWaiting(s)
    <3>1. \/ occ' = occ
          \/ occ' = [occ EXCEPT ![s[1]] = WaitOf(s, occ[s[1]])]
      BY <2>4 DEF MarkScheduleOccurrenceWaiting
    <3>2. WaitOf(s, occ[s[1]]).status = occ[s[1]].status
      BY <1>1, WaitFacts DEF IInv, TypeOK
    <3>3. signal[s] = "blocked"
      BY <2>4 DEF MarkScheduleOccurrenceWaiting
    <3>4. QED
      BY <1>1, <3>1, <3>2, <3>3 DEF CatchUpInv, Recorded
  <2>5. CASE FailScheduleOccurrencePrerequisites(s)
    <3>1. \/ occ' = occ
          \/ occ' = [occ EXCEPT ![s[1]].status = "failed"]
      BY <2>5 DEF FailScheduleOccurrencePrerequisites
    <3>2. signal[s] = "blocked"
      BY <2>5 DEF FailScheduleOccurrencePrerequisites
    <3>3. QED
      BY <1>1, <3>1, <3>2 DEF CatchUpInv, Recorded, Occurrence
  <2>6. CASE CreateScheduleOccurrenceAttempt(s)
    <3>1. PICK r \in Run : occ' = [occ EXCEPT ![s[1]] = ActiveAs(occ[s[1]], r)]
      BY <2>6 DEF CreateScheduleOccurrenceAttempt
    <3>2. ActiveAs(occ[s[1]], r).status # "none"
      BY DEF ActiveAs
    <3>3. QED
      BY <1>1, <3>1, <3>2
  <2>7. QED
    BY <2>1, <2>2, <2>3, <2>4, <2>5, <2>6 DEF SignalStep
<1>5. \A t \in Signal : t[1] \in Interval
  BY SignalInterval
<1>6. \A t \in Signal : Kept(t) => Kept(t)'
  BY <1>3, <1>4, <1>5 DEF Kept
<1>7. Recorded'
  BY <1>3, <1>4, <1>5 DEF CatchUpInv, Recorded
<1>8. QED
  BY <1>2, <1>6, <1>7, CatchUpKept

(* The trigger forgets no occurrence. *)
LEMMA CloseRecorded ==
  ASSUME IInv, NEW closed \in SUBSET Run, NEW status \in Terminal,
         occ' = TerminalAfter(closed, status)
  PROVE  \A i \in Interval : occ[i].status # "none" => occ'[i].status # "none"
<1>1. occ \in [Interval -> Occurrence] /\ run \in [Run -> AttemptRow]
  BY DEF IInv, TypeOK
<1>2. QED
  BY <1>1, TerminalFacts DEF Terminal

LEMMA IntervalBetween ==
  ASSUME NEW a \in Nat, NEW b \in Nat, a < b, b <= MaxTick
  PROVE  <<a, b>> \in Interval
<1>1. a \in 0..MaxTick /\ b \in 0..MaxTick
  BY ScheduleAssumption DEF ScheduleAssumption
<1>2. <<a, b>>[1] = a /\ <<a, b>>[2] = b
  OBVIOUS
<1>3. QED
  BY <1>1, <1>2 DEF Interval, Tick

(* A reconciliation that went through has a signal for every tick since    *)
(* the watermark: one interval over all of them, or one for each.          *)
LEMMA ReconcileCatchUp ==
  ASSUME IInv, CatchUpInv, Reconcile
  PROVE  CatchUpInv'
<1>1. /\ now \in Nat /\ now <= MaxTick /\ watermark \in Int /\ watermark >= -1
      /\ watermark <= MaxTick
      /\ policy \in {"skip", "run_once", "backfill"} /\ BackfillLimit \in Nat
  BY ScheduleAssumption DEF IInv, TypeOK, Tick, ScheduleAssumption
<1>2. /\ server' = "up" /\ due' = FALSE /\ signal' = Inserted(Missed)
      /\ since' = (IF watermark < 0 THEN now ELSE IF WithinLimit THEN watermark ELSE -1)
      /\ UNCHANGED <<occ, now, policy>>
  BY DEF Reconcile, setting
<1>3. /\ \A s \in Signal : signal'[s] \in {signal[s], "available"}
      /\ \A i \in Interval \cap Missed :
           <<i, "v2">> \in Signal /\ signal'[<<i, "v2">>] # "none"
  BY <1>2, InsertedFacts DEF IInv
<1>4. Recorded'
  BY <1>2, <1>3 DEF CatchUpInv, Recorded
<1>5. ASSUME since' >= 0, policy # "skip", NEW k \in (since' + 1)..now
      PROVE  \E i \in Interval \cap Missed : i[1] < k /\ k <= i[2]
  <2>1. /\ watermark >= 0 /\ WithinLimit /\ since' = watermark
        /\ k \in Int /\ watermark < k /\ k <= now
    BY <1>1, <1>2, <1>5
  <2>2. CASE policy = "run_once"
    <3>1. <<watermark, now>> \in Interval
      BY <1>1, <2>1, IntervalBetween
    <3>2. <<watermark, now>> \in Missed
      BY <1>1, <2>1, <2>2 DEF Missed
    <3>3. QED
      BY <2>1, <3>1, <3>2
  <2>3. CASE policy = "backfill"
    <3>1. <<k - 1, k>> \in Interval
      <4>1. k - 1 \in Nat /\ k \in Nat /\ k - 1 < k /\ k <= MaxTick
        BY <1>1, <2>1, ScheduleAssumption DEF ScheduleAssumption
      <4>2. QED
        BY <4>1, IntervalBetween
    <3>2. now <= watermark + BackfillLimit
      BY <2>1, <2>3 DEF WithinLimit
    <3>3. <<k - 1, k>> \in Missed
      BY <1>1, <2>1, <2>3, <3>1, <3>2 DEF Missed
    <3>4. QED
      BY <2>1, <3>1, <3>3
  <2>4. QED
    BY <1>1, <1>5, <2>2, <2>3
<1>6. since' >= 0 => CaughtUp(since)'
  <2> SUFFICES ASSUME since' >= 0, policy # "skip", NEW k \in (since' + 1)..now
               PROVE  \E s \in Signal : /\ s[1][1] < k /\ k <= s[1][2]
                                        /\ signal'[s] # "none" \/ occ'[s[1]].status # "none"
    BY <1>2 DEF CaughtUp
  <2>1. PICK i \in Interval \cap Missed : i[1] < k /\ k <= i[2]
    BY <1>5
  <2>2. /\ <<i, "v2">> \in Signal /\ signal'[<<i, "v2">>] # "none"
        /\ <<i, "v2">>[1] = i
    BY <1>3
  <2>3. QED
    BY <2>1, <2>2
<1>7. QED
  BY <1>2, <1>4, <1>6 DEF CatchUpInv

(* The clock: a tick of a running server is due until it has its signal.   *)
LEMMA ClockCatchUp ==
  ASSUME IInv, CatchUpInv, TickPasses \/ PeriodicSignal
  PROVE  CatchUpInv'
<1>1. now \in Nat /\ now <= MaxTick /\ since \in Int /\ since >= -1
  BY ScheduleAssumption DEF IInv, TypeOK, Tick, ScheduleAssumption
<1>2. CASE TickPasses
  <2>1. /\ ~due /\ now' = now + 1 /\ due' = (server = "up")
        /\ UNCHANGED <<occ, signal, server, since, policy>>
    BY <1>2 DEF TickPasses, setting
  <2>2. Recorded'
    BY <2>1 DEF CatchUpInv, Recorded
  <2>3. since' >= 0 => CaughtUp(since)'
    <3>1. ASSUME since >= 0, policy # "skip", NEW k \in (since + 1)..(now + 1)
          PROVE  \/ k = now + 1
                 \/ \E s \in Signal :
                      /\ s[1][1] < k /\ k <= s[1][2]
                      /\ signal[s] # "none" \/ occ[s[1]].status # "none"
      <4>1. k = now + 1 \/ k \in (since + 1)..now
        BY <1>1
      <4>2. QED
        BY <2>1, <3>1, <4>1 DEF CatchUpInv, CaughtUp
    <3>2. since >= 0 => due'
      <4>1. since >= 0 => server = "up"
        BY <1>1 DEF CatchUpInv
      <4>2. QED
        BY <2>1, <4>1
    <3>3. QED
      BY <2>1, <3>1, <3>2 DEF CaughtUp
  <2>4. due' => server' = "up" /\ now' > 0
    <3>1. now + 1 > 0
      BY <1>1
    <3>2. QED
      BY <2>1, <3>1
  <2>5. QED
    BY <2>1, <2>2, <2>3, <2>4 DEF CatchUpInv
<1>3. CASE PeriodicSignal
  <2>1. /\ due /\ due' = FALSE /\ signal' = Inserted({<<now - 1, now>>})
        /\ UNCHANGED <<occ, now, server, since, policy>>
    BY <1>3 DEF PeriodicSignal, setting
  <2>2. /\ \A s \in Signal : signal[s] # "none" => signal'[s] = signal[s]
        /\ \A s \in Signal : signal'[s] \in {signal[s], "available"}
        /\ \A i \in Interval \cap {<<now - 1, now>>} :
             <<i, "v2">> \in Signal /\ signal'[<<i, "v2">>] # "none"
    BY <2>1, InsertedFacts DEF IInv
  <2>3. Recorded'
    BY <2>1, <2>2 DEF CatchUpInv, Recorded
  <2>4. <<now - 1, now>> \in Interval
    <3>1. now > 0
      BY <2>1 DEF CatchUpInv
    <3>2. now - 1 \in Nat /\ now - 1 < now
      BY <1>1, <3>1
    <3>3. QED
      BY <1>1, <3>2, IntervalBetween
  <2>5. since' >= 0 => CaughtUp(since)'
    <3> SUFFICES ASSUME since >= 0, policy # "skip", NEW k \in (since + 1)..now
                 PROVE  \E s \in Signal :
                          /\ s[1][1] < k /\ k <= s[1][2]
                          /\ signal'[s] # "none" \/ occ'[s[1]].status # "none"
      BY <2>1 DEF CaughtUp
    <3>1. CASE k = now
      <4>1. /\ <<<<now - 1, now>>, "v2">> \in Signal
            /\ signal'[<<<<now - 1, now>>, "v2">>] # "none"
        BY <2>2, <2>4
      <4>2. now - 1 < k /\ k <= now
        BY <1>1, <3>1
      <4>3. QED
        BY <4>1, <4>2
    <3>2. CASE k # now
      BY <2>1, <2>2, <3>2 DEF CatchUpInv, CaughtUp
    <3>3. QED
      BY <3>1, <3>2
  <2>6. QED
    BY <2>1, <2>3, <2>5 DEF CatchUpInv
<1>4. QED
  BY <1>2, <1>3

(* A server that stops, or a catch-up that fails, owes everything again. *)
LEMMA ServerCatchUp ==
  ASSUME IInv, CatchUpInv, ReconcileFails \/ Crash \/ Start
  PROVE  CatchUpInv'
<1>1. CASE ReconcileFails
  <2>1. PICK J : signal' = Inserted(J)
    BY <1>1 DEF ReconcileFails
  <2>2. \A s \in Signal : signal'[s] \in {signal[s], "available"}
    BY <2>1, InsertedFacts DEF IInv
  <2>3. QED
    BY <1>1, <2>2 DEF ReconcileFails, CatchUpInv, Recorded
<1>2. CASE Crash
  <2>1. \A s \in Signal : signal'[s] \in {"none", "available", "snoozed", "running"}
    BY <1>2 DEF Crash, IInv, TypeOK, SignalState
  <2>2. QED
    BY <1>2, <2>1 DEF Crash, CatchUpInv, Recorded
<1>3. CASE Start
  <2>1. "failed" \in Terminal
    BY DEF Terminal
  <2>2. \A i \in Interval : occ[i].status # "none" => occ'[i].status # "none"
    BY <1>3, <2>1, CloseRecorded DEF Start
  <2>3. \A s \in Signal : signal'[s] \in {signal[s], "available"}
    BY <1>3 DEF Start
  <2>4. Recorded'
    BY <2>2, <2>3, SignalInterval DEF CatchUpInv, Recorded
  <2>5. server = "down" /\ UNCHANGED <<due, since>> /\ server' = "starting"
    BY <1>3 DEF Start, clock
  <2>6. QED
    BY <2>4, <2>5 DEF CatchUpInv
<1>4. QED
  BY <1>1, <1>2, <1>3

LEMMA InitCatchUp == Init => CatchUpInv
<1> SUFFICES ASSUME Init PROVE CatchUpInv
  OBVIOUS
<1>1. \A s \in Signal : signal[s] \in {"none", "available"}
  BY DEF Init
<1>2. QED
  BY <1>1 DEF Init, CatchUpInv, Recorded

LEMMA StepCatchUp == IInv /\ CatchUpInv /\ [Next]_vars => CatchUpInv'
<1> SUFFICES ASSUME IInv, CatchUpInv, [Next]_vars PROVE CatchUpInv'
  OBVIOUS
<1>1. ASSUME UNCHANGED <<signal, now, due, server, since, policy>>,
             \A i \in Interval : occ[i].status # "none" => occ'[i].status # "none"
      PROVE  CatchUpInv'
  <2>1. \A s \in Signal : Kept(s) => Kept(s)'
    BY <1>1, SignalInterval DEF Kept
  <2>2. Recorded'
    BY <1>1, SignalInterval DEF CatchUpInv, Recorded
  <2>3. QED
    BY <1>1, <2>1, <2>2, CatchUpKept
<1>2. CASE TickPasses \/ PeriodicSignal
  BY <1>2, ClockCatchUp
<1>3. CASE Reconcile
  BY <1>3, ReconcileCatchUp
<1>4. CASE ReconcileFails \/ Crash \/ Start
  BY <1>4, ServerCatchUp
<1>5. ASSUME NEW s \in Signal,
             SignalStep(s) \/ VariablesUnresolved(s) \/ SignalFails(s)
      PROVE  CatchUpInv'
  BY <1>5, WorkerCatchUp
<1>6. ASSUME NEW r \in Run, FinalizeExecution(r) PROVE CatchUpInv'
  <2>1. PICK status \in Terminal : occ' = TerminalAfter({r}, status)
    BY <1>6 DEF FinalizeExecution
  <2>2. QED
    BY <1>1, <1>6, <2>1, CloseRecorded DEF FinalizeExecution, clock, setting
<1>7. ASSUME NEW i \in Interval, DeadlinePasses(i) PROVE CatchUpInv'
  <2>1. \A j \in Interval : occ'[j].status = occ[j].status
    BY <1>7 DEF DeadlinePasses, IInv, TypeOK, Occurrence
  <2>2. QED
    BY <1>1, <1>7, <2>1 DEF DeadlinePasses, clock, setting
<1>8. CASE DeployProducer \/ OtherRunStarts \/ OtherRunEnds \/ Idle \/ UNCHANGED vars
  BY <1>1, <1>8
     DEF DeployProducer, OtherRunStarts, OtherRunEnds, Idle, vars, clock, setting
<1>9. QED
  BY <1>2, <1>3, <1>4, <1>5, <1>6, <1>7, <1>8 DEF Next

(* From a catch-up that went through on, every tick is due, has a signal   *)
(* or a record, whatever runs, workers and the watermark do.               *)
THEOREM CatchUpCorrect == Spec => []CatchUpInv
BY Invariant, InitCatchUp, StepCatchUp, PTL DEF Spec

(* catchUp: under a policy that catches up no tick beyond the watermark is *)
(* forgotten after a reconciliation that went through.                     *)
THEOREM TicksAreSignalled == Spec => []MissedTicksAreSignalled
<1>1. IInv /\ CatchUpInv => MissedTicksAreSignalled
  <2> SUFFICES ASSUME IInv, CatchUpInv, since >= 0
               PROVE  CaughtUp(IF since < watermark THEN watermark ELSE since)
    BY DEF MissedTicksAreSignalled
  <2>1. since \in Int /\ watermark \in Int /\ now \in Int
    BY ScheduleAssumption DEF IInv, TypeOK, Tick, ScheduleAssumption
  <2>2. ((IF since < watermark THEN watermark ELSE since) + 1)..now \subseteq (since + 1)..now
    BY <2>1
  <2>3. QED
    BY <2>2 DEF CatchUpInv, CaughtUp
<1>2. QED
  BY <1>1, Invariant, CatchUpCorrect, PTL

-----------------------------------------------------------------------------
(* Waits keep their producer up to the admission. *)

LEMMA SignalPair ==
  ASSUME NEW s \in Signal, NEW t \in Signal, s # t, s[1] = t[1]
  PROVE  \/ s[2] = "legacy" /\ t[2] = "v2"
         \/ s[2] = "v2" /\ t[2] = "legacy"
BY DEF Signal

(* What one worker changes are its own columns and its own interval.       *)
LEMMA OneWorkerKept ==
  ASSUME ProducerInv, NEW s \in Signal, signal[s] # "none",
         \A t \in Signal \ {s} :
           signal'[t] = signal[t] /\ seen'[t] = seen[t] /\ plan'[t] = plan[t],
         \A i \in Interval \ {s[1]} : occ'[i] = occ[i],
         signal'[s] = "blocked" => plan'[s] # 0,
         Waits(occ[s[1]])' => occ'[s[1]].frozen # 0,
         signal'[s] \in {"planning", "blocked", "planned"} /\ Waits(occ[s[1]])'
           => seen'[s].frozen = occ'[s[1]].frozen
  PROVE  ProducerInv'
<1>1. OneWorker'
  BY DEF ProducerInv, OneWorker
<1>2. WaitSeen'
  <2> SUFFICES ASSUME NEW t \in Signal, t[1] \notin Legacy,
                      signal'[t] \in {"planning", "blocked", "planned"},
                      Waits(occ[t[1]])'
               PROVE  seen'[t].frozen = occ'[t[1]].frozen
    BY DEF WaitSeen
  <2>1. CASE t = s
    BY <2>1
  <2>2. CASE t # s /\ t[1] = s[1]
    BY <2>2, SignalPair DEF ProducerInv, OneWorker
  <2>3. CASE t # s /\ t[1] # s[1]
    <3>1. /\ occ'[t[1]] = occ[t[1]] /\ signal'[t] = signal[t]
          /\ seen'[t] = seen[t]
      BY <2>3, SignalInterval
    <3>2. QED
      BY <3>1 DEF ProducerInv, WaitSeen, Waits
  <2>4. QED
    BY <2>1, <2>2, <2>3
<1>3. ProducerSelected'
  <2>1. ASSUME NEW i \in Interval, Waits(occ[i])' PROVE occ'[i].frozen # 0
    BY <2>1 DEF ProducerInv, ProducerSelected, Waits
  <2>2. QED
    BY <2>1 DEF ProducerInv, ProducerSelected
<1>4. QED
  BY <1>1, <1>2, <1>3 DEF ProducerInv

(* Steps of the clock, the server and the runs: no worker goes on, no wait *)
(* is entered or evaluated, and a new signal is a due one.                 *)
LEMMA NoWorkerKept ==
  ASSUME ProducerInv,
         \A t \in Signal :
           /\ t[2] = "legacy" /\ signal[t] = "none" => signal'[t] = "none"
           /\ signal'[t] \in {"planning", "blocked", "planned"} =>
                /\ signal'[t] = signal[t] /\ plan'[t] = plan[t]
                /\ seen'[t].frozen = seen[t].frozen,
         \A i \in Interval : Waits(occ[i])' =>
           Waits(occ[i]) /\ occ'[i].frozen = occ[i].frozen
  PROVE  ProducerInv'
<1>1. OneWorker'
  BY DEF ProducerInv, OneWorker
<1>2. WaitSeen'
  BY SignalInterval DEF ProducerInv, WaitSeen
<1>3. ProducerSelected'
  BY DEF ProducerInv, ProducerSelected
<1>4. QED
  BY <1>1, <1>2, <1>3 DEF ProducerInv

LEMMA InitProducer == Init => ProducerInv
<1> SUFFICES ASSUME Init PROVE ProducerInv
  OBVIOUS
<1>1. \A s \in Signal :
        /\ signal[s] \in {"none", "available"}
        /\ s[2] = "legacy" /\ s[1] \notin Legacy => signal[s] = "none"
  BY DEF Init
<1>2. \A i \in Interval : occ[i].status = "none"
  BY InitialRecords DEF Init
<1>3. QED
  BY <1>1, <1>2 DEF ProducerInv, OneWorker, WaitSeen, ProducerSelected, Waits

(* A worker evaluates a wait with the producer it read of it. *)
LEMMA WorkerProducer ==
  ASSUME IInv, ProducerInv, NEW s \in Signal,
         SignalStep(s) \/ VariablesUnresolved(s) \/ SignalFails(s)
  PROVE  ProducerInv'
<1>1. /\ s[1] \in Interval /\ occ[s[1]] \in Occurrence
      /\ occ \in [Interval -> Occurrence] /\ signal \in [Signal -> SignalState]
      /\ seen \in [Signal -> PrerequisiteTerms] /\ plan \in [Signal -> Deployment]
  BY SignalInterval DEF IInv, TypeOK
<1>2. signal[s] # "none"
  BY DEF SignalStep, FetchSignal, EnsureScheduleOccurrence, PlanScheduledRun,
         MarkScheduleOccurrenceWaiting, FailScheduleOccurrencePrerequisites,
         CreateScheduleOccurrenceAttempt, PipelineRunActive, AlreadyAdmitted,
         CompleteSignal, SnoozeEnds, VariablesUnresolved, SignalFails
<1>3. \A t \in Signal \ {s} :
        signal'[t] = signal[t] /\ seen'[t] = seen[t] /\ plan'[t] = plan[t]
  BY <1>1
     DEF SignalStep, FetchSignal, EnsureScheduleOccurrence, PlanScheduledRun,
         MarkScheduleOccurrenceWaiting, FailScheduleOccurrencePrerequisites,
         CreateScheduleOccurrenceAttempt, PipelineRunActive, AlreadyAdmitted,
         CompleteSignal, SnoozeEnds, VariablesUnresolved, SignalFails, Leave,
         SignalTo, worker
<1>4. Waits(occ[s[1]]) => occ[s[1]].frozen # 0
  BY <1>1 DEF ProducerInv, ProducerSelected
<1>5. CASE \/ FetchSignal(s) \/ VariablesUnresolved(s) \/ PipelineRunActive(s)
           \/ AlreadyAdmitted(s) \/ CompleteSignal(s) \/ SignalFails(s)
           \/ SnoozeEnds(s)
  <2>1. occ' = occ
    BY <1>5, WorkerType DEF IInv
  <2>2. signal'[s] \notin {"planning", "blocked", "planned"}
    BY <1>1, <1>5
       DEF FetchSignal, VariablesUnresolved, PipelineRunActive, AlreadyAdmitted,
           CompleteSignal, SignalFails, SnoozeEnds, Leave, SignalTo
  <2>3. QED
    BY <1>2, <1>3, <1>4, <2>1, <2>2, OneWorkerKept DEF Waits
<1>6. CASE PlanScheduledRun(s)
  <2>1. /\ occ' = occ /\ seen' = seen /\ signal[s] = "planning"
        /\ plan'[s] = (IF seen[s].frozen = 0 THEN producer ELSE seen[s].frozen)
        /\ signal'[s] \in {"planned", "blocked"}
        /\ signal'[s] = "blocked" => producer > 0
    BY <1>1, <1>6 DEF PlanScheduledRun, SignalTo
  <2>2. signal'[s] = "blocked" => plan'[s] # 0
    BY <2>1
  <2>3. s[1] \notin Legacy /\ Waits(occ[s[1]]) => seen'[s].frozen = occ[s[1]].frozen
    BY <2>1 DEF ProducerInv, WaitSeen
  <2>4. OneWorker' /\ ProducerSelected'
    BY <1>2, <1>3, <2>1, <2>2 DEF ProducerInv, OneWorker, ProducerSelected, Waits
  <2>5. WaitSeen'
    BY <1>3, <2>1, <2>3 DEF ProducerInv, WaitSeen, Waits
  <2>6. QED
    BY <2>4, <2>5 DEF ProducerInv
<1>7. CASE EnsureScheduleOccurrence(s)
  <2>1. /\ occ' = [occ EXCEPT ![s[1]] = Ensured(occ[s[1]])]
        /\ UNCHANGED plan /\ signal'[s] \in {"none", "planning"}
        /\ signal'[s] = "planning" => seen'[s] = Terms(Ensured(occ[s[1]]))
    BY <1>1, <1>7 DEF EnsureScheduleOccurrence, SignalTo
  <2>2. /\ occ'[s[1]] = Ensured(occ[s[1]])
        /\ \A i \in Interval \ {s[1]} : occ'[i] = occ[i]
    BY <1>1, <2>1
  <2>3. signal'[s] = "planning" => seen'[s].frozen = occ'[s[1]].frozen
    BY <2>1, <2>2 DEF Terms
  <2>4. Waits(Ensured(occ[s[1]])) => Waits(occ[s[1]]) /\ Ensured(occ[s[1]]) = occ[s[1]]
    BY <1>1 DEF Waits, Ensured, Occurrence, Pending, Absent
  <2>5. Waits(occ[s[1]])' => occ'[s[1]].frozen # 0
    BY <1>4, <2>2, <2>4 DEF Waits
  <2>6. QED
    BY <1>2, <1>3, <2>1, <2>2, <2>3, <2>5, OneWorkerKept
<1>8. CASE MarkScheduleOccurrenceWaiting(s)
  <2>1. /\ signal[s] = "blocked" /\ signal'[s] = "snoozed"
        /\ \/ occ' = occ
           \/ occ' = [occ EXCEPT ![s[1]] = WaitOf(s, occ[s[1]])]
    BY <1>1, <1>8 DEF MarkScheduleOccurrenceWaiting, Leave, SignalTo
  <2>2. plan[s] # 0 /\ WaitOf(s, occ[s[1]]).frozen = plan[s]
    BY <1>1, <2>1, WaitFacts DEF ProducerInv, ProducerSelected
  <2>3. /\ Waits(occ[s[1]])' => occ'[s[1]].frozen # 0
        /\ \A i \in Interval \ {s[1]} : occ'[i] = occ[i]
    BY <1>1, <1>4, <2>1, <2>2 DEF Waits
  <2>4. QED
    BY <1>2, <1>3, <2>1, <2>3, OneWorkerKept
<1>9. CASE FailScheduleOccurrencePrerequisites(s)
  <2>1. /\ signal'[s] \in {"none", "snoozed"}
        /\ \/ occ' = occ
           \/ occ' = [occ EXCEPT ![s[1]].status = "failed"]
    BY <1>1, <1>9 DEF FailScheduleOccurrencePrerequisites, Leave, SignalTo
  <2>2. /\ Waits(occ[s[1]])' => occ'[s[1]].frozen # 0
        /\ \A i \in Interval \ {s[1]} : occ'[i] = occ[i]
    BY <1>1, <1>4, <2>1 DEF Waits, Occurrence
  <2>3. QED
    BY <1>2, <1>3, <2>1, <2>2, OneWorkerKept
<1>10. CASE CreateScheduleOccurrenceAttempt(s)
  <2>1. PICK r \in Run : occ' = [occ EXCEPT ![s[1]] = ActiveAs(occ[s[1]], r)]
    BY <1>10 DEF CreateScheduleOccurrenceAttempt
  <2>2. signal'[s] \in {"none", "admitted"}
    BY <1>1, <1>10 DEF CreateScheduleOccurrenceAttempt, Leave, SignalTo
  <2>3. ~Waits(occ[s[1]])' /\ \A i \in Interval \ {s[1]} : occ'[i] = occ[i]
    BY <1>1, <2>1 DEF Waits, ActiveAs
  <2>4. QED
    BY <1>2, <1>3, <2>2, <2>3, OneWorkerKept
<1>11. QED
  BY <1>5, <1>6, <1>7, <1>8, <1>9, <1>10 DEF SignalStep

LEMMA StepProducer == IInv /\ ProducerInv /\ [Next]_vars => ProducerInv'
<1> SUFFICES ASSUME IInv, ProducerInv, [Next]_vars PROVE ProducerInv'
  OBVIOUS
<1>1. ASSUME UNCHANGED <<occ, seen, plan>>, NEW J, signal' = Inserted(J)
      PROVE  ProducerInv'
  <2>1. \A t \in Signal :
          /\ signal'[t] \in {signal[t], "available"}
          /\ t[2] = "legacy" => signal'[t] = signal[t]
    BY <1>1 DEF Inserted
  <2>2. QED
    BY <1>1, <2>1, NoWorkerKept DEF Waits
<1>2. ASSUME UNCHANGED <<signal, seen, plan>>,
             \A i \in Interval : Waits(occ[i])' =>
               Waits(occ[i]) /\ occ'[i].frozen = occ[i].frozen
      PROVE  ProducerInv'
  BY <1>2, NoWorkerKept
<1>3. ASSUME NEW closed \in SUBSET Run, NEW status \in Terminal,
             occ' = TerminalAfter(closed, status), NEW i \in Interval
      PROVE  Waits(occ[i])' => Waits(occ[i]) /\ occ'[i].frozen = occ[i].frozen
  <2>1. occ \in [Interval -> Occurrence] /\ run \in [Run -> AttemptRow]
    BY DEF IInv, TypeOK
  <2>2. Waits(occ[i])' => occ'[i] = occ[i]
    BY <1>3, <2>1, TerminalFacts DEF Waits, Terminal
  <2>3. QED
    BY <2>2 DEF Waits
<1>4. CASE PeriodicSignal \/ Reconcile \/ ReconcileFails
  <2>1. UNCHANGED <<occ, seen, plan>> /\ \E J : signal' = Inserted(J)
    BY <1>4 DEF PeriodicSignal, Reconcile, ReconcileFails, worker
  <2>2. QED
    BY <1>1, <2>1
<1>5. CASE \/ TickPasses \/ DeployProducer \/ OtherRunStarts \/ OtherRunEnds \/ Idle
           \/ UNCHANGED vars
  <2>1. UNCHANGED <<occ, signal, seen, plan>>
    BY <1>5
       DEF TickPasses, DeployProducer, OtherRunStarts, OtherRunEnds, Idle, vars, worker
  <2>2. QED
    BY <1>2, <2>1 DEF Waits
<1>6. ASSUME NEW s \in Signal,
             SignalStep(s) \/ VariablesUnresolved(s) \/ SignalFails(s)
      PROVE  ProducerInv'
  BY <1>6, WorkerProducer
<1>7. ASSUME NEW r \in Run, FinalizeExecution(r) PROVE ProducerInv'
  <2>1. PICK status \in Terminal : occ' = TerminalAfter({r}, status)
    BY <1>7 DEF FinalizeExecution
  <2>2. UNCHANGED <<signal, seen, plan>>
    BY <1>7 DEF FinalizeExecution, worker
  <2>3. QED
    BY <1>2, <1>3, <2>1, <2>2
<1>8. ASSUME NEW j \in Interval, DeadlinePasses(j) PROVE ProducerInv'
  <2>1. UNCHANGED <<signal, plan>>
    BY <1>8 DEF DeadlinePasses
  <2>2. \A t \in Signal : seen'[t].frozen = seen[t].frozen
    BY <1>8 DEF DeadlinePasses, IInv, TypeOK, PrerequisiteTerms
  <2>3. \A i \in Interval : Waits(occ[i])' =>
          Waits(occ[i]) /\ occ'[i].frozen = occ[i].frozen
    BY <1>8 DEF DeadlinePasses, Waits, IInv, TypeOK, Occurrence
  <2>4. QED
    BY <2>1, <2>2, <2>3, NoWorkerKept
<1>9. CASE Crash
  <2>1. \A t \in Signal :
          /\ signal'[t] \notin {"planning", "blocked", "planned"}
          /\ signal[t] = "none" => signal'[t] = "none"
    BY <1>9 DEF Crash, Claimed
  <2>2. occ' = occ
    BY <1>9 DEF Crash
  <2>3. QED
    BY <2>1, <2>2, NoWorkerKept DEF Waits
<1>10. CASE Start
  <2>1. /\ \A t \in Signal : signal'[t] \in {signal[t], "available"}
        /\ \A t \in Signal : signal[t] = "none" => signal'[t] = "none"
        /\ UNCHANGED <<seen, plan>>
    BY <1>10 DEF Start, worker
  <2>2. "failed" \in Terminal
    BY DEF Terminal
  <2>3. \A i \in Interval : Waits(occ[i])' =>
          Waits(occ[i]) /\ occ'[i].frozen = occ[i].frozen
    BY <1>3, <1>10, <2>2 DEF Start
  <2>4. QED
    BY <2>1, <2>3, NoWorkerKept
<1>11. QED
  BY <1>4, <1>5, <1>6, <1>7, <1>8, <1>9, <1>10 DEF Next

(* What a worker read of a wait stays true while it plans and claims. *)
THEOREM ProducerCorrect == Spec => []ProducerInv
BY Invariant, InitProducer, StepProducer, PTL DEF Spec

(* A run that begins in this step is planned against the producer of the   *)
(* wait it ends.                                                           *)
AdmittedAsFrozen(r) ==
  run[r].status = "none" /\ run'[r].status = "active" =>
    LET o == occ[run'[r].interval]
    IN Waits(o) => run'[r].producer = o.frozen

LEMMA AdmissionStep ==
  ASSUME IInv, ProducerInv, [Next]_vars, NEW r \in Run,
         run'[r].interval \notin Legacy
  PROVE  AdmittedAsFrozen(r)
<1>1. ASSUME run'[r].status # "active" \/ run'[r] = run[r] PROVE AdmittedAsFrozen(r)
  BY <1>1 DEF AdmittedAsFrozen
<1>2. CASE \/ TickPasses \/ PeriodicSignal \/ Reconcile \/ ReconcileFails
           \/ DeployProducer \/ OtherRunStarts \/ OtherRunEnds \/ Crash \/ Idle
  BY <1>1, <1>2, EnvironmentType DEF IInv
<1>3. ASSUME NEW s \in Signal, CreateScheduleOccurrenceAttempt(s)
      PROVE  AdmittedAsFrozen(r)
  <2>1. PICK q \in Run :
          run' = [run EXCEPT ![q] = [status |-> "active", interval |-> s[1],
                    attempt |-> occ[s[1]].attempts + 1, producer |-> plan[s]]]
    BY <1>3 DEF CreateScheduleOccurrenceAttempt
  <2>2. run \in [Run -> AttemptRow]
    BY DEF IInv, TypeOK
  <2>3. CASE r # q
    BY <1>1, <2>1, <2>2, <2>3
  <2>4. CASE r = q
    <3>1. run'[r].interval = s[1] /\ run'[r].producer = plan[s]
      BY <2>1, <2>2, <2>4
    <3>2. /\ signal[s] = "planned"
          /\ seen[s].frozen # 0 => seen[s].frozen = plan[s]
      BY <1>3 DEF CreateScheduleOccurrenceAttempt
    <3>3. Waits(occ[s[1]]) => occ[s[1]].frozen # 0 /\ seen[s].frozen = occ[s[1]].frozen
      BY <3>1, <3>2, SignalInterval DEF ProducerInv, WaitSeen, ProducerSelected
    <3>4. QED
      BY <3>1, <3>2, <3>3 DEF AdmittedAsFrozen
  <2>5. QED
    BY <2>3, <2>4
<1>4. ASSUME NEW s \in Signal,
             SignalStep(s) \/ VariablesUnresolved(s) \/ SignalFails(s)
      PROVE  AdmittedAsFrozen(r)
  <2>1. CASE CreateScheduleOccurrenceAttempt(s)
    BY <1>3, <2>1
  <2>2. CASE ~CreateScheduleOccurrenceAttempt(s)
    <3>1. run' = run
      BY <1>4, <2>2
         DEF SignalStep, FetchSignal, EnsureScheduleOccurrence, PlanScheduledRun,
             MarkScheduleOccurrenceWaiting, FailScheduleOccurrencePrerequisites,
             PipelineRunActive, AlreadyAdmitted, CompleteSignal, SnoozeEnds,
             VariablesUnresolved, SignalFails
    <3>2. QED
      BY <1>1, <3>1
  <2>3. QED
    BY <2>1, <2>2
<1>5. ASSUME NEW closed \in SUBSET Run, NEW status \in Terminal,
             run' = Closed(closed, status)
      PROVE  AdmittedAsFrozen(r)
  <2>1. run \in [Run -> AttemptRow]
    BY DEF IInv, TypeOK
  <2>2. run'[r].status = status \/ run'[r] = run[r]
    BY <1>5, <2>1 DEF Closed, AttemptRow
  <2>3. QED
    BY <1>1, <2>2 DEF Terminal
<1>6. ASSUME NEW q \in Run, FinalizeExecution(q) PROVE AdmittedAsFrozen(r)
  BY <1>5, <1>6 DEF FinalizeExecution
<1>7. CASE Start
  <2>1. "failed" \in Terminal
    BY DEF Terminal
  <2>2. QED
    BY <1>5, <1>7, <2>1 DEF Start
<1>8. ASSUME NEW i \in Interval, DeadlinePasses(i) PROVE AdmittedAsFrozen(r)
  BY <1>1, <1>8 DEF DeadlinePasses
<1>9. CASE UNCHANGED vars
  BY <1>1, <1>9 DEF vars
<1>10. QED
  BY <1>2, <1>4, <1>6, <1>7, <1>8, <1>9 DEF Next

(* prepareScheduledRunAdmission: a run that ends a wait is planned against *)
(* the deployment the wait selected first, for every interval that no      *)
(* combined job of an older release demands beside its due signal.         *)
THEOREM AdmissionsKeepProducer ==
  Spec => [][\A r \in Run : run'[r].interval \notin Legacy => AdmittedAsFrozen(r)]_vars
<1>1. IInv /\ ProducerInv /\ [Next]_vars =>
        \A r \in Run : run'[r].interval \notin Legacy => AdmittedAsFrozen(r)
  BY AdmissionStep
<1>2. QED
  BY <1>1, Invariant, ProducerCorrect, PTL DEF Spec

(* The same where no such job is queued: once an upgrade has drained them. *)
THEOREM AdmissionsKeepEveryProducer ==
  ASSUME Legacy = {}
  PROVE  Spec => AdmissionKeepsProducer
<1>1. ASSUME IInv, ProducerInv, [Next]_vars
      PROVE  \A r \in Run : run[r].status = "none" /\ run'[r].status = "active" =>
               LET o == occ[run'[r].interval]
               IN Waits(o) => run'[r].producer = o.frozen
  BY <1>1, AdmissionStep DEF AdmittedAsFrozen
<1>2. QED
  BY <1>1, Invariant, ProducerCorrect, PTL DEF Spec, AdmissionKeepsProducer
-----------------------------------------------------------------------------
(* Pending occurrences and their signals. *)

(* Signals that were alive stay alive, and nothing becomes pending. *)
LEMMA AttendedFrame ==
  ASSUME Attended,
         \A s \in Signal : signal[s] \notin {"none", "admitted"} =>
                             signal'[s] \notin {"none", "admitted"},
         \A i \in Interval : occ'[i].status = "pending" => occ[i].status = "pending"
  PROVE  Attended'
BY DEF Attended

(* A worker may end its own signal when the interval is not left pending. *)
LEMMA AttendedByWorker ==
  ASSUME IInv, Attended, NEW s \in Signal, NEW x,
         SignalTo(s, x),
         \A i \in Interval \ {s[1]} : occ'[i] = occ[i],
         occ'[s[1]].status = "pending" => x \notin {"none", "admitted"}
  PROVE  Attended'
<1> SUFFICES ASSUME NEW i \in Interval, occ'[i].status = "pending"
             PROVE  \E t \in Signal : t[1] = i /\ signal'[t] \notin {"none", "admitted"}
  BY DEF Attended
<1>1. signal' = [signal EXCEPT ![s] = x] /\ DOMAIN signal = Signal
  BY DEF SignalTo, IInv, TypeOK
<1>2. CASE i = s[1]
  BY <1>1, <1>2
<1>3. CASE i # s[1]
  <2>1. PICK t \in Signal : t[1] = i /\ signal[t] \notin {"none", "admitted"}
    BY <1>3 DEF Attended
  <2>2. signal'[t] = signal[t]
    BY <1>1, <1>3, <2>1
  <2>3. QED
    BY <2>1, <2>2
<1>4. QED
  BY <1>2, <1>3

LEMMA WorkerAttended ==
  ASSUME IInv, Attended, NEW s \in Signal, SignalStep(s) \/ SignalFails(s)
  PROVE  Attended'
<1>1. s[1] \in Interval /\ occ \in [Interval -> Occurrence] /\ plan \in [Signal -> Deployment]
  BY SignalInterval DEF IInv, TypeOK
<1>2. CASE FetchSignal(s)
  BY <1>2, AttendedByWorker DEF FetchSignal
<1>3. CASE EnsureScheduleOccurrence(s)
  <2> DEFINE o == Ensured(occ[s[1]])
  <2>1. /\ \A i \in Interval \ {s[1]} : occ'[i] = occ[i]
        /\ occ'[s[1]] = o
    BY <1>1, <1>3 DEF EnsureScheduleOccurrence
  <2>2. CASE SignalTo(s, "none") /\ o.status \in {"active", "success"}
    BY <2>1, <2>2, AttendedByWorker
  <2>3. CASE SignalTo(s, "planning")
    BY <2>1, <2>3, AttendedByWorker
  <2>4. QED
    BY <1>3, <2>2, <2>3 DEF EnsureScheduleOccurrence
<1>4. CASE PlanScheduledRun(s)
  BY <1>4, AttendedByWorker DEF PlanScheduledRun
<1>5. CASE MarkScheduleOccurrenceWaiting(s)
  <2>1. \A i \in Interval \ {s[1]} : occ'[i] = occ[i]
    BY <1>1, <1>5 DEF MarkScheduleOccurrenceWaiting
  <2>2. QED
    BY <1>5, <2>1, AttendedByWorker DEF MarkScheduleOccurrenceWaiting, Leave
<1>6. CASE FailScheduleOccurrencePrerequisites(s)
  <2>1. \A i \in Interval \ {s[1]} : occ'[i] = occ[i]
    BY <1>1, <1>6 DEF FailScheduleOccurrencePrerequisites
  <2>2. CASE SignalTo(s, "none") /\ occ' = [occ EXCEPT ![s[1]].status = "failed"]
    <3>1. occ'[s[1]].status = "failed"
      BY <1>1, <2>2 DEF Occurrence
    <3>2. QED
      BY <2>1, <2>2, <3>1, AttendedByWorker
  <2>3. CASE SignalTo(s, "snoozed")
    BY <2>1, <2>3, AttendedByWorker
  <2>4. QED
    BY <1>6, <2>2, <2>3 DEF FailScheduleOccurrencePrerequisites, Leave
<1>7. CASE CreateScheduleOccurrenceAttempt(s)
  <2>1. /\ \A i \in Interval \ {s[1]} : occ'[i] = occ[i]
        /\ occ'[s[1]].status = "active"
    BY <1>1, <1>7 DEF CreateScheduleOccurrenceAttempt, ActiveAs
  <2>2. SignalTo(s, IF s[2] = "v2" THEN "admitted" ELSE "none")
    BY <1>7 DEF CreateScheduleOccurrenceAttempt, Leave
  <2>3. QED
    BY <2>1, <2>2, AttendedByWorker
<1>8. CASE PipelineRunActive(s) \/ SignalFails(s) \/ SnoozeEnds(s)
  BY <1>8, AttendedByWorker DEF PipelineRunActive, SignalFails, SnoozeEnds, Leave
<1>9. CASE AlreadyAdmitted(s)
  BY <1>9, AttendedByWorker DEF AlreadyAdmitted, Leave, Claimable
<1>10. CASE CompleteSignal(s)
  <2>1. signal[s] = "admitted" /\ \A t \in Signal \ {s} : signal'[t] = signal[t]
    BY <1>10 DEF CompleteSignal, SignalTo, IInv, TypeOK
  <2>2. QED
    BY <1>10, <2>1, AttendedFrame DEF CompleteSignal
<1>11. QED
  BY <1>2, <1>3, <1>4, <1>5, <1>6, <1>7, <1>8, <1>9, <1>10 DEF SignalStep

LEMMA StepAttended ==
  ASSUME Unresolvable = FALSE, IInv, Attended, [Next]_vars
  PROVE  Attended'
<1>1. CASE PeriodicSignal \/ Reconcile \/ ReconcileFails
  <2>1. PICK J : signal' = Inserted(J)
    BY <1>1 DEF PeriodicSignal, Reconcile, ReconcileFails
  <2>2. \A s \in Signal : signal'[s] \in {signal[s], "available"}
    BY <2>1, InsertedFacts DEF IInv
  <2>3. UNCHANGED occ
    BY <1>1 DEF PeriodicSignal, Reconcile, ReconcileFails
  <2>4. QED
    BY <2>2, <2>3, AttendedFrame
<1>2. ASSUME NEW s \in Signal, SignalStep(s) \/ VariablesUnresolved(s) \/ SignalFails(s)
      PROVE  Attended'
  BY <1>2, WorkerAttended DEF VariablesUnresolved
<1>3. ASSUME NEW closed \in SUBSET Run, NEW status \in Terminal,
             occ' = TerminalAfter(closed, status),
             \A s \in Signal : signal'[s] \in {signal[s], "available"}
      PROVE  Attended'
  <2>1. occ \in [Interval -> Occurrence] /\ run \in [Run -> AttemptRow] /\ "pending" \notin Terminal
    BY DEF IInv, TypeOK, Terminal
  <2>2. \A i \in Interval : occ'[i].status = "pending" => occ[i].status = "pending"
    BY <1>3, <2>1 DEF TerminalAfter, Occurrence
  <2>3. QED
    BY <1>3, <2>2, AttendedFrame
<1>4. ASSUME NEW r \in Run, FinalizeExecution(r) PROVE Attended'
  BY <1>3, <1>4 DEF FinalizeExecution
<1>5. CASE Start
  <2>1. "failed" \in Terminal
    BY DEF Terminal
  <2>2. \A s \in Signal : signal'[s] \in {signal[s], "available"}
    BY <1>5 DEF Start
  <2>3. PICK closed \in SUBSET Run : occ' = TerminalAfter(closed, "failed")
    BY <1>5 DEF Start
  <2>4. QED
    BY <1>3, <2>1, <2>2, <2>3
<1>6. CASE Crash
  <2>1. \A s \in Signal : signal'[s] \in {signal[s], "running"}
    BY <1>6 DEF Crash
  <2>2. QED
    BY <1>6, <2>1, AttendedFrame DEF Crash
<1>7. ASSUME NEW i \in Interval, DeadlinePasses(i) PROVE Attended'
  <2>1. \A j \in Interval : occ'[j].status = occ[j].status
    BY <1>7 DEF DeadlinePasses, IInv, TypeOK, Occurrence
  <2>2. QED
    BY <1>7, <2>1, AttendedFrame DEF DeadlinePasses
<1>8. CASE \/ TickPasses \/ DeployProducer \/ OtherRunStarts \/ OtherRunEnds \/ Idle
           \/ UNCHANGED vars
  BY <1>8, AttendedFrame
     DEF TickPasses, DeployProducer, OtherRunStarts, OtherRunEnds, Idle, vars
<1>9. QED
  BY <1>1, <1>2, <1>4, <1>5, <1>6, <1>7, <1>8 DEF Next

(* DeferredScheduleOccurrence: what the schedule shows as deferred is      *)
(* being worked on, or a signal will come back to it, whatever fails and   *)
(* whenever the server dies.  Signals whose variables do not resolve are   *)
(* cancelled and are the exception.                                        *)
THEOREM DeferredAreSignalled ==
  ASSUME Unresolvable = FALSE
  PROVE  Spec => []DeferredIsSignalled
<1>1. Init => Attended
  BY InitialRecords DEF Init, Attended
<1>2. IInv /\ Attended /\ [Next]_vars => Attended'
  BY StepAttended
<1>3. Attended => DeferredIsSignalled
  BY DEF Attended, DeferredIsSignalled
<1>4. QED
  BY <1>1, <1>2, <1>3, Invariant, PTL DEF Spec

-----------------------------------------------------------------------------
(* Attempts. *)

LEMMA AttemptsFrame ==
  ASSUME AttemptsCounted,
         \A i \in Interval : /\ occ'[i].attempts = occ[i].attempts
                             /\ occ'[i].status = "none" => occ[i].status = "none",
         \A r \in Run : /\ run'[r].interval = run[r].interval
                        /\ run'[r].attempt = run[r].attempt
                        /\ run'[r].status = "none" <=> run[r].status = "none"
  PROVE  AttemptsCounted'
<1> SUFFICES ASSUME NEW i \in Interval
             PROVE  /\ IsFiniteSet(Attempts(i)') /\ Cardinality(Attempts(i)') = occ'[i].attempts
                    /\ {run'[r].attempt : r \in Attempts(i)'} = 1..occ'[i].attempts
                    /\ occ'[i].status = "none" => occ'[i].attempts = 0
  BY DEF AttemptsCounted
<1>1. Attempts(i)' = Attempts(i) /\ Attempts(i) \subseteq Run
  BY DEF Attempts
<1>2. {run'[r].attempt : r \in Attempts(i)'} = {run[r].attempt : r \in Attempts(i)}
  BY <1>1
<1>3. QED
  BY <1>1, <1>2 DEF AttemptsCounted

LEMMA AttemptAdded ==
  ASSUME IInv, AttemptsCounted, NEW s \in Signal, CreateScheduleOccurrenceAttempt(s)
  PROVE  AttemptsCounted'
<1>1. /\ s[1] \in Interval /\ occ \in [Interval -> Occurrence] /\ run \in [Run -> AttemptRow]
  BY SignalInterval DEF IInv, TypeOK
<1> DEFINE j == s[1]
           n == occ[j].attempts
<1>2. PICK r \in Run :
        /\ run[r].status = "none"
        /\ run' = [run EXCEPT ![r] = [status |-> "active", interval |-> j,
                                      attempt |-> n + 1, producer |-> plan[s]]]
        /\ occ' = [occ EXCEPT ![j] = ActiveAs(occ[j], r)]
  BY DEF CreateScheduleOccurrenceAttempt
<1>3. /\ \A o \in Run \ {r} : run'[o] = run[o]
      /\ run'[r].status = "active" /\ run'[r].interval = j /\ run'[r].attempt = n + 1
      /\ \A i \in Interval \ {j} : occ'[i] = occ[i]
      /\ occ'[j].attempts = n + 1 /\ occ'[j].status = "active"
      /\ n \in Nat
  BY <1>1, <1>2 DEF ActiveAs, Occurrence
<1> HIDE DEF n, j
<1> SUFFICES ASSUME NEW i \in Interval
             PROVE  /\ IsFiniteSet(Attempts(i)') /\ Cardinality(Attempts(i)') = occ'[i].attempts
                    /\ {run'[o].attempt : o \in Attempts(i)'} = 1..occ'[i].attempts
                    /\ occ'[i].status = "none" => occ'[i].attempts = 0
  BY DEF AttemptsCounted
<1>4. r \notin Attempts(i) /\ Attempts(i) \subseteq Run
  BY <1>2 DEF Attempts
<1>5. /\ IsFiniteSet(Attempts(i)) /\ Cardinality(Attempts(i)) = occ[i].attempts
      /\ {run[o].attempt : o \in Attempts(i)} = 1..occ[i].attempts
      /\ occ[i].status = "none" => occ[i].attempts = 0
  BY DEF AttemptsCounted
<1>6. CASE i # j
  <2>1. Attempts(i)' = Attempts(i)
    BY <1>2, <1>3, <1>6 DEF Attempts
  <2>2. {run'[o].attempt : o \in Attempts(i)'} = {run[o].attempt : o \in Attempts(i)}
    BY <1>3, <1>4, <2>1
  <2>3. QED
    BY <1>3, <1>5, <1>6, <2>1, <2>2
<1>7. CASE i = j
  <2>1. Attempts(i)' = Attempts(i) \cup {r}
    BY <1>2, <1>3, <1>7 DEF Attempts
  <2>2. /\ IsFiniteSet(Attempts(i) \cup {r})
        /\ Cardinality(Attempts(i) \cup {r}) = Cardinality(Attempts(i)) + 1
    BY <1>4, <1>5, FS_AddElement
  <2>3. {run'[o].attempt : o \in Attempts(i)'} = {run[o].attempt : o \in Attempts(i)} \cup {n + 1}
    BY <1>3, <1>4, <2>1
  <2>4. 1..(n + 1) = (1..n) \cup {n + 1}
    BY <1>3
  <2>5. occ[i].attempts = n
    BY <1>7 DEF n, j
  <2>6. QED
    BY <1>3, <1>5, <1>7, <2>1, <2>2, <2>3, <2>4, <2>5
<1>8. QED
  BY <1>6, <1>7

LEMMA WorkerAttempts ==
  ASSUME IInv, AttemptsCounted, NEW s \in Signal,
         SignalStep(s) \/ VariablesUnresolved(s) \/ SignalFails(s)
  PROVE  AttemptsCounted'
<1>1. s[1] \in Interval /\ occ \in [Interval -> Occurrence] /\ plan \in [Signal -> Deployment]
  BY SignalInterval DEF IInv, TypeOK
<1>2. CASE UNCHANGED <<occ, run>>
  BY <1>2, AttemptsFrame
<1>3. ASSUME NEW o \in Occurrence, occ' = [occ EXCEPT ![s[1]] = o], UNCHANGED run,
             o.attempts = occ[s[1]].attempts, o.status = "none" => occ[s[1]].status = "none"
      PROVE  AttemptsCounted'
  BY <1>1, <1>3, AttemptsFrame
<1>4. CASE EnsureScheduleOccurrence(s)
  <2> DEFINE old == occ[s[1]]
  <2>1. old \in Occurrence /\ Ensured(old) \in Occurrence
    BY <1>1, EnsuredFacts
  <2>2. old.status = "none" => old.attempts = 0
    BY <1>1 DEF AttemptsCounted
  <2>3. Ensured(old).attempts = old.attempts /\ Ensured(old).status # "none"
    BY <2>1, <2>2 DEF Ensured, Pending, Absent, Occurrence
  <2>4. QED
    BY <1>3, <1>4, <2>1, <2>3 DEF EnsureScheduleOccurrence
<1>5. CASE MarkScheduleOccurrenceWaiting(s)
  <2>1. WaitOf(s, occ[s[1]]).attempts = occ[s[1]].attempts
    BY <1>1 DEF WaitOf, Occurrence
  <2>2. QED
    BY <1>1, <1>2, <1>3, <1>5, <2>1, WaitFacts DEF MarkScheduleOccurrenceWaiting
<1>6. CASE FailScheduleOccurrencePrerequisites(s)
  <2> DEFINE o == [occ[s[1]] EXCEPT !.status = "failed"]
  <2>1. o \in Occurrence /\ o.attempts = occ[s[1]].attempts /\ o.status = "failed"
    BY <1>1 DEF Occurrence, Terminal
  <2>2. UNCHANGED run /\ (UNCHANGED occ \/ occ' = [occ EXCEPT ![s[1]] = o])
    BY <1>1, <1>6 DEF FailScheduleOccurrencePrerequisites
  <2> HIDE DEF o
  <2>3. QED
    BY <1>2, <1>3, <2>1, <2>2
<1>7. CASE CreateScheduleOccurrenceAttempt(s)
  BY <1>7, AttemptAdded
<1>8. CASE \/ FetchSignal(s) \/ PlanScheduledRun(s) \/ PipelineRunActive(s) \/ AlreadyAdmitted(s)
           \/ CompleteSignal(s) \/ SnoozeEnds(s) \/ VariablesUnresolved(s) \/ SignalFails(s)
  BY <1>2, <1>8 DEF FetchSignal, PlanScheduledRun, PipelineRunActive, AlreadyAdmitted,
                    CompleteSignal, SnoozeEnds, VariablesUnresolved, SignalFails
<1>9. QED
  BY <1>4, <1>5, <1>6, <1>7, <1>8 DEF SignalStep

LEMMA StepAttempts ==
  ASSUME IInv, AttemptsCounted, [Next]_vars
  PROVE  AttemptsCounted'
<1>1. ASSUME NEW closed \in SUBSET {r \in Run : run[r].status = "active"}, NEW status \in Terminal,
             occ' = TerminalAfter(closed, status), run' = Closed(closed, status)
      PROVE  AttemptsCounted'
  <2>1. occ \in [Interval -> Occurrence] /\ run \in [Run -> AttemptRow]
        /\ "none" \notin Terminal /\ status # "none"
    BY DEF IInv, TypeOK, Terminal
  <2>2. ASSUME NEW i \in Interval
        PROVE  /\ occ'[i].attempts = occ[i].attempts
               /\ occ'[i].status = "none" => occ[i].status = "none"
    BY <1>1, <2>1 DEF TerminalAfter, Occurrence
  <2>3. ASSUME NEW r \in Run
        PROVE  /\ run'[r].interval = run[r].interval
               /\ run'[r].attempt = run[r].attempt
               /\ run'[r].status = "none" <=> run[r].status = "none"
    BY <1>1, <2>1 DEF Closed, AttemptRow
  <2>4. QED
    BY <2>2, <2>3, AttemptsFrame
<1>2. ASSUME NEW r \in Run, FinalizeExecution(r) PROVE AttemptsCounted'
  BY <1>1, <1>2 DEF FinalizeExecution
<1>3. CASE Start
  <2>1. "failed" \in Terminal
    BY DEF Terminal
  <2>2. QED
    BY <1>1, <1>3, <2>1 DEF Start
<1>4. ASSUME NEW i \in Interval, DeadlinePasses(i) PROVE AttemptsCounted'
  <2>1. \A j \in Interval : occ'[j].attempts = occ[j].attempts /\ occ'[j].status = occ[j].status
    BY <1>4 DEF DeadlinePasses, IInv, TypeOK, Occurrence
  <2>2. QED
    BY <1>4, <2>1, AttemptsFrame DEF DeadlinePasses
<1>5. CASE UNCHANGED <<occ, run>>
  BY <1>5, AttemptsFrame
<1>6. CASE \/ TickPasses \/ PeriodicSignal \/ Reconcile \/ ReconcileFails \/ DeployProducer
           \/ OtherRunStarts \/ OtherRunEnds \/ Crash \/ Idle \/ UNCHANGED vars
  BY <1>5, <1>6 DEF TickPasses, PeriodicSignal, Reconcile, ReconcileFails, DeployProducer,
                    OtherRunStarts, OtherRunEnds, Crash, Idle, vars
<1>7. QED
  BY <1>2, <1>3, <1>4, <1>6, WorkerAttempts DEF Next

(* schedule_occurrence_attempts: however often an interval is demanded,    *)
(* rolled back, retried and interrupted, its attempts are numbered from 1, *)
(* each number once.                                                       *)
THEOREM AttemptsNumbered == Spec => []AttemptsAreNumbered
<1>1. Init => AttemptsCounted
  <2> SUFFICES ASSUME Init, NEW i \in Interval
               PROVE  /\ IsFiniteSet(Attempts(i)) /\ Cardinality(Attempts(i)) = occ[i].attempts
                      /\ {run[r].attempt : r \in Attempts(i)} = 1..occ[i].attempts
                      /\ occ[i].status = "none" => occ[i].attempts = 0
    BY DEF AttemptsCounted
  <2>1. Attempts(i) = {} /\ occ[i].attempts = 0
    BY DEF Init, Attempts, Unused, Absent
  <2>2. 1..0 = {}
    OBVIOUS
  <2>3. QED
    BY <2>1, <2>2, FS_EmptySet
<1>2. IInv /\ AttemptsCounted /\ [Next]_vars => AttemptsCounted'
  BY StepAttempts
<1>3. AttemptsCounted => AttemptsAreNumbered
  BY DEF AttemptsCounted, AttemptsAreNumbered
<1>4. QED
  BY <1>1, <1>2, <1>3, Invariant, PTL DEF Spec
=============================================================================
