------------------------ MODULE ScheduleOccurrence -------------------------
(***************************************************************************)
(* The intervals one schedule owes: scheduler/schedule_occurrence.go with  *)
(* the due signals, the catch-up and the watermark of service.go and       *)
(* store.go.  A cron tick or a catch-up inserts a due signal, a River job  *)
(* that is unique by its interval.  Its worker records the interval as an  *)
(* occurrence, plans it and either admits a run, or leaves the occurrence  *)
(* waiting for other pipelines until a deadline, or snoozes.  Runs end at  *)
(* any time; the server crashes and starts again.                          *)
(*                                                                         *)
(* Time is counted in cron ticks: the interval <<a, b>> is due at tick b.  *)
(* How runs share a pipeline is RunLedger's subject: here a run that is    *)
(* active keeps every other from being admitted.                           *)
(***************************************************************************)
EXTENDS Integers, FiniteSets

CONSTANTS Run,            \* identities of runs of this schedule
          NoRun,          \* current_run_id IS NULL
          FirstTick,      \* the last tick before the model begins
          MaxTick,        \* bound: the last tick
          Policies,       \* catch-up policies to choose from
          BackfillLimit,  \* intervals one backfill inserts at most; 100
          Legacy,         \* intervals due before an upgrade, whose combined
                          \* jobs may still be queued
          Producers,      \* number of producer deployments; 0: no producer
          Unresolvable,   \* may the schedule's variables fail to resolve
          MaxFaults,      \* bound: failing writes, plans and enqueues
          MaxCrashes,     \* bound: crashes
          MaxOthers,      \* bound: runs outside the schedule
          MaxEdits        \* bound: reconciliations of a running server

Tick == 0..MaxTick
Interval == {i \in Tick \X Tick : i[1] < i[2]}
Signal == Interval \X {"v2", "legacy"}
Deployment == 0..Producers      \* 0 stands for none

ASSUME ScheduleAssumption ==
  /\ NoRun \notin Run
  /\ FirstTick \in Nat /\ MaxTick \in Nat /\ FirstTick <= MaxTick
  /\ Policies \subseteq {"skip", "run_once", "backfill"}
  /\ BackfillLimit \in Nat
  /\ Legacy \subseteq {i \in Interval : i[2] <= FirstTick}
  /\ Producers \in Nat
  /\ Unresolvable \in BOOLEAN

VARIABLES
  occ,        \* schedule_occurrences, by interval
  run,        \* pipeline_runs and schedule_occurrence_attempts
  watermark,  \* schedule_watermarks.up_to; -1: no row
  signal,     \* the due signals: state of the job, phase of its worker
  seen,       \* the prerequisite columns a worker has read
  plan,       \* the producer deployment its plan selected
  now, due,   \* the last tick; has it fired without being enqueued
  server, since,  \* the server; the tick since which each has its signal;
                  \* -1: the last catch-up did not go through
  policy, producer,   \* the catch-up policy, the producer's deployment
  other,      \* is another run of the pipeline active
  count       \* what the bounds bound

worker == <<seen, plan>>
clock == <<now, due>>
setting == <<policy, producer>>
vars == <<occ, run, watermark, signal, worker, clock, server, since,
          setting, other, count>>

Terminal == {"success", "failed", "cancelled"}
Claimed == {"fetched", "planning", "blocked", "planned", "admitted"}

Absent == [status |-> "none", current |-> NoRun, attempts |-> 0,
           frozen |-> 0, deadline |-> "none"]
Pending == [Absent EXCEPT !.status = "pending"]
NoPlan == [frozen |-> 0, deadline |-> "none"]
Unused == [status |-> "none", interval |-> <<0, 0>>, attempt |-> 0, producer |-> 0]

Init ==
  /\ occ = [i \in Interval |-> Absent]
  /\ run = [r \in Run |-> Unused]
  /\ watermark \in (-1)..FirstTick
  /\ \E queued \in SUBSET Legacy :
       signal = [s \in Signal |-> IF s[2] = "legacy" /\ s[1] \in queued
                                  THEN "available" ELSE "none"]
  /\ seen = [s \in Signal |-> NoPlan]
  /\ plan = [s \in Signal |-> 0]
  /\ now = FirstTick /\ due = FALSE
  /\ server = "down" /\ since = -1
  /\ policy \in Policies
  /\ producer = (IF Producers = 0 THEN 0 ELSE 1)
  /\ other = FALSE
  /\ count = [faults |-> 0, crashes |-> 0, others |-> 0, edits |-> 0]

SignalTo(s, state) == signal' = [signal EXCEPT ![s] = state]
(* What the worker has read and planned is gone with its call. *)
Leave(s, state) ==
  /\ SignalTo(s, state)
  /\ seen' = [seen EXCEPT ![s] = NoPlan]
  /\ plan' = [plan EXCEPT ![s] = 0]

Counted(what) == count' = [count EXCEPT ![what] = @ + 1]
Fault == count.faults < MaxFaults /\ Counted("faults")

-----------------------------------------------------------------------------
(* Ticks and catch-up. *)

(* River suppresses an insertion while the interval has a live signal.     *)
Inserted(intervals) ==
  [s \in Signal |-> IF s[2] = "v2" /\ s[1] \in intervals /\ signal[s] = "none"
                    THEN "available" ELSE signal[s]]

(* The enqueuer is faster than the schedule: no tick comes while one is    *)
(* due.  A server that is down misses the tick.                            *)
TickPasses ==
  /\ now < MaxTick /\ ~due
  /\ now' = now + 1
  /\ due' = (server = "up")
  /\ UNCHANGED <<occ, run, watermark, signal, worker, server, since,
                 setting, other, count>>

PeriodicSignal ==
  /\ due
  /\ signal' = Inserted({<<now - 1, now>>})
  /\ due' = FALSE
  /\ UNCHANGED <<occ, run, watermark, worker, now, server, since, setting,
                 other, count>>

(* Mutant: only the latest missed interval. *)
MissedLast ==
  IF watermark < 0 \/ watermark >= now \/ policy = "skip" THEN {}
  ELSE {<<now - 1, now>>}

(* The intervals the catch-up policy makes of what the watermark misses.   *)
Missed ==
  IF watermark < 0 \/ watermark >= now \/ policy = "skip" THEN {}
  ELSE IF policy = "run_once" THEN {<<watermark, now>>}
  ELSE {i \in Interval : /\ watermark <= i[1] /\ i[2] = i[1] + 1 /\ i[2] <= now
                         /\ i[2] <= watermark + BackfillLimit}

(* A backfill stops at its limit; what is left waits for another one.      *)
WithinLimit == policy = "backfill" => now <= watermark + BackfillLimit

(* At startup and whenever a schedule is edited; it registers the periodic *)
(* jobs anew.  The insertions are one by one, the failing one is the last. *)
Reconcile ==
  /\ \/ server = "starting" /\ count' = count
     \/ server = "up" /\ count.edits < MaxEdits /\ Counted("edits")
  /\ server' = "up" /\ due' = FALSE
  /\ signal' = Inserted(Missed)
  /\ watermark' = (IF watermark < 0 \/ (policy = "skip" /\ watermark < now)
                   THEN now ELSE watermark)
  /\ since' = (IF watermark < 0 THEN now ELSE IF WithinLimit THEN watermark ELSE -1)
  /\ UNCHANGED <<occ, run, worker, now, setting, other>>

ReconcileFails ==
  /\ server \in {"starting", "up"} /\ Fault
  /\ server' = "up" /\ due' = FALSE
  /\ \E k \in (-1)..(now - 1) : signal' = Inserted({i \in Missed : i[2] <= k})
  /\ since' = -1
  /\ UNCHANGED <<occ, run, watermark, worker, now, setting, other>>

-----------------------------------------------------------------------------
(* The worker of a due signal. *)

FetchSignal(s) ==
  /\ server # "down" /\ signal[s] = "available"
  /\ SignalTo(s, "fetched")
  /\ UNCHANGED <<occ, run, watermark, worker, clock, server, since,
                 setting, other, count>>

(* Mutant: every recorded occurrence is retried. *)
EnsuredAlways(o) ==
  IF o.status = "none" THEN Pending
  ELSE [o EXCEPT !.status = "pending", !.frozen = 0, !.deadline = "none"]

(* Mutant: a retry begins a new record. *)
EnsuredAnew(o) ==
  IF o.status \in {"none", "failed", "cancelled"} THEN Pending ELSE o

(* A failed or cancelled occurrence becomes pending again; what its last   *)
(* attempt was stays in current_run_id and attempt_count.                  *)
Ensured(o) ==
  IF o.status = "none" THEN Pending
  ELSE IF o.status \in {"failed", "cancelled"}
       THEN [o EXCEPT !.status = "pending", !.frozen = 0, !.deadline = "none"]
       ELSE o

(* Mutant: the frozen deployment is not handed to the planner. *)
TermsUnpinned(o) == [frozen |-> 0, deadline |-> o.deadline]

Terms(o) == [frozen |-> o.frozen, deadline |-> o.deadline]

EnsureScheduleOccurrence(s) ==
  /\ signal[s] = "fetched"
  /\ LET o == Ensured(occ[s[1]])
     IN /\ occ' = [occ EXCEPT ![s[1]] = o]
        /\ \/ /\ o.status \in {"active", "success"}
              /\ SignalTo(s, "none")
              /\ UNCHANGED seen
           \/ /\ o.status \notin {"active", "success"}
              /\ SignalTo(s, "planning")
              /\ seen' = [seen EXCEPT ![s] = Terms(o)]
  /\ UNCHANGED <<run, watermark, plan, clock, server, since, setting,
                 other, count>>

(* An invalid signal is cancelled; the occurrence is left as it is. *)
VariablesUnresolved(s) ==
  /\ Unresolvable /\ signal[s] = "planning"
  /\ Leave(s, "none")
  /\ UNCHANGED <<occ, run, watermark, clock, server, since,
                 setting, other, count>>

(* The planner is external to the scheduler: a deployment that was frozen  *)
(* is planned again, else the one deployed at the time.  Only a pipeline   *)
(* with producers can be blocked on one.  A plan blocked otherwise is      *)
(* admitted too, and its run fails.                                        *)
PlanScheduledRun(s) ==
  /\ signal[s] = "planning"
  /\ plan' = [plan EXCEPT ![s] = IF seen[s].frozen = 0 THEN producer ELSE seen[s].frozen]
  /\ \/ SignalTo(s, "planned")
     \/ producer > 0 /\ SignalTo(s, "blocked")
  /\ UNCHANGED <<occ, run, watermark, seen, clock, server, since, setting,
                 other, count>>

Waits(o) == o.status = "pending" /\ o.deadline # "none"

MayWait(s, o) ==
  /\ o.status = "pending"
  /\ Waits(o) => o.frozen = plan[s]
  /\ o.current = NoRun

(* Mutant: every evaluation begins the twelve hours again. *)
WaitAnew(s, o) == [o EXCEPT !.frozen = plan[s], !.deadline = "ahead"]

(* Mutant: the status that is shown is stored. *)
WaitShown(s, o) ==
  [o EXCEPT !.status = "waiting_prerequisites", !.frozen = plan[s], !.deadline = "ahead"]

WaitOf(s, o) ==
  [o EXCEPT !.frozen = plan[s],
            !.deadline = IF Waits(o) THEN o.deadline ELSE "ahead"]

(* A wait that may not be entered is an error, and the signal snoozes in   *)
(* either case.                                                            *)
MarkScheduleOccurrenceWaiting(s) ==
  /\ signal[s] = "blocked" /\ seen[s].deadline # "passed"
  /\ LET o == occ[s[1]]
     IN \/ MayWait(s, o) /\ occ' = [occ EXCEPT ![s[1]] = WaitOf(s, o)]
        \/ ~MayWait(s, o) /\ UNCHANGED occ
  /\ Leave(s, "snoozed")
  /\ UNCHANGED <<run, watermark, clock, server, since, setting,
                 other, count>>

FailScheduleOccurrencePrerequisites(s) ==
  /\ signal[s] = "blocked" /\ seen[s].deadline = "passed"
  /\ LET o == occ[s[1]]
     IN \/ /\ Waits(o) /\ o.current = NoRun
           /\ occ' = [occ EXCEPT ![s[1]].status = "failed"]
           /\ Leave(s, "none")
        \/ /\ ~(Waits(o) /\ o.current = NoRun)
           /\ UNCHANGED occ
           /\ Leave(s, "snoozed")
  /\ UNCHANGED <<run, watermark, clock, server, since, setting,
                 other, count>>

Claimable(o) == o.status \in {"pending", "failed", "cancelled"}

SlotTaken == other \/ \E r \in Run : run[r].status = "active"

ActiveAs(o, r) ==
  [status |-> "active", current |-> r, attempts |-> o.attempts + 1,
   frozen |-> 0, deadline |-> "none"]

(* One transaction claims the occurrence, admits the run into its slot,    *)
(* numbers the attempt and, for a v2 signal, enqueues the job of the run.  *)
(* A combined job goes on as the worker of its run.                        *)
CreateScheduleOccurrenceAttempt(s) ==
  /\ signal[s] = "planned"
  /\ seen[s].frozen # 0 => seen[s].frozen = plan[s]
  /\ LET o == occ[s[1]]
     IN /\ Claimable(o) /\ ~SlotTaken
        /\ \E r \in Run :
             /\ run[r].status = "none"
             /\ run' = [run EXCEPT ![r] =
                  [status |-> "active", interval |-> s[1],
                   attempt |-> o.attempts + 1, producer |-> plan[s]]]
             /\ occ' = [occ EXCEPT ![s[1]] = ActiveAs(o, r)]
  /\ Leave(s, IF s[2] = "v2" THEN "admitted" ELSE "none")
  /\ UNCHANGED <<watermark, clock, server, since, setting, other,
                 count>>

(* A run holds the slot: the transaction is rolled back. *)
PipelineRunActive(s) ==
  /\ signal[s] = "planned" /\ Claimable(occ[s[1]]) /\ SlotTaken
  /\ Leave(s, "snoozed")
  /\ UNCHANGED <<occ, run, watermark, clock, server, since,
                 setting, other, count>>

(* Another signal of the interval has admitted it meanwhile. *)
AlreadyAdmitted(s) ==
  /\ signal[s] = "planned" /\ ~Claimable(occ[s[1]])
  /\ Leave(s, "none")
  /\ UNCHANGED <<occ, run, watermark, clock, server, since,
                 setting, other, count>>

CompleteSignal(s) ==
  /\ signal[s] = "admitted"
  /\ SignalTo(s, "none")
  /\ UNCHANGED <<occ, run, watermark, worker, clock, server, since,
                 setting, other, count>>

(* Mutant: the error ends the job. *)
DiscardSignal(s) ==
  /\ signal[s] \in {"fetched", "planning", "blocked", "planned"} /\ Fault
  /\ Leave(s, "none")
  /\ UNCHANGED <<occ, run, watermark, clock, server, since, setting, other>>

(* Reading, planning or writing fails: the same signal comes again. *)
SignalFails(s) ==
  /\ signal[s] \in {"fetched", "planning", "blocked", "planned"} /\ Fault
  /\ Leave(s, "snoozed")
  /\ UNCHANGED <<occ, run, watermark, clock, server, since,
                 setting, other>>

(* In time, or sooner by WakeWaitingPrerequisiteSignals. *)
SnoozeEnds(s) ==
  /\ signal[s] = "snoozed"
  /\ SignalTo(s, "available")
  /\ UNCHANGED <<occ, run, watermark, worker, clock, server, since,
                 setting, other, count>>

-----------------------------------------------------------------------------
(* The end of runs, and the environment. *)

(* Mutant: an interrupted run leaves its occurrence active. *)
TerminalOfOutcome(closed, status) ==
  [i \in Interval |->
     IF occ[i].status = "active" /\ occ[i].current \in closed /\ status # "failed"
     THEN [occ[i] EXCEPT !.status = status] ELSE occ[i]]

(* The trigger update_schedule_occurrence_terminal. *)
TerminalAfter(closed, status) ==
  [i \in Interval |->
     IF occ[i].status = "active" /\ occ[i].current \in closed
     THEN [occ[i] EXCEPT !.status = status] ELSE occ[i]]

Closed(closed, status) ==
  [r \in Run |-> IF r \in closed THEN [run[r] EXCEPT !.status = status] ELSE run[r]]

(* Row, occurrence and watermark change in one transaction. *)
FinalizeExecution(r) ==
  /\ server # "down" /\ run[r].status = "active"
  /\ \E status \in Terminal :
       /\ run' = Closed({r}, status)
       /\ occ' = TerminalAfter({r}, status)
       /\ watermark' = (IF status = "success" THEN run[r].interval[2] ELSE watermark)
  /\ UNCHANGED <<signal, worker, clock, server, since, setting, other, count>>

DeadlinePasses(i) ==
  /\ Waits(occ[i]) /\ occ[i].deadline = "ahead"
  /\ occ' = [occ EXCEPT ![i].deadline = "passed"]
  /\ seen' = [s \in Signal |-> IF s[1] = i /\ seen[s].deadline = "ahead"
                               THEN [seen[s] EXCEPT !.deadline = "passed"]
                               ELSE seen[s]]
  /\ UNCHANGED <<run, watermark, signal, plan, clock, server, since,
                 setting, other, count>>

DeployProducer ==
  /\ producer > 0 /\ producer < Producers
  /\ producer' = producer + 1
  /\ UNCHANGED <<occ, run, watermark, signal, worker, clock, server, since,
                 policy, other, count>>

OtherRunStarts ==
  /\ server # "down" /\ ~SlotTaken
  /\ count.others < MaxOthers /\ Counted("others")
  /\ other' = TRUE
  /\ UNCHANGED <<occ, run, watermark, signal, worker, clock, server, since,
                 setting>>

OtherRunEnds ==
  /\ other /\ server # "down"
  /\ other' = FALSE
  /\ UNCHANGED <<occ, run, watermark, signal, worker, clock, server, since,
                 setting, count>>

(* Claimed jobs stay running in River's table, with nobody at work.        *)
Crash ==
  /\ server # "down" /\ count.crashes < MaxCrashes /\ Counted("crashes")
  /\ server' = "down" /\ since' = -1 /\ due' = FALSE
  /\ signal' = [s \in Signal |-> IF signal[s] \in Claimed THEN "running" ELSE signal[s]]
  /\ seen' = [s \in Signal |-> NoPlan] /\ plan' = [s \in Signal |-> 0]
  /\ UNCHANGED <<occ, run, watermark, now, setting, other>>

(* ReconcileInterruptedState: claimed signals are due again, runs that     *)
(* were interrupted fail; a run that was only queued is kept.              *)
Start ==
  /\ server = "down"
  /\ server' = "starting"
  /\ signal' = [s \in Signal |-> IF signal[s] = "running" THEN "available" ELSE signal[s]]
  /\ \E interrupted \in SUBSET {r \in Run : run[r].status = "active"} :
       /\ run' = Closed(interrupted, "failed")
       /\ occ' = TerminalAfter(interrupted, "failed")
  /\ UNCHANGED <<watermark, worker, clock, since, setting, other, count>>

(* Nothing is left to do, or no identity for another run (a bound). *)
Idle ==
  /\ \/ \A r \in Run : run[r].status # "none"
     \/ /\ now = MaxTick /\ ~due /\ server = "up" /\ ~SlotTaken
        /\ \A s \in Signal : signal[s] = "none"
  /\ UNCHANGED vars

SignalStep(s) ==
  \/ FetchSignal(s) \/ EnsureScheduleOccurrence(s) \/ PlanScheduledRun(s)
  \/ MarkScheduleOccurrenceWaiting(s) \/ FailScheduleOccurrencePrerequisites(s)
  \/ CreateScheduleOccurrenceAttempt(s) \/ PipelineRunActive(s)
  \/ AlreadyAdmitted(s) \/ CompleteSignal(s) \/ SnoozeEnds(s)

Next ==
  \/ TickPasses \/ PeriodicSignal \/ Reconcile \/ ReconcileFails
  \/ \E s \in Signal : SignalStep(s) \/ VariablesUnresolved(s) \/ SignalFails(s)
  \/ \E r \in Run : FinalizeExecution(r)
  \/ \E i \in Interval : DeadlinePasses(i)
  \/ DeployProducer \/ OtherRunStarts \/ OtherRunEnds
  \/ Crash \/ Start \/ Idle

Spec == Init /\ [][Next]_vars

(* Workers and startup go on, runs end and the twelve hours pass.          *)
Fairness ==
  /\ \A s \in Signal : WF_vars(SignalStep(s))
  /\ \A r \in Run : WF_vars(FinalizeExecution(r))
  /\ \A i \in Interval : WF_vars(DeadlinePasses(i))
  /\ WF_vars(OtherRunEnds) /\ WF_vars(Start) /\ WF_vars(PeriodicSignal)

FairSpec == Spec /\ Fairness
-----------------------------------------------------------------------------
(* Properties. *)

PrerequisiteTerms == [frozen : Deployment, deadline : {"none", "ahead", "passed"}]

Occurrence == [status : {"none", "pending", "active"} \cup Terminal,
               current : Run \cup {NoRun}, attempts : Nat,
               frozen : Deployment, deadline : {"none", "ahead", "passed"}]

AttemptRow == [status : {"none", "active"} \cup Terminal,
               interval : Tick \X Tick, attempt : Nat, producer : Deployment]

SignalState == {"none", "available", "snoozed", "running"} \cup Claimed

TypeOK ==
  /\ occ \in [Interval -> Occurrence]
  /\ run \in [Run -> AttemptRow]
  /\ watermark \in (-1)..MaxTick
  /\ signal \in [Signal -> SignalState]
  /\ seen \in [Signal -> PrerequisiteTerms]
  /\ plan \in [Signal -> Deployment]
  /\ now \in Tick /\ due \in BOOLEAN
  /\ server \in {"down", "starting", "up"} /\ since \in (-1)..MaxTick
  /\ policy \in Policies /\ producer \in Deployment
  /\ other \in BOOLEAN

(* schedule_occurrence.go: an interval is never run again once a run of it *)
(* succeeded, nor while one is active, by whichever signals it is demanded *)
(* and whatever crashes come between their steps.                          *)
OneRunPerInterval ==
  \A r1, r2 \in Run :
    /\ run[r1].status \in {"active", "success"}
    /\ run[r2].status \in {"active", "success"}
    /\ run[r1].interval = run[r2].interval
    => r1 = r2

(* validateActiveRunOccurrenceBinding: a worker accepts a run only as the  *)
(* current attempt of an active occurrence.  An active run always is, and  *)
(* an occurrence is active only while its run is.                          *)
RunsAreBound ==
  /\ \A r \in Run : run[r].status = "active" =>
       /\ occ[run[r].interval].status = "active"
       /\ occ[run[r].interval].current = r
  /\ \A i \in Interval : occ[i].status = "active" =>
       \E r \in Run : occ[i].current = r /\ run[r].status = "active"

Attempts(i) == {r \in Run : run[r].status # "none" /\ run[r].interval = i}

(* schedule_occurrence_attempts: the attempts of an interval are numbered  *)
(* without gaps or repetition, also over attempts that were rolled back    *)
(* and signals that came again.                                            *)
AttemptsAreNumbered ==
  \A i \in Interval :
    {run[r].attempt : r \in Attempts(i)} = 1..Cardinality(Attempts(i))

(* DeferredScheduleOccurrence: what the schedule shows as deferred is      *)
(* waiting for planning or a run slot, so a signal of it is still alive.   *)
DeferredIsSignalled ==
  \A i \in Interval : occ[i].status = "pending" =>
    \E s \in Signal : s[1] = i /\ signal[s] # "none"

(* MarkScheduleOccurrenceWaiting: while an occurrence waits it has no run, *)
(* its producer does not move and its deadline is never put off, however   *)
(* often it is evaluated and whatever is deployed meanwhile.               *)
WaitKeepsTerms ==
  [][\A i \in Interval : Waits(occ[i]) /\ Waits(occ'[i]) =>
       /\ occ'[i].frozen = occ[i].frozen
       /\ occ[i].deadline = "passed" => occ'[i].deadline = "passed"
       /\ \A r \in Run : run'[r].interval = i => run'[r].status # "active"]_vars

(* prepareScheduledRunAdmission: a run that a wait ends with is planned    *)
(* against the producer deployment the wait selected first.                *)
AdmissionKeepsProducer ==
  [][\A r \in Run : run[r].status = "none" /\ run'[r].status = "active" =>
       LET o == occ[run'[r].interval]
       IN Waits(o) => run'[r].producer = o.frozen]_vars

CaughtUp(last) ==
  policy # "skip" =>
    \A k \in (last + 1)..now :
      \/ due /\ k = now
      \/ \E s \in Signal :
           /\ s[1][1] < k /\ k <= s[1][2]
           /\ signal[s] # "none" \/ occ[s[1]].status # "none"

(* catchUp and the periodic jobs: under a policy that catches up, after a  *)
(* reconciliation that inserted every signal it owed, no later tick beyond *)
(* the watermark is forgotten: its interval was recorded, has a signal or  *)
(* is about to get one.                                                    *)
MissedTicksAreSignalled ==
  server = "up" /\ since >= 0 =>
    CaughtUp(IF since < watermark THEN watermark ELSE since)

(* backend.md: a reconciliation propagates catch-up enqueue failures, so   *)
(* an active schedule is never left unapplied.                             *)
ActiveScheduleIsApplied == server = "up" /\ watermark >= 0 => CaughtUp(watermark)

(* A first evaluation comes to an end: an occurrence that never had a run  *)
(* is admitted, or fails at the deadline of its wait.                      *)
FirstAttemptsSettle ==
  \A i \in Interval :
    occ[i].status = "pending" /\ occ[i].current = NoRun ~> occ[i].status # "pending"

(* staleness.md: a blocked occurrence expires with its deadline. *)
EveryWaitEnds ==
  \A i \in Interval : occ[i].status = "pending" ~> occ[i].status # "pending"

(* staleness.md: an interval recorded as a success is not enqueued again   *)
(* by catch-up, because the watermark advanced with it.                    *)
SuccessIsBehindWatermark ==
  \A i \in Interval : occ[i].status = "success" => i[2] <= watermark
=============================================================================
