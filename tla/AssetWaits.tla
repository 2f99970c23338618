----------------------------- MODULE AssetWaits -----------------------------
(***************************************************************************)
(* The registry of the tasks in flight (internal/web/runstate) and the     *)
(* queries of Python assets that wait on it (internal/web/pybroker): runs  *)
(* register the assets they plan, tasks enter and leave the table, and a   *)
(* query that references an asset in flight waits for the end of its task, *)
(* for the cancellation of its run or for a timeout.                       *)
(*                                                                         *)
(* One step is one critical section under Registry.mu, or what a goroutine *)
(* does between two of them.  That a run is admitted is the business of    *)
(* RunLedger; here Excluded says which runs it never lets overlap.         *)
(***************************************************************************)
EXTENDS Naturals, FiniteSets

CONSTANTS
  Run, Asset, Task,
  Python,       \* the tasks of Python assets
  RunOf,        \* the run of a task
  AssetOf,      \* the asset it materializes
  After,        \* the tasks of its run that must have succeeded before
  Planned,      \* runs of a reviewed plan: their units run in parallel, and
                \* under run ids of their own
  Excluded,     \* sets of runs that admission never lets overlap
  NoTask,
  MaxQueries,   \* bound: queries of one task
  MaxPanics,    \* bound: tasks that panic
  MaxCancels    \* bound: runs that are cancelled

ASSUME WaitsAssumption ==
  /\ RunOf \in [Task -> Run]
  /\ AssetOf \in [Task -> Asset]
  /\ After \in [Task -> SUBSET Task]
  /\ Python \subseteq Task
  /\ Planned \subseteq Run
  /\ NoTask \notin Task
  /\ MaxQueries \in Nat
  /\ MaxPanics \in Nat /\ MaxCancels \in Nat

(* The windows of one asset run one after the other.                       *)
ASSUME WindowsInTurn ==
  \A t, u \in Task :
    t # u /\ RunOf[t] = RunOf[u] /\ AssetOf[t] = AssetOf[u] =>
      t \in After[u] \/ u \in After[t]

VARIABLES
  (* Registry *)
  run,       \* "absent", "open" (in Registry.runs) or "ended"
  state,     \* Run.state: what each run knows of its assets
  inflight,  \* Registry.inflight: the task that materializes an asset
  outcome,   \* Task.err, once Task.done is closed; "none" before
  (* goroutines *)
  task,      \* "waiting", "running", "checking" (its checks run), "succeeded",
             \* "failed" or "lost" (it panicked)
  cancelled, \* runs whose context has ended
  query,     \* the query of each task: its references, those it still has to
             \* look up, and what it waits for
  (* history and bounds *)
  latest,    \* the task that entered the table last, for each asset
  seen,      \* the tasks that a query found at work on its references
  queries, panics

registry == <<run, state, inflight, outcome>>
reader == <<query, seen, queries>>
vars == <<registry, task, cancelled, reader, latest, panics>>

TasksOf(r) == {t \in Task : RunOf[t] = r}
AssetsOf(r) == {AssetOf[t] : t \in TasksOf(r)}

Idle == [at |-> "none", refs |-> {}, left |-> {}, on |-> NoTask]

Init ==
  /\ run = [r \in Run |-> "absent"]
  /\ state = [r \in Run |-> [a \in Asset |-> "unplanned"]]
  /\ inflight = [a \in Asset |-> NoTask]
  /\ outcome = [t \in Task |-> "none"]
  /\ task = [t \in Task |-> "waiting"]
  /\ cancelled = {}
  /\ query = [t \in Task |-> Idle]
  /\ latest = [a \in Asset |-> NoTask]
  /\ seen = [t \in Task |-> {}]
  /\ queries = [t \in Task |-> 0]
  /\ panics = 0

-----------------------------------------------------------------------------
(* Runs and their tasks. *)

(* BeginRun, once admission let the run pass. *)
BeginRun(r) ==
  /\ run[r] = "absent"
  /\ \A q \in Run \ {r} : {r, q} \in Excluded => run[q] # "open"
  /\ run' = [run EXCEPT ![r] = "open"]
  /\ state' = [state EXCEPT ![r] =
                 [a \in Asset |-> IF a \in AssetsOf(r) THEN "pending" ELSE "unplanned"]]
  /\ UNCHANGED <<inflight, outcome, task, cancelled, reader, latest, panics>>

(* A run without a plan takes one task at a time and ends with the first   *)
(* that fails; the graph runner of a plan starts what is ready, until the  *)
(* run is cancelled.                                                       *)
InTurn(t) ==
  IF RunOf[t] \in Planned
  THEN RunOf[t] \notin cancelled
  ELSE \A u \in TasksOf(RunOf[t]) : task[u] \in {"waiting", "succeeded"}

Ready(t) ==
  /\ run[RunOf[t]] = "open"
  /\ task[t] = "waiting"
  /\ InTurn(t)
  /\ \A u \in After[t] : task[u] = "succeeded"

(* Mutant: the table keeps the first of two tasks that materialize one     *)
(* asset.                                                                  *)
EnterOnce(t) == IF inflight[AssetOf[t]] = NoTask
                THEN [inflight EXCEPT ![AssetOf[t]] = t] ELSE inflight

Enter(t) == [inflight EXCEPT ![AssetOf[t]] = t]

(* BeginTask: an entry of another run is replaced. *)
BeginTask(t) ==
  /\ Ready(t)
  /\ task' = [task EXCEPT ![t] = "running"]
  /\ state' = [state EXCEPT ![RunOf[t]][AssetOf[t]] = "running"]
  /\ inflight' = Enter(t)
  /\ latest' = [latest EXCEPT ![AssetOf[t]] = t]
  /\ UNCHANGED <<run, outcome, cancelled, reader, panics>>

(* Mutant: the entry is deleted whoever made it.                           *)
LeaveAny(t) == [inflight EXCEPT ![AssetOf[t]] = NoTask]

Leave(t) == IF inflight[AssetOf[t]] = t
            THEN [inflight EXCEPT ![AssetOf[t]] = NoTask] ELSE inflight

(* The function BeginTask returned, called with the outcome of the task.   *)
Finish(t, result) ==
  /\ task[t] = "running"
  /\ query[t] = Idle
  /\ task' = [task EXCEPT ![t] = IF result = "ok" THEN "checking" ELSE "failed"]
  /\ outcome' = [outcome EXCEPT ![t] = result]
  /\ inflight' = Leave(t)
  /\ state' = [state EXCEPT ![RunOf[t]][AssetOf[t]] = "done"]
  /\ UNCHANGED <<run, cancelled, reader, latest, panics>>

TaskTo(t, status) ==
  /\ task' = [task EXCEPT ![t] = status]
  /\ UNCHANGED <<registry, cancelled, reader, latest, panics>>

(* The checks of the asset, which the registry does not see.               *)
Check(t) ==
  /\ task[t] = "checking"
  /\ TaskTo(t, "succeeded") \/ TaskTo(t, "failed")

(* The goroutine of the task panics below finish; the deferred calls close *)
(* its broker, and with it the query.                                      *)
Panic(t) ==
  /\ panics < MaxPanics
  /\ task[t] = "running"
  /\ task' = [task EXCEPT ![t] = "lost"]
  /\ query' = [query EXCEPT ![t] = Idle]
  /\ seen' = [seen EXCEPT ![t] = {}]
  /\ panics' = panics + 1
  /\ UNCHANGED <<registry, cancelled, latest, queries>>

(* A unit is bypassed, because the run is cancelled or a dependency did    *)
(* not succeed, or it fails before its task begins.                        *)
Skip(t) ==
  /\ run[RunOf[t]] = "open" /\ RunOf[t] \in Planned
  /\ task[t] = "waiting"
  /\ \/ RunOf[t] \in cancelled
     \/ \E u \in After[t] : task[u] \in {"failed", "lost"}
     \/ Ready(t)
  /\ TaskTo(t, "failed")

Cancel(r) ==
  /\ run[r] = "open" /\ r \notin cancelled
  /\ Cardinality(cancelled) < MaxCancels
  /\ cancelled' = cancelled \cup {r}
  /\ UNCHANGED <<registry, task, reader, latest, panics>>

(* A planned run returns when all its units are drained, another one after *)
(* its last task, or earlier with an error.                                *)
Drained(r) ==
  \A t \in TasksOf(r) :
    task[t] \in {"succeeded", "failed", "lost"} \cup (IF r \in Planned THEN {} ELSE {"waiting"})

(* Mutant: the tasks that never finished are dropped, but not closed.      *)
NoOrphans(r) == {}

(* The tasks that End finds in the table for the assets the run has as     *)
(* running.                                                                *)
Orphans(r) ==
  {t \in TasksOf(r) : state[r][AssetOf[t]] = "running" /\ inflight[AssetOf[t]] = t}

End(r) ==
  /\ run[r] = "open"
  /\ Drained(r)
  /\ run' = [run EXCEPT ![r] = "ended"]
  /\ inflight' = [a \in Asset |-> IF \E t \in TasksOf(r) :
                      inflight[a] = t /\ state[r][a] = "running" THEN NoTask ELSE inflight[a]]
  /\ outcome' = [t \in Task |-> IF t \in Orphans(r) THEN "failed" ELSE outcome[t]]
  /\ UNCHANGED <<state, task, cancelled, reader, latest, panics>>

-----------------------------------------------------------------------------
(* The queries of a Python asset, handled by the broker of its task.       *)

QueryTo(t, q) == query' = [query EXCEPT ![t] = q]

(* The query is answered, with a result or with an error. *)
Answer(t) ==
  /\ QueryTo(t, Idle)
  /\ seen' = [seen EXCEPT ![t] = {}]
  /\ UNCHANGED <<registry, task, cancelled, latest, queries, panics>>

(* handleQuery: a query that references more than the asset itself.        *)
Query(t, references) ==
  /\ t \in Python /\ task[t] = "running"
  /\ query[t] = Idle
  /\ queries[t] < MaxQueries
  /\ references # {} /\ AssetOf[t] \notin references
  /\ queries' = [queries EXCEPT ![t] = @ + 1]
  /\ QueryTo(t, [at |-> "looking", refs |-> references, left |-> references, on |-> NoTask])
  /\ UNCHANGED <<registry, task, cancelled, seen, latest, panics>>

(* The broker of a unit asks under the id of the unit, which no run has.   *)
PendingInRun(t, a) == RunOf[t] \notin Planned /\ state[RunOf[t]][a] = "pending"

(* Mutant: the state of the own run is not looked at.                      *)
NeverPending(t, a) == FALSE

Refuses(t, a) == PendingInRun(t, a)

(* Runs that may overlap share no owned asset. *)
Owned == {a \in Asset : \A t, u \in Task :
            AssetOf[t] = a /\ AssetOf[u] = a /\ RunOf[t] # RunOf[u] =>
              {RunOf[t], RunOf[u]} \in Excluded}

(* The tasks at work on an asset; of one that is not owned, the last of    *)
(* them.                                                                   *)
Builders(a) == {u \in Task : /\ AssetOf[u] = a
                             /\ task[u] \in {"running", "lost"} /\ outcome[u] = "none"
                             /\ a \in Owned \/ latest[a] = u}

(* Registry.Lookup of one reference: refused, nothing to wait for, or a    *)
(* wait.                                                                   *)
Lookup(t, a) ==
  /\ query[t].at = "looking"
  /\ a \in query[t].left
  /\ IF Refuses(t, a)
     THEN Answer(t)
     ELSE /\ seen' = [seen EXCEPT ![t] = @ \cup Builders(a)]
          /\ IF inflight[a] = NoTask
             THEN QueryTo(t, [query[t] EXCEPT !.left = @ \ {a}])
             ELSE QueryTo(t, [query[t] EXCEPT !.at = "waiting", !.left = @ \ {a},
                                                !.on = inflight[a]])
          /\ UNCHANGED <<registry, task, cancelled, latest, queries, panics>>

(* Mutant: the end of the task is waited for, its error is not looked at.  *)
FinishedSomehow(t) == outcome[query[t].on] # "none"

Finished(t) == outcome[query[t].on] = "ok"

(* Task.Wait returns: the task succeeded, it failed, or the context of the *)
(* wait is over.                                                           *)
WaitSucceeds(t) ==
  /\ query[t].at = "waiting"
  /\ Finished(t)
  /\ QueryTo(t, [query[t] EXCEPT !.at = "looking", !.on = NoTask])
  /\ UNCHANGED <<registry, task, cancelled, seen, latest, queries, panics>>

WaitFails(t) ==
  /\ query[t].at = "waiting"
  /\ outcome[query[t].on] = "failed" \/ RunOf[t] \in cancelled
  /\ Answer(t)

(* Mutant: a wait has no deadline of its own.                              *)
WaitsForever(t) == query[t].at = "waiting" /\ FALSE

Expires(t) == query[t].at = "waiting"

WaitTimesOut(t) ==
  /\ Expires(t)
  /\ Answer(t)

(* RunQuery on the project connection. *)
Read(t) ==
  /\ query[t].at = "looking" /\ query[t].left = {}
  /\ QueryTo(t, [query[t] EXCEPT !.at = "reading"])
  /\ UNCHANGED <<registry, task, cancelled, seen, latest, queries, panics>>

ReadEnds(t) ==
  /\ query[t].at = "reading"
  /\ Answer(t)

QueryStep(t) ==
  \/ \E a \in Asset : Lookup(t, a)
  \/ WaitSucceeds(t) \/ WaitFails(t) \/ WaitTimesOut(t)
  \/ Read(t) \/ ReadEnds(t)

Outcome == {"ok", "failed"}

(* What the goroutine of a task and the handler of its query go on to do.  *)
Proceed(t) ==
  \/ BeginTask(t) \/ Skip(t) \/ Check(t) \/ QueryStep(t)
  \/ \E result \in Outcome : Finish(t, result)

Next ==
  \/ \E r \in Run : BeginRun(r) \/ Cancel(r) \/ End(r)
  \/ \E t \in Task : Proceed(t) \/ Panic(t)
  \/ \E t \in Task, references \in SUBSET Asset : Query(t, references)

Spec == Init /\ [][Next]_vars

(* Goroutines run on, queries and scripts end, and waits have a deadline.  *)
Fairness == /\ \A r \in Run : WF_vars(End(r))
            /\ \A t \in Task : WF_vars(Proceed(t))

FairSpec == Spec /\ Fairness

-----------------------------------------------------------------------------
(* Properties. *)

Closed(t) == outcome[t] # "none"

TypeOK ==
  /\ run \in [Run -> {"absent", "open", "ended"}]
  /\ state \in [Run -> [Asset -> {"unplanned", "pending", "running", "done"}]]
  /\ inflight \in [Asset -> Task \cup {NoTask}]
  /\ outcome \in [Task -> Outcome \cup {"none"}]
  /\ task \in [Task -> {"waiting", "running", "checking", "succeeded", "failed", "lost"}]
  /\ cancelled \in SUBSET Run
  /\ query \in [Task -> [at : {"none", "looking", "waiting", "reading"},
                         refs : SUBSET Asset, left : SUBSET Asset, on : Task \cup {NoTask}]]
  /\ latest \in [Asset -> Task \cup {NoTask}]
  /\ seen \in [Task -> SUBSET Task]
  /\ queries \in [Task -> Nat]
  /\ panics \in Nat

(* Two runs may materialize one asset, each with a task of its own: the    *)
(* one that began last is in the table for as long as it is at work,       *)
(* whatever the other one and its run do when they end.                    *)
LatestIsVisible ==
  \A a \in Asset : LET t == latest[a] IN
    t # NoTask => (inflight[a] = t <=> ~Closed(t))

(* A query executes only after everything that was at work on one of its   *)
(* references when it looked has succeeded: it never reads what a failed   *)
(* or a lost task has left.                                                *)
ReadsAreAwaited ==
  \A t \in Task : query[t].at = "reading" => \A u \in seen[t] : outcome[u] = "ok"

(* What a query waits for will be closed: by its goroutine, or by the end  *)
(* of its run.  For an asset that overlapping runs share this fails: a     *)
(* task that panicked after another replaced it is closed by nobody.       *)
WaitedRunIsOpen ==
  \A t \in Task : LET u == query[t].on IN
    u # NoTask /\ AssetOf[u] \in Owned /\ ~Closed(u) => run[RunOf[u]] = "open"

ReadsPending(t) == query[t].at = "reading"
                   /\ \E a \in query[t].refs : state[RunOf[t]][a] = "pending"

(* A task whose run has no plan reads nothing that the run materializes    *)
(* only later.                                                             *)
LaterIsRefused == \A t \in Task : RunOf[t] \notin Planned => ~ReadsPending(t)

(* broker.go: a reference to an asset planned later in the same run fails  *)
(* fast.                                                                   *)
PlannedIsNotRead == \A t \in Task : ~ReadsPending(t)

(* Every run comes to its end, although Python assets may wait for each    *)
(* other's task in a circle, or for one that panicked.                     *)
RunsEnd == \A r \in Run : run[r] = "open" ~> run[r] = "ended"
=============================================================================
