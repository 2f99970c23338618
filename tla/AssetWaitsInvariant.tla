------------------------ MODULE AssetWaitsInvariant -------------------------
(***************************************************************************)
(* The inductive invariant of AssetWaits: the table, the tasks, the runs   *)
(* and the queries agree.                                                  *)
(***************************************************************************)
EXTENDS AssetWaits

(* The task has entered the table and nobody has closed it. *)
AtWork(t) == task[t] \in {"running", "lost"} /\ outcome[t] = "none"

OutcomesFollow ==
  \A t \in Task :
    /\ task[t] \in {"waiting", "running"} => outcome[t] = "none"
    /\ task[t] \in {"checking", "succeeded"} => outcome[t] = "ok"

(* An entry is the last task that entered, and at work.                    *)
EntriesAreLatest ==
  \A a \in Asset : inflight[a] # NoTask =>
    /\ AtWork(inflight[a])
    /\ latest[a] = inflight[a]

(* The last task that entered stays until it is closed. *)
LatestStays ==
  \A a \in Asset : latest[a] # NoTask =>
    /\ AssetOf[latest[a]] = a
    /\ outcome[latest[a]] = "none" => inflight[a] = latest[a]

(* A task at work on an owned asset belongs to an open run, which knows    *)
(* it, and nobody has entered after it.                                    *)
OwnedIsLatest ==
  \A t \in Task : AtWork(t) /\ AssetOf[t] \in Owned =>
    /\ run[RunOf[t]] = "open"
    /\ state[RunOf[t]][AssetOf[t]] = "running"
    /\ latest[AssetOf[t]] = t

(* A task has begun after the tasks that come before it. *)
BegunInOrder ==
  \A t \in Task : task[t] \in {"running", "lost", "checking", "succeeded"} =>
    \A u \in After[t] : task[u] = "succeeded"

BegunInRun == \A t \in Task : task[t] # "waiting" => run[RunOf[t]] # "absent"

OpenRunsMayOverlap ==
  \A r, q \in Run : r # q /\ run[r] = "open" /\ run[q] = "open" => {r, q} \notin Excluded

(* A query belongs to a task that runs, and waits for a task that entered. *)
QueriesWait ==
  \A t \in Task :
    /\ query[t] # Idle => task[t] = "running"
    /\ query[t].on # NoTask => AtWork(query[t].on) \/ Closed(query[t].on)
    /\ query[t].at = "reading" => query[t].left = {}

(* What a query has seen at work has succeeded, but for what it waits for. *)
SeenIsAwaited ==
  \A t \in Task : \A u \in seen[t] :
    outcome[u] = "ok" \/ (query[t].at = "waiting" /\ query[t].on = u)

(* A run without a plan has begun all that its queries have looked up.     *)
LookedUpHasBegun ==
  \A t \in Task : RunOf[t] \notin Planned =>
    \A a \in query[t].refs \ query[t].left : state[RunOf[t]][a] # "pending"

IInv ==
  /\ TypeOK
  /\ OutcomesFollow /\ EntriesAreLatest /\ LatestStays /\ OwnedIsLatest
  /\ BegunInOrder /\ BegunInRun /\ OpenRunsMayOverlap
  /\ QueriesWait /\ SeenIsAwaited /\ LookedUpHasBegun
=============================================================================
