---------------------- MODULE ExecutionGraphInvariant -----------------------
(***************************************************************************)
(* The inductive invariant of the execution graph: how the runner's view   *)
(* of a unit, its goroutine, its row and the budget fit together.          *)
(***************************************************************************)
EXTENDS ExecutionGraph

Over(r) == pc[r] \in {"returned", "closed"}

(* A run is in the queue or in the granted set exactly while it waits, and *)
(* once; it waits to launch a unit.                                        *)
QueueInv ==
  /\ \A i, j \in DOMAIN waiters : waiters[i] = waiters[j] => i = j
  /\ Waiting \cap granted = {}
  /\ \A r \in Run : r \in Waiting \cup granted <=> pc[r] = "waiting"
  /\ \A r \in Run : pc[r] = "waiting" => \E u \in Unit : IsNext(r, u)

(* A unit is reserved from its launch until its result is received.        *)
PhaseInv(r) ==
  /\ \A u \in Unit : node[r][u] = "running" <=> phase[r][u] # "none"
  /\ Over(r) => Reserved(r) = {}

(* What is reserved fits together.                                         *)
ReservationInv(r) ==
  /\ Cardinality(Reserved(r)) <= MaxActive
  /\ \A c \in DOMAIN ConnectionLimit :
       Cardinality({u \in Reserved(r) : c \in graph[r].connections[u]}) <= ConnectionLimit[c]
  /\ \A u, o \in Reserved(r) :
       u # o => /\ graph[r].resources[u] \cap graph[r].resources[o] = {}
                /\ u \notin graph[r].exclusive

(* Units start over succeeded dependencies; success is durable.            *)
DependencyInv(r) ==
  \A u \in Unit :
    /\ node[r][u] = "succeeded" \/ phase[r][u] = "ok" => u \in handedOff[r]
    /\ node[r][u] \in {"running", "succeeded", "failed"} => DependenciesSucceeded(r, u)
    /\ node[r][u] = "cancelled" /\ r \notin cancelled => DependenciesSucceeded(r, u)

(* The row of a unit beside its node and its goroutine.                    *)
RowInv(r) ==
  \A u \in Unit :
    /\ u \in handedOff[r] => unit[r][u] = "success"
    /\ pc[r] # "closed" =>
         /\ node[r][u] = "pending" \/ phase[r][u] = "starting" => unit[r][u] = "queued"
         /\ phase[r][u] = "operating" => unit[r][u] = "running"
         /\ node[r][u] = "skipped" => unit[r][u] \in {"queued", "skipped"}
    /\ pc[r] = "closed" => unit[r][u] \notin UnitOpen
    /\ pc[r] = "closed" /\ runStatus[r] = "success" => errs[r] = {}

(* A unit is skipped for a reason that ends in an error of the run; after  *)
(* the pass over the pending units none of them has such a reason.         *)
SkipInv(r) ==
  /\ \A u \in Unit :
       /\ node[r][u] = "skipped" => FailedDependencies(r, u) # {}
       /\ node[r][u] \in {"failed", "skipped"} => errs[r] # {}
       /\ node[r][u] = "cancelled" /\ errs[r] = {} => r \in cancelled /\ ~Over(r)
  /\ pc[r] \in {"launching", "waiting", "collecting"} /\ r \notin cancelled =>
       \A u \in Pending(r) : FailedDependencies(r, u) = {}

(* The runner collects only while something is active, unless it is done   *)
(* or cancelled, and so it returns with nothing pending.                   *)
ProgressInv(r) ==
  /\ pc[r] = "collecting" /\ r \notin cancelled => Reserved(r) # {} \/ Pending(r) = {}
  /\ "stalled" \notin errs[r]
  /\ Over(r) /\ Pending(r) # {} => "canceled" \in errs[r] /\ r \in cancelled
  /\ Over(r) /\ r \in cancelled /\ "canceled" \notin errs[r] =>
       \A u \in Unit : node[r][u] = "cancelled" => DependenciesSucceeded(r, u)

RunInv(r) ==
  /\ PhaseInv(r)
  /\ ReservationInv(r)
  /\ DependencyInv(r)
  /\ RowInv(r)
  /\ SkipInv(r)
  /\ ProgressInv(r)

IInv ==
  /\ TypeOK
  /\ BudgetAccounts /\ IsFiniteSet(Leases)
  /\ QueueInv
  /\ \A r \in Run : RunInv(r)
=============================================================================
