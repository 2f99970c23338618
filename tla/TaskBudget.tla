----------------------------- MODULE TaskBudget -----------------------------
(***************************************************************************)
(* The workspace-wide budget of executiongraph/budget.go: a counter and a  *)
(* FIFO of waiters under one mutex.  Its operations are steps of the runs  *)
(* that call them; a run queues at most one request at a time, so a waiter *)
(* is named by its run.                                                    *)
(***************************************************************************)
EXTENDS Naturals, Sequences

CONSTANTS
  Run,        \* the runs that share the budget
  Limit       \* Budget.limit

ASSUME BudgetAssumption == Limit \in Nat \ {0}

VARIABLES
  active,     \* Budget.active
  waiters,    \* Budget.waiters, oldest first
  granted     \* runs whose ready channel is closed and who have not seen it

budget == <<active, waiters, granted>>

NewBudget ==
  /\ active = 0
  /\ waiters = <<>>
  /\ granted = {}

Waiting == {waiters[i] : i \in DOMAIN waiters}

SlotFree == active < Limit /\ waiters = <<>>

(* Acquire, without and with a wait *)
AcquireSlot ==
  /\ SlotFree
  /\ active' = active + 1
  /\ UNCHANGED <<waiters, granted>>

JoinWaiters(r) ==
  /\ ~SlotFree
  /\ waiters' = Append(waiters, r)
  /\ UNCHANGED <<active, granted>>

(* Mutant: the youngest waiters are served first. *)
ReleaseToYoungest(unseen) ==
  LET left == active - 1
      n == IF Limit - left < Len(waiters) THEN Limit - left ELSE Len(waiters)
      kept == Len(waiters) - n
  IN
  /\ active' = left + n
  /\ granted' = unseen \cup {waiters[i] : i \in (kept + 1)..Len(waiters)}
  /\ waiters' = SubSeq(waiters, 1, kept)

(* releaseLocked: the slot returns, and the oldest waiters are granted as  *)
(* many slots as are free; unseen are the grants that still stand.         *)
Release(unseen) ==
  LET left == IF active > 0 THEN active - 1 ELSE 0
      n == IF Limit - left < Len(waiters) THEN Limit - left ELSE Len(waiters)
  IN
  /\ active' = left + n
  /\ granted' = unseen \cup {waiters[i] : i \in 1..n}
  /\ waiters' = SubSeq(waiters, n + 1, Len(waiters))

(* removeWaiterLocked *)
RemoveWaiter(r) ==
  \E i \in DOMAIN waiters :
    /\ waiters[i] = r
    /\ waiters' = SubSeq(waiters, 1, i - 1) \o SubSeq(waiters, i + 1, Len(waiters))
    /\ UNCHANGED <<active, granted>>
=============================================================================
