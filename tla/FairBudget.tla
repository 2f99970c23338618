----------------------------- MODULE FairBudget -----------------------------
(***************************************************************************)
(* What the workspace task budget promises the runs that share it: no more *)
(* than Limit slots are out, a slot comes back only from a run that holds  *)
(* it, and nobody is served before a run that asked earlier.               *)
(***************************************************************************)
EXTENDS Naturals

CONSTANTS
  Run,      \* the runs that share the budget
  Limit     \* slots of the budget

VARIABLES
  free,     \* slots that are not held
  held,     \* held[r] is how many slots run r holds
  asking,   \* runs that wait for a slot
  ahead     \* ahead[r] are the runs that r waits behind

budgetVars == <<free, held, asking, ahead>>

FairInit ==
  /\ free = Limit
  /\ held = [r \in Run |-> 0]
  /\ asking = {}
  /\ ahead = [r \in Run |-> {}]

Ask(r) ==
  /\ r \notin asking
  /\ asking' = asking \cup {r}
  /\ ahead' = [ahead EXCEPT ![r] = asking]
  /\ UNCHANGED <<free, held>>

(* r leaves the queue, served or not. *)
Leave(r) ==
  /\ asking' = asking \ {r}
  /\ ahead' = [o \in Run |-> IF o = r THEN {} ELSE ahead[o] \ {r}]

Withdraw(r) ==
  /\ r \in asking
  /\ Leave(r)
  /\ UNCHANGED <<free, held>>

(* A free slot goes to a run that finds nobody waiting. *)
Take(r) ==
  /\ free > 0
  /\ asking = {}
  /\ free' = free - 1
  /\ held' = [held EXCEPT ![r] = @ + 1]
  /\ UNCHANGED <<asking, ahead>>

GiveBack(r) ==
  /\ held[r] > 0
  /\ free' = free + 1
  /\ held' = [held EXCEPT ![r] = @ - 1]
  /\ UNCHANGED <<asking, ahead>>

(* The slot r gives back goes straight to the run that waits longest. *)
HandOver(r, s) ==
  /\ held[r] > 0
  /\ s \in asking /\ ahead[s] = {}
  /\ held' = [[held EXCEPT ![r] = @ - 1] EXCEPT ![s] = @ + 1]
  /\ Leave(s)
  /\ UNCHANGED free

FairNext ==
  \/ \E r \in Run : Ask(r) \/ Withdraw(r) \/ Take(r) \/ GiveBack(r)
  \/ \E r, s \in Run : HandOver(r, s)

FairSpec == FairInit /\ [][FairNext]_budgetVars
=============================================================================
