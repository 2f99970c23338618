------------------------- MODULE RunLedgerInvariant -------------------------
(***************************************************************************)
(* The inductive invariant of the run ledger.  The ledger's properties are *)
(* about status, slots and claims; they are preserved only because of what *)
(* the server's memory and River's queue may hold beside each status,      *)
(* since MarkRunning and Finish update the row without looking at it.      *)
(***************************************************************************)
EXTENDS RunLedger

(* An admitted run has a demand; it has a River job unless it is inline.   *)
AdmissionInv(r) ==
  IF status[r] = "absent"
  THEN job[r] = "none" /\ phase[r] = "idle" /\ canceller[r] = "idle"
  ELSE /\ demand[r] \in Demand
       /\ job[r] = "none" <=> demand[r].dispatch = "inline"

(* Whoever works on a run has its job (the request itself, inline), so a   *)
(* cancellation that found the job at rest closes the run alone.           *)
ExecutorInv(r) ==
  /\ phase[r] # "idle" => job[r] \in {"running", "none"}
  /\ job[r] = "none" => phase[r] \in {"idle", "starting", "executing", "closing"}
  /\ canceller[r] = "finalizing" => job[r] = "cancelled" /\ r \in cancelAsked
  /\ ~ServerRuns => phase[r] = "idle" /\ canceller[r] = "idle"

(* What the row says while the worker is in each of its phases.            *)
PhaseInv(r) ==
  /\ phase[r] \in {"rejecting", "closing"} => status[r] \in Active
  /\ phase[r] = "starting" => status[r] = "queued"
  /\ phase[r] \in {"retrying", "executing"} => status[r] = "running"
  /\ phase[r] = "closing" => result[r] \in Terminal
  /\ phase[r] = "returning" => result[r] \in {"ok", "snooze", "cancel", "error"}

(* The executor is entered on the way from queued to running only.         *)
StartInv(r) == starts[r] = 0 \/ (starts[r] = 1 /\ status[r] \notin {"absent", "queued"})

(* Nothing is open under a terminal run, or under a success to be written. *)
OpenInv(r) ==
  /\ status[r] \in Terminal => r \notin open
  /\ phase[r] = "closing" /\ result[r] = "success" => r \notin open

(* A worker that is about to leave its job has closed the run or will see  *)
(* the job again, unless its last write failed.                            *)
AttentionInv(r) ==
  phase[r] = "returning" /\ result[r] # "snooze" /\ status[r] \in Active => r \in unclosed

RunInv(r) ==
  /\ AdmissionInv(r)
  /\ ExecutorInv(r)
  /\ PhaseInv(r)
  /\ StartInv(r)
  /\ OpenInv(r)
  /\ AttentionInv(r)

(* The inductive invariant: the types, the ownership of slots and claims,  *)
(* the exclusion it implements, what holds of each run, and what startup   *)
(* and a live server owe to the active runs.                               *)
IInv ==
  /\ TypeOK
  /\ OwnershipFollowsActivity
  /\ ActiveRunsExclude
  /\ \A r \in Run : RunInv(r)
  /\ StartupLeavesRunnableRuns
  /\ ActiveRunsAreAttended
=============================================================================
