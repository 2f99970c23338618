---------------------------- MODULE RunExclusion ----------------------------
(***************************************************************************)
(* What the run ledger promises, without the ledger: a run is admitted     *)
(* only while it is compatible with every active run, and a run that has   *)
(* closed never becomes active again.                                      *)
(***************************************************************************)
EXTENDS RunAdmission

CONSTANTS
  Run,        \* run ids
  NoDemand    \* the demand of a run that was never admitted

VARIABLES
  life,       \* life[r] \in {"absent", "active", "closed"}
  wants       \* wants[r] is the demand run r was admitted with

exclusionVars == <<life, wants>>

ExclusionInit ==
  /\ life = [r \in Run |-> "absent"]
  /\ wants = [r \in Run |-> NoDemand]

AdmitRun(r, d) ==
  /\ life[r] = "absent"
  /\ \A o \in Run : life[o] = "active" => Compatible(wants[o], d)
  /\ life' = [life EXCEPT ![r] = "active"]
  /\ wants' = [wants EXCEPT ![r] = d]

(* Finalization closes one run, startup recovery every interrupted one.    *)
CloseRuns(S) ==
  /\ \A r \in S : life[r] = "active"
  /\ life' = [r \in Run |-> IF r \in S THEN "closed" ELSE life[r]]
  /\ UNCHANGED wants

ExclusionNext ==
  \/ \E r \in Run, d \in Demand : AdmitRun(r, d)
  \/ \E S \in SUBSET Run : CloseRuns(S)

ExclusionSpec == ExclusionInit /\ [][ExclusionNext]_exclusionVars
=============================================================================
