-------------------------- MODULE TargetFreshness --------------------------
(***************************************************************************)
(* What the materialization log promises the readers of its latest writers *)
(* (matlog.LatestWriters: plans, prerequisites, fingerprints, staleness):  *)
(* a writer is named only while the table holds the whole output of that   *)
(* writer and nobody has touched it since.  Trust may be withdrawn at any  *)
(* time, and has to be before a write touches the table.                   *)
(***************************************************************************)
CONSTANTS Write, Target, NoWrite, TargetOf

VARIABLES
  named,     \* the writer that readers are told of, per target
  held       \* the last write that touched the table, and whether it is whole

Init ==
  /\ named = [t \in Target |-> NoWrite]
  /\ held = [t \in Target |-> [by |-> NoWrite, whole |-> FALSE]]

Touch(w) ==
  /\ named[TargetOf[w]] = NoWrite
  /\ held' = [held EXCEPT ![TargetOf[w]] = [by |-> w, whole |-> FALSE]]
  /\ UNCHANGED named

Complete(w) ==
  /\ held[TargetOf[w]] = [by |-> w, whole |-> FALSE]
  /\ held' = [held EXCEPT ![TargetOf[w]] = [by |-> w, whole |-> TRUE]]
  /\ UNCHANGED named

\* Startup makes every active claim dirty, so trust is withdrawn per step
\* from any number of targets and gained by at most one.
Withdraw(ts) ==
  /\ named' = [t \in Target |-> IF t \in ts THEN NoWrite ELSE named[t]]
  /\ UNCHANGED held

Trust(t) ==
  /\ named[t] = NoWrite
  /\ held[t].whole
  /\ named' = [named EXCEPT ![t] = held[t].by]
  /\ UNCHANGED held

Next ==
  \/ \E w \in Write : Touch(w) \/ Complete(w)
  \/ \E t \in Target : Trust(t)
  \/ \E ts \in SUBSET Target : Withdraw(ts)

Spec == Init /\ [][Next]_<<named, held>>
=============================================================================
