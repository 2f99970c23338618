----------------------- MODULE MCScheduleOccurrence ------------------------
(* Instances of ScheduleOccurrence. *)
EXTENDS ScheduleOccurrenceInvariant, TLC

FirstInterval == {<<0, 1>>}
AllPolicies == {"skip", "run_once", "backfill"}
RunSymmetry == Permutations(Run)
=============================================================================
