-------------------- MODULE ScheduleOccurrenceInvariant --------------------
(***************************************************************************)
(* The inductive invariant of ScheduleOccurrence: occurrences and runs     *)
(* point at each other.                                                    *)
(***************************************************************************)
EXTENDS ScheduleOccurrence

Live == {"active", "success"}

(* A run belongs to an interval, and the current run of an interval is one *)
(* of its runs.                                                            *)
CurrentIsAttempt ==
  /\ \A r \in Run : run[r].status # "none" => run[r].interval \in Interval
  /\ \A i \in Interval : occ[i].current # NoRun =>
       /\ run[occ[i].current].status # "none"
       /\ run[occ[i].current].interval = i

(* A run that is active or succeeded is the current one, its occurrence    *)
(* says the same, and the other way round.                                 *)
LiveRunIsCurrent ==
  \A r \in Run : run[r].status \in Live =>
    /\ occ[run[r].interval].current = r
    /\ occ[run[r].interval].status = run[r].status

LiveOccurrenceHasRun ==
  \A i \in Interval : occ[i].status \in Live =>
    /\ occ[i].current \in Run
    /\ run[occ[i].current].status = occ[i].status

(* The inductive invariant: the properties below rest on it, because a     *)
(* claim tests the occurrence only and the trigger finds it by its run.    *)
IInv ==
  /\ TypeOK
  /\ CurrentIsAttempt
  /\ LiveRunIsCurrent
  /\ LiveOccurrenceHasRun

-----------------------------------------------------------------------------
(* Catch-up.  What a tick has got does not depend on the watermark, which  *)
(* may go back: from the last catch-up that went through every tick has a  *)
(* signal or a record.                                                     *)

(* A worker beyond the first step has recorded its interval.               *)
Recorded ==
  \A s \in Signal : signal[s] \in {"planning", "blocked", "planned", "admitted"} =>
    occ[s[1]].status # "none"

CatchUpInv ==
  /\ server # "up" => since = -1
  /\ due => server = "up" /\ now > 0
  /\ Recorded
  /\ since >= 0 => CaughtUp(since)

-----------------------------------------------------------------------------
(* Waits.  Beside its due signal an interval of Legacy may have a combined *)
(* job; every other interval has one worker, and what that one has read of *)
(* a wait stays what the wait is.                                          *)
OneWorker ==
  \A s \in Signal : s[2] = "legacy" /\ s[1] \notin Legacy => signal[s] = "none"

WaitSeen ==
  \A s \in Signal :
    /\ s[1] \notin Legacy
    /\ signal[s] \in {"planning", "blocked", "planned"}
    /\ Waits(occ[s[1]])
    => seen[s].frozen = occ[s[1]].frozen

(* A wait is entered for a producer that is deployed. *)
ProducerSelected ==
  /\ \A s \in Signal : signal[s] = "blocked" => plan[s] # 0
  /\ \A i \in Interval : Waits(occ[i]) => occ[i].frozen # 0

ProducerInv == OneWorker /\ WaitSeen /\ ProducerSelected

-----------------------------------------------------------------------------
(* Signals and attempts. *)

(* A pending occurrence has a job that will come back to it; one whose run *)
(* is admitted has done its work.                                          *)
Attended ==
  \A i \in Interval : occ[i].status = "pending" =>
    \E s \in Signal : s[1] = i /\ signal[s] \notin {"none", "admitted"}

(* The occurrence counts the attempts there are, under every number once.  *)
AttemptsCounted ==
  \A i \in Interval :
    /\ IsFiniteSet(Attempts(i)) /\ Cardinality(Attempts(i)) = occ[i].attempts
    /\ {run[r].attempt : r \in Attempts(i)} = 1..occ[i].attempts
    /\ occ[i].status = "none" => occ[i].attempts = 0
=============================================================================
