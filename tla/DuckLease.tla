----------------------------- MODULE DuckLease -----------------------------
(***************************************************************************)
(* What the DuckDB coordinator promises its callers (duckcoord, the        *)
(* comments of Acquire and Lease): a caller holds all the database files   *)
(* it asked for or none of them, and no file is held by two callers,       *)
(* whatever process they live in.  DuckCoordinator implements it; the      *)
(* session manager is composed with it.                                    *)
(***************************************************************************)
CONSTANTS Path,      \* canonical paths of local DuckDB files
          Caller     \* goroutines, of any process, that call Acquire

VARIABLE lease       \* the files each caller owns

LeaseType == lease \in [Caller -> SUBSET Path]

Init == lease = [c \in Caller |-> {}]

\* Acquire returns a lease on ps.
Grant(c, ps) ==
  /\ lease[c] = {}
  /\ ps # {}
  /\ \A d \in Caller : lease[d] \cap ps = {}
  /\ lease' = [lease EXCEPT ![c] = ps]

\* One lease is released, or those of a whole process when it dies.
Return(cs) == lease' = [c \in Caller |-> IF c \in cs THEN {} ELSE lease[c]]

Next ==
  \/ \E c \in Caller, ps \in SUBSET Path : Grant(c, ps)
  \/ \E cs \in SUBSET Caller : Return(cs)

Spec == Init /\ [][Next]_lease

(***************************************************************************)
(* No database file is leased to two callers: the reason the coordinator   *)
(* exists (a local DuckDB file may be opened for writing by one process).  *)
(***************************************************************************)
Exclusive ==
  \A c, d \in Caller : c # d => lease[c] \cap lease[d] = {}
=============================================================================
