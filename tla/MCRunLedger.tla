---------------------------- MODULE MCRunLedger -----------------------------
(* Instances of RunLedger: one pipeline reached by two paths with one UUID *)
(* (a rename), and a second pipeline that writes one of its resources.     *)
EXTENDS RunLedgerInvariant, TLC

MCDemand ==
  {[keys |-> {"path:a", "uuid:a"}, mode |-> "slot", claims |-> {},
    dispatch |-> "inline", units |-> FALSE],
   [keys |-> {"path:b", "uuid:a"}, mode |-> "slot", claims |-> {},
    dispatch |-> "river", units |-> FALSE],
   [keys |-> {"path:c", "uuid:c"}, mode |-> "pipeline", claims |-> {"table"},
    dispatch |-> "river", units |-> TRUE],
   [keys |-> {"path:a", "uuid:a"}, mode |-> "resources", claims |-> {"table"},
    dispatch |-> "river", units |-> TRUE],
   [keys |-> {"path:a", "uuid:a"}, mode |-> "resources", claims |-> {"view"},
    dispatch |-> "river", units |-> TRUE],
   [keys |-> {"path:a", "uuid:a"}, mode |-> "resources", claims |-> {},
    dispatch |-> "river", units |-> TRUE]}

(* One demand per dispatch, for the questions that are about one run.      *)
MCOneRunDemand == {d \in MCDemand : d.dispatch = "inline" \/ d.mode = "pipeline"}

Symmetry == Permutations(Run)
=============================================================================
