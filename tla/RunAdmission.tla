---------------------------- MODULE RunAdmission ----------------------------
(***************************************************************************)
(* Which pipeline runs may be active together.                             *)
(*                                                                         *)
(* A demand is what one admitted run asks of the run ledger: the slot keys *)
(* of its pipeline (its path and its stable UUID, store.go runSlotKeys),   *)
(* its isolation mode and the write resources it claims.                   *)
(*   "slot"       no reviewed plan: claimRunSlot alone;                    *)
(*   "pipeline"   a version-two plan with pipeline isolation: the slot and *)
(*                the claims of its plan;                                  *)
(*   "resources"  a version-two plan with resource isolation: its claims.  *)
(* units says whether its plan or selection records execution units.       *)
(***************************************************************************)
EXTENDS FiniteSets

CONSTANTS
  Key,        \* "path:..." and "uuid:..." slot keys
  Resource,   \* kind:identity of a write resource
  Demand      \* the demands the callers of the ledger make

Mode == {"slot", "pipeline", "resources"}
Dispatch == {"river", "inline"}

(* An inline run is admitted without a plan, so it never claims resources. *)
ASSUME DemandAssumption ==
  /\ Demand \subseteq [keys : SUBSET Key, mode : Mode,
                       claims : SUBSET Resource, dispatch : Dispatch,
                       units : BOOLEAN]
  /\ \A d \in Demand : /\ d.keys # {}
                       /\ d.mode = "slot" => d.claims = {}
                       /\ d.dispatch = "inline" => d.mode = "slot"

SamePipeline(d, e) == d.keys \cap e.keys # {}
TakesSlot(d) == d.mode # "resources"
TakesClaimSet(d) == d.mode # "slot"

(***************************************************************************)
(* The exclusion the ledger promises.  Writers of one resource exclude     *)
(* each other whatever their pipelines; on one pipeline (under either of   *)
(* its aliases) a slot run excludes slot runs and resource runs that write.*)
(***************************************************************************)
Compatible(d, e) ==
  /\ d.claims \cap e.claims = {}
  /\ SamePipeline(d, e) =>
       /\ ~(TakesSlot(d) /\ TakesSlot(e))
       /\ TakesSlot(d) => e.claims = {}
       /\ TakesSlot(e) => d.claims = {}
=============================================================================
