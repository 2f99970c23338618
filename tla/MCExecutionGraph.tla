------------------------- MODULE MCExecutionGraph --------------------------
(***************************************************************************)
(* Instances of ExecutionGraph: graphs of three units in which a diamond,  *)
(* a shared resource, a limited connection and an exclusive unit occur.    *)
(***************************************************************************)
EXTENDS ExecutionGraphInvariant, TLC

CONSTANTS Warehouse, Table

NoneEach == [u \in Unit |-> {}]
Plain == [deps |-> NoneEach, connections |-> NoneEach,
          resources |-> NoneEach, exclusive |-> {}]

(* 0 and 1 write one table, 2 depends on 0. *)
Writers == [Plain EXCEPT !.deps = [u \in Unit |-> IF u = 2 THEN {0} ELSE {}],
                         !.resources = [u \in Unit |-> IF u < 2 THEN {Table} ELSE {}]]
(* 1 and 2 share a connection. *)
Readers == [Plain EXCEPT !.connections = [u \in Unit |-> IF u > 0 THEN {Warehouse} ELSE {}]]
(* 0 is exclusive, 1 and 2 are independent of it. *)
Alone == [Plain EXCEPT !.exclusive = {0}]
(* 1 depends on 0, 2 on 1: failures reach 2 in two steps. *)
Chain == [Plain EXCEPT !.deps = [u \in Unit |-> IF u = 0 THEN {} ELSE {u - 1}]]
(* 2 depends on 0 and 1. *)
Join == [Plain EXCEPT !.deps = [u \in Unit |-> IF u = 2 THEN {0, 1} ELSE {}]]

AllGraphs == {Writers, Readers, Alone, Chain, Join}
FanGraphs == {Plain}
(* Runs are interchangeable when they choose among the same graphs. *)
RunSymmetry == Permutations(Run)

WarehouseLimit == [c \in {Warehouse} |-> 1]
=============================================================================
