--------------------------- MODULE MCCostGateway ---------------------------
(***************************************************************************)
(* Instances of CostGateway for TLC.                                       *)
(***************************************************************************)
EXTENDS CostGateway, TLC

CONSTANTS o1, o2, pa, pb, task

\* The task's limit is the narrower one and covers one of the two operations.
Scopes == (Platform :> Operation) @@ (task :> {o1})
Caps   == (Platform :> 3) @@ (task :> 2)

Estimates == (pa :> 1) @@ (pb :> 2)

Deltas == {1}
=============================================================================
