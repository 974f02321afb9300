------------------------- MODULE MCPlannerDispatch -------------------------
(***************************************************************************)
(* An instance of PlannerDispatch in the middle of a deployment: w1 still  *)
(* runs the old version, w2 already the new one; w3 runs the old one, too. *)
(***************************************************************************)
EXTENDS PlannerDispatch

CONSTANTS w1, w2, w3, v1, v2, d1, d2

MCVersion == [w \in Workers |-> IF w = w2 THEN v2 ELSE v1]

=============================================================================
