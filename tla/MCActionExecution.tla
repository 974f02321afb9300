------------------------- MODULE MCActionExecution -------------------------
(***************************************************************************)
(* Instances of ActionExecution for TLC.                                   *)
(***************************************************************************)
EXTENDS ActionExecution

CONSTANTS w1, w2, r1, r2, execute

============================================================================
