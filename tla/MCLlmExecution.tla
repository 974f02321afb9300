--------------------------- MODULE MCLlmExecution ---------------------------
(* An instance of LlmExecution with two workers. *)
EXTENDS LlmExecution

CONSTANTS w1, w2

=============================================================================
