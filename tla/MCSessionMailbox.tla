-------------------------- MODULE MCSessionMailbox --------------------------
(***************************************************************************)
(* Instances of SessionMailbox.                                            *)
(***************************************************************************)
EXTENDS SessionMailbox

CONSTANTS m1, m2, w1, w2, c1, c2

============================================================================
