----------------------------- MODULE MCBatching -----------------------------
(***************************************************************************)
(* An instance of Batching: m1 looks like an unfinished sentence, so a     *)
(* quiet window alone does not flush it; m2 is plain.  The quiet window is *)
(* shorter than a tick of the clock, the maximal one is a tick.            *)
(***************************************************************************)
EXTENDS Batching

CONSTANTS m1, m2, w1, w2

MCFeatures ==
    [m \in Messages |-> IF m = m1 THEN {"continuation_marker", "open_punctuation"} ELSE {}]

============================================================================
