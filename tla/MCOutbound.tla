----------------------------- MODULE MCOutbound -----------------------------
(***************************************************************************)
(* Instance of Outbound: p1 and p2 are the parts of one text, both sent    *)
(* for the task "t"; q is another text under the key of p1.                *)
(***************************************************************************)
EXTENDS Outbound

CONSTANTS p1, p2, q, w1, w2, k1, k2, text, t

MCIdempotencyKey == [m \in Messages |-> IF m = p2 THEN 2 ELSE 1]
MCOrderingKey == [m \in Messages |-> text]
MCPosition == [m \in Messages |-> IF m = p1 THEN 1 ELSE IF m = p2 THEN 2 ELSE 0]
MCReference == [m \in Messages |-> IF m = q THEN NoReference ELSE t]

============================================================================
