-------------------------- MODULE MCCodexAppServer --------------------------
(***************************************************************************)
(* One caller sends, captures and pauses, as an execution does; the other  *)
(* aborts its session and shuts the backend down.                          *)
(***************************************************************************)
EXTENDS CodexAppServer

CONSTANTS c1, c2

MCUses == [c \in Callers |-> IF c = c1 THEN {"send", "capture", "find"} ELSE {"cut", "shutdown"}]

=============================================================================
