---------------------------- MODULE MCAgentQueue ----------------------------
(***************************************************************************)
(* An instance of AgentQueue for TLC.                                      *)
(***************************************************************************)
EXTENDS AgentQueue

CONSTANTS k1, w1, w2

\* An urgent request and a scheduled one of a later priority.
MCRequests == {[priority |-> 1, delay |-> 0, body |-> "a"],
               [priority |-> 2, delay |-> 1, body |-> "b"]}

\* All workers poll the same recipient.
MCSharedScope == [w \in Workers |-> Keys]

============================================================================
