-------------------------- MODULE DialogueContract --------------------------
(***************************************************************************)
(* What a conversation promises about the routing of its inputs, whatever  *)
(* plans, questions, replays and outbound messages do: an input is given   *)
(* to a task once and for good, a finished task stays finished and hears   *)
(* nothing more, and a task hears only inputs that were given to it.       *)
(***************************************************************************)
EXTENDS Naturals

CONSTANTS Inputs, Tasks     \* tasks are positive numbers

VARIABLES
    home,    \* input -> the task it was given to, 0 before
    life,    \* task -> absent, active, closed or cancelled
    said     \* task -> the inputs in its history

vars == <<home, life, said>>

Finished == {"closed", "cancelled"}

Init ==
    /\ home = [i \in Inputs |-> 0]
    /\ life = [t \in Tasks |-> "absent"]
    /\ said = [t \in Tasks |-> {}]

\* One plan gives any number of inputs to tasks, which exist once it is applied.
Give ==
    /\ home' \in [Inputs -> {0} \cup Tasks]
    /\ \A i \in Inputs : home[i] # 0 => home'[i] = home[i]
    /\ life' \in [Tasks -> {"absent", "active"} \cup Finished]
    /\ \A t \in Tasks : /\ life[t] # "absent" => life'[t] # "absent"
                        /\ life[t] \in Finished => life'[t] = life[t]
    /\ \A i \in Inputs : home'[i] # 0 => life'[home'[i]] # "absent"
    /\ said' \in [Tasks -> SUBSET Inputs]
    /\ \A t \in Tasks : /\ said[t] \subseteq said'[t]
                        /\ said'[t] \subseteq {i \in Inputs : home'[i] = t}
                        /\ life[t] \in Finished => said'[t] = said[t]

Spec == Init /\ [][Give]_vars

=============================================================================
