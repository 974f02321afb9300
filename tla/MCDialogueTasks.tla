-------------------------- MODULE MCDialogueTasks --------------------------
\* Two people, four inputs, two tasks, plans of up to two routes, one question
\* with two generations and one message: enough for a question to be refreshed
\* after its message was confirmed, and answered by someone else's reply to it.
EXTENDS DialogueTasks, TLC

CONSTANTS i1, i2, i3, i4, m1, alice, bob

MCActor == i1 :> alice @@ i2 :> alice @@ i3 :> alice @@ i4 :> bob

============================================================================
