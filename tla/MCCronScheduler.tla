-------------------------- MODULE MCCronScheduler --------------------------
(***************************************************************************)
(* Instances of CronScheduler: a recurring job, a one-shot job and a job   *)
(* whose stored schedule is broken, in a zone without and with a fold.     *)
(***************************************************************************)
EXTENDS CronScheduler

CONSTANTS recurring, once, broken, w1, w2

MCAnchor == [j \in Jobs |-> IF j = recurring THEN 0 ELSE 1]
MCRule == [j \in Jobs |-> IF j = recurring THEN {0, 2, 3} \cap LocalTimes ELSE {}]
MCInvalid == Jobs \cap {broken}
MCLocalTime == [t \in Timestamps |-> t]

\* w2 serves the tenant of the recurring job only.
MCScope == [w \in Workers |-> IF w = w2 THEN Jobs \cap {recurring} ELSE Jobs]

\* Clocks go back at timestamp 3: local times 1 and 2 happen twice.
MCFold == [t \in Timestamps |-> IF t < 3 THEN t ELSE t - 2]

============================================================================
