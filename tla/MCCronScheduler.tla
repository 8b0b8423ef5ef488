--------------------------- MODULE MCCronScheduler ---------------------------
(* Instances of CronScheduler.                                              *)
EXTENDS CronScheduler

At(t) == [kind |-> "at", t |-> t]
Every(t) == [kind |-> "every", t |-> t]

MixedSchedules == {At(2), Every(1)}
EverySchedules == {Every(1)}
=============================================================================
