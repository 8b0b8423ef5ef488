------------------------------ MODULE MCCronExpr ------------------------------
(* The expression "0 0 4 2 *", in a calendar where month 2 of every year has *)
(* two or three days: what "0 0 30 2 *" is in the real one.                  *)
EXTENDS CronExpr

TwoYears == <<0, 4, 6, 10, 14, 17, 21>>
NoSuchDay ==
  {[minute |-> List(<<0>>), hour |-> List(<<0>>), day |-> List(<<4>>), month |-> List(<<2>>),
    weekday |-> Star]}
=============================================================================
