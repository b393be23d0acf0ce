----------------------------- MODULE MCScheduler -----------------------------
(* Instances of Scheduler for TLC: a minute of four seconds with two       *)
(* ticks, three minutes a day, a month of two days, a week of two.        *)
EXTENDS Scheduler
=============================================================================
