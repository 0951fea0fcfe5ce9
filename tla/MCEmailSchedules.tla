------------------------------ MODULE MCEmailSchedules ------------------------------
(* Instances of EmailSchedules for TLC: hours of four ticks, beat at tick 1,  *)
(* and crontabs that fire before and after beat, close together and on both   *)
(* sides of the end of an hour.                                               *)
EXTENDS EmailSchedules

CONSTANTS a, f1, f2

OneSchedule == {a}
OneForm == {f1}
TwoForms == {f1, f2}

SomeCrontabs == {{0}, {1, 3}, {0, 1, 2, 3}}
LastAndFirst == {{0, 3}}
=============================================================================
