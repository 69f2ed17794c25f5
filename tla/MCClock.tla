------------------------------- MODULE MCClock -------------------------------
(* A bounded instance of LumalouClock for TLC: one unit is a minute and the  *)
(* constants are the code's.  It starts on Sunday 10:00, whole hours from the*)
(* power-loss clock, and on Saturday 23:40, where the week wraps around.     *)
EXTENDS LumalouClock
=============================================================================
