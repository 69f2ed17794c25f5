------------------------------ MODULE MCRoutine ------------------------------
(* Bounded instances of LumalouRoutine for TLC.                               *)
EXTENDS LumalouRoutine
=============================================================================
