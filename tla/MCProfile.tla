------------------------------ MODULE MCProfile ------------------------------
(* Bounded instances of LumalouProfile for TLC; the .cfg files choose the     *)
(* calls users make and the number of faults.                                 *)
EXTENDS LumalouProfile
=============================================================================
