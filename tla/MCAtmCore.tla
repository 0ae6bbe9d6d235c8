------------------------------- MODULE MCAtmCore -------------------------------
(* Two restart times and four output times after the start. *)
EXTENDS AtmCore
================================================================================
