------------------------------- MODULE MCMpasClock -----------------------------
(* One alarm is enough: no operation reads one alarm to write another.     *)
EXTENDS MpasClock
================================================================================
