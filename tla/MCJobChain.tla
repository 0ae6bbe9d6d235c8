------------------------------ MODULE MCJobChain ------------------------------
(***************************************************************************)
(* Instances of JobChain: two cycles, two runs of a script, two faults.    *)
(***************************************************************************)
EXTENDS JobChain
================================================================================
