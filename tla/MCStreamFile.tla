------------------------------ MODULE MCStreamFile -----------------------------
(* Files of two, three and all records; runs resume inside and between them. *)
EXTENDS StreamFile
================================================================================
