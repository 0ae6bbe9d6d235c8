--------------------------- MODULE CheckpointRestart ---------------------------
(***************************************************************************)
(* What a restartable forecast promises, whatever the files and jobs that  *)
(* implement it: an attempt resumes at the newest checkpoint, time inside  *)
(* an attempt only moves forward, the checkpoint a later attempt resumes   *)
(* from never moves back, and the forecast is declared complete only by an *)
(* attempt that is at the last hour.  ForecastRun implements it.           *)
(***************************************************************************)
EXTENDS Naturals

CONSTANTS
  Horizon  (* the last hour of the forecast *)

VARIABLES
  phase,       (* "idle" between attempts, "running", "completed", "abandoned" *)
  hour,        (* forecast hour of the latest attempt                          *)
  checkpoint   (* hour the next attempt resumes from (0: a cold start)         *)

vars == <<phase, hour, checkpoint>>

Init ==
  /\ phase = "idle"
  /\ hour = 0
  /\ checkpoint = 0

Resume ==
  /\ phase = "idle"
  /\ phase' = "running"
  /\ hour' = checkpoint
  /\ UNCHANGED checkpoint

(* One hour of integration; the hour reached may become the checkpoint. *)
Advance ==
  /\ phase = "running"
  /\ hour < Horizon
  /\ hour' = hour + 1
  /\ checkpoint' \in {checkpoint, hour'}
  /\ UNCHANGED phase

(* The attempt dies, with or without another one to follow. *)
Interrupt ==
  /\ phase = "running"
  /\ phase' \in {"idle", "abandoned"}
  /\ UNCHANGED <<hour, checkpoint>>

Complete ==
  /\ phase = "running"
  /\ hour = Horizon
  /\ phase' = "completed"
  /\ UNCHANGED <<hour, checkpoint>>

(* The last job sees no reason, or no way, to start an attempt. *)
GiveUp ==
  /\ phase = "idle"
  /\ phase' = "abandoned"
  /\ UNCHANGED <<hour, checkpoint>>

Next == Resume \/ Advance \/ Interrupt \/ Complete \/ GiveUp

Spec == Init /\ [][Next]_vars
================================================================================
