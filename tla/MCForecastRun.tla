----------------------------- MODULE MCForecastRun -----------------------------
(***************************************************************************)
(* Instance of ForecastRun for TLC: nine hours with restart files at hours *)
(* 3, 6 and 9 (of which 6 is handed over) keep the shape of the real       *)
(* 240-hour run with files every 3 hours and hour 9 handed over.           *)
(***************************************************************************)
EXTENDS ForecastRun
================================================================================
