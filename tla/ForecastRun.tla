------------------------------ MODULE ForecastRun ------------------------------
(***************************************************************************)
(* The forecast stage of one cycle: the two consecutive Slurm jobs that    *)
(* execute operational/run.mpas.sh, and the MPAS process each starts, with *)
(* the files they share in the cycle's run directory.  A job may be killed *)
(* at any point (time limit, model abort) or lose a node, in which case    *)
(* Slurm requeues it; what the next attempt does depends only on the files *)
(* it finds.                                                               *)
(*                                                                         *)
(* A file is "absent", "partial" (created, not yet synced), "good", or     *)
(* "bad": complete, but computed from a restart file that was not good.    *)
(* The hour is the unit of time: files are written on the hour only.       *)
(***************************************************************************)
EXTENDS Integers, FiniteSets

CONSTANTS
  Horizon,          (* MPAS_FORECAST_LENGTH_HOURS                              *)
  RestartInterval,  (* hours between restart files (streams.atmosphere)        *)
  RangeUnit,        (* the shell rounds the restart hour down to a multiple    *)
  FgatHour,         (* the restart file handed to data assimilation            *)
  NumJobs,          (* run.mpas.sh jobs that start.mpas chains                 *)
  MaxFailures       (* bound: kills, aborts and node failures in a behaviour   *)

RestartHours == {h \in 1..Horizon : h % RestartInterval = 0}

ASSUME ParameterAssumption ==
  /\ Horizon \in Nat /\ RestartInterval \in Nat \ {0} /\ RangeUnit \in Nat \ {0}
  /\ NumJobs \in Nat \ {0} /\ MaxFailures \in Nat

(* 3 < 9 < 240: the first, the handed over and the last restart file differ. *)
ASSUME RestartHoursAssumption ==
  /\ {RestartInterval, FgatHour, Horizon} \subseteq RestartHours
  /\ RestartInterval < FgatHour /\ FgatHour < Horizon
  /\ \A h \in RestartHours : RestartInterval <= h /\ (h \div RangeUnit) * RangeUnit = h

Hours == 0..Horizon
FileStates == {"absent", "partial", "good", "bad"}

VARIABLES
  init,      (* the INIT file of the cycle exists                              *)
  mpas,      (* the hourly MPAS.*.nc output files                              *)
  rstr,      (* the RSTR.*.nc restart files                                    *)
  mtime,     (* their modification times                                       *)
  now,       (* wall-clock ticks: one per restart file created                 *)
  fgat,      (* the restart file in the assimilation directory                 *)
  ok,        (* the OK.MPAS flag file                                          *)
  log,       (* log.atmosphere.0000.out holds the "Finished running" line      *)
  job,       (* which of the chained jobs is current                           *)
  pc,        (* where it is                                                    *)
  clock,     (* hour the model has reached                                     *)
  stop,      (* hour this attempt integrates to                                *)
  tainted,   (* the model state comes from a restart file that was not good    *)
  failures   (* history: failures so far                                       *)

VARIABLE resumed  (* history: hours at which an attempt was warm-started *)

files  == <<init, mpas, rstr, mtime, now, fgat, ok, log>>
model  == <<clock, stop, tainted>>
vars   == <<files, model, job, pc, failures, resumed>>

ModelPhases == {"integrating", "writingRestart", "restartWritten", "writingOutput"}
Running     == pc \in ModelPhases \cup {"returned", "moved"}

OnDisk == {h \in RestartHours : rstr[h] # "absent"}

(* Mutant of IsNewest: ls -t1 instead of ls -rt1. *)
IsOldest(h) == h \in OnDisk /\ \A g \in OnDisk : mtime[h] <= mtime[g]

(* ls -rt1 RSTR.*.nc | tail -1 *)
IsNewest(h) == h \in OnDisk /\ \A g \in OnDisk : mtime[g] <= mtime[h]

AllOutputsPresent == \A t \in Hours : mpas[t] # "absent"

(* Only with more than one restart file is a warm start attempted. *)
SeveralOnDisk == \E g, h \in OnDisk : g # h

(* Mutants of RunLength: the length not reduced, and one hour too short. *)
FullRunLength(h)  == Horizon
ShortRunLength(h) == Horizon - h - 1

(* Hours a warm start at h integrates: the shell's integer arithmetic. *)
RunLength(h) == Horizon - (h \div RangeUnit) * RangeUnit
--------------------------------------------------------------------------------
Init ==
  /\ init \in BOOLEAN
  /\ mpas = [t \in Hours |-> "absent"]
  /\ rstr = [h \in RestartHours |-> "absent"]
  /\ mtime = [h \in RestartHours |-> 0]
  /\ now = 0
  /\ fgat = "absent"
  /\ ok = FALSE
  /\ log = FALSE
  /\ job = 1
  /\ pc = "pending"
  /\ clock = 0
  /\ stop = Horizon
  /\ tainted = FALSE
  /\ failures = 0
  /\ resumed = {}

(* A job that ended, however it ended, lets the next one start (afterany). *)
EndJob ==
  IF job < NumJobs
  THEN job' = job + 1 /\ pc' = "pending"
  ELSE pc' = "ended" /\ UNCHANGED job

(* Nothing to do: the flag is there, or all the output files are. *)
AlreadyDone ==
  /\ pc = "pending"
  /\ ok \/ AllOutputsPresent
  /\ EndJob
  /\ UNCHANGED <<files, model, failures, resumed>>

NoInitFile ==
  /\ pc = "pending"
  /\ ~ (ok \/ AllOutputsPresent)
  /\ ~ init
  /\ EndJob
  /\ UNCHANGED <<files, model, failures, resumed>>

(* Mutant of MayColdStart: a cold start only where there is no restart file. *)
MayColdStartIfNone == init /\ OnDisk = {}

MayColdStart == init /\ ~ SeveralOnDisk

(* A cold start opens the first output file at hour 0; the restart alarm   *)
(* is silenced there.                                                      *)
ColdStart ==
  /\ pc = "pending"
  /\ ~ (ok \/ AllOutputsPresent)
  /\ MayColdStart
  /\ log' = FALSE
  /\ clock' = 0
  /\ stop' = Horizon
  /\ tainted' = FALSE
  /\ mpas' = [mpas EXCEPT ![0] = "partial"]
  /\ pc' = "writingOutput"
  /\ UNCHANGED <<init, rstr, mtime, now, fgat, ok, job, failures, resumed>>

(* A warm start resumes at the newest restart file, whatever is in it; the *)
(* output alarm is silenced at that hour.                                  *)
WarmStart ==
  /\ pc = "pending"
  /\ ~ (ok \/ AllOutputsPresent)
  /\ init
  /\ SeveralOnDisk
  /\ \E h \in OnDisk :
       /\ IsNewest(h)
       /\ clock' = h
       /\ stop' = h + RunLength(h)
       /\ tainted' = (rstr[h] # "good")
       /\ resumed' = resumed \cup {h}
  /\ log' = FALSE
  /\ pc' = "integrating"
  /\ UNCHANGED <<init, mpas, rstr, mtime, now, fgat, ok, job, failures>>

Synced == IF tainted THEN "bad" ELSE "good"

(* Integrate to the next hour and create the first file due there: the     *)
(* immutable restart stream is written before the output stream.           *)
IntegrateHour ==
  /\ pc = "integrating"
  /\ clock < stop
  /\ clock' = clock + 1
  /\ \/ /\ clock' \in RestartHours
        /\ rstr' = [rstr EXCEPT ![clock'] = "partial"]
        /\ mtime' = [mtime EXCEPT ![clock'] = now + 1]
        /\ now' = now + 1
        /\ pc' = "writingRestart"
        /\ UNCHANGED mpas
     \/ /\ clock' \notin RestartHours
        /\ mpas' = [mpas EXCEPT ![clock'] = "partial"]
        /\ pc' = "writingOutput"
        /\ UNCHANGED <<rstr, mtime, now>>
  /\ UNCHANGED <<init, fgat, ok, log, stop, tainted, job, failures, resumed>>

SyncRestart ==
  /\ pc = "writingRestart"
  /\ rstr' = [rstr EXCEPT ![clock] = Synced]
  /\ pc' = "restartWritten"
  /\ UNCHANGED <<init, mpas, mtime, now, fgat, ok, log, model, job, failures, resumed>>

CreateOutput ==
  /\ pc = "restartWritten"
  /\ mpas' = [mpas EXCEPT ![clock] = "partial"]
  /\ pc' = "writingOutput"
  /\ UNCHANGED <<init, rstr, mtime, now, fgat, ok, log, model, job, failures, resumed>>

SyncOutput ==
  /\ pc = "writingOutput"
  /\ mpas' = [mpas EXCEPT ![clock] = Synced]
  /\ pc' = "integrating"
  /\ UNCHANGED <<init, rstr, mtime, now, fgat, ok, log, model, job, failures, resumed>>

(* Mutant of ModelFinishes: the loop stops one step early. *)
ModelFinishesEarly ==
  /\ pc = "integrating"
  /\ clock >= stop - 1
  /\ log' = TRUE
  /\ pc' = "returned"
  /\ UNCHANGED <<init, mpas, rstr, mtime, now, fgat, ok, model, job, failures, resumed>>

ModelFinishes ==
  /\ pc = "integrating"
  /\ clock >= stop
  /\ log' = TRUE
  /\ pc' = "returned"
  /\ UNCHANGED <<init, mpas, rstr, mtime, now, fgat, ok, model, job, failures, resumed>>

(* Mutant of MoveRestart: the old file is removed before the new one is    *)
(* looked for.                                                             *)
MoveRestartAfterRm ==
  /\ fgat' = rstr[FgatHour]
  /\ rstr' = [rstr EXCEPT ![FgatHour] = "absent"]

(* mv the restart file of hour FgatHour, if it is there. *)
MoveRestart ==
  \/ /\ rstr[FgatHour] # "absent"
     /\ fgat' = rstr[FgatHour]
     /\ rstr' = [rstr EXCEPT ![FgatHour] = "absent"]
  \/ /\ rstr[FgatHour] = "absent"
     /\ UNCHANGED <<fgat, rstr>>

(* Mutant of Finished: the exit status of a command that always succeeds. *)
AlwaysFinished == TRUE

(* grep "Finished running the atmosphere core" *)
Finished == log

HandOver ==
  /\ pc = "returned"
  /\ Finished
  /\ MoveRestart
  /\ pc' = "moved"
  /\ UNCHANGED <<init, mpas, mtime, now, ok, log, model, job, failures, resumed>>

(* Mutant of ReportFailure: the job asks to be run again. *)
RequeueOnFailure ==
  /\ pc = "returned"
  /\ ~ Finished
  /\ pc' = "pending"
  /\ UNCHANGED <<files, model, job, failures, resumed>>

ReportFailure ==
  /\ pc = "returned"
  /\ ~ Finished
  /\ EndJob
  /\ UNCHANGED <<files, model, failures, resumed>>

TouchOK ==
  /\ pc = "moved"
  /\ ok' = TRUE
  /\ EndJob
  /\ UNCHANGED <<init, mpas, rstr, mtime, now, fgat, log, model, failures, resumed>>
--------------------------------------------------------------------------------
(* A model that started from a damaged restart file may abort at any time, *)
(* any other abort counts as a failure.                                    *)
ModelAborts ==
  /\ pc \in ModelPhases
  /\ \/ tainted /\ UNCHANGED failures
     \/ failures < MaxFailures /\ failures' = failures + 1
  /\ pc' = "returned"
  /\ UNCHANGED <<files, model, job, resumed>>

(* The time limit ends the job; Slurm does not requeue it. *)
TimeLimit ==
  /\ Running
  /\ failures < MaxFailures
  /\ failures' = failures + 1
  /\ EndJob
  /\ UNCHANGED <<files, model, resumed>>

(* A lost node makes Slurm run the same job again (--requeue). *)
NodeFails ==
  /\ Running
  /\ failures < MaxFailures
  /\ failures' = failures + 1
  /\ pc' = "pending"
  /\ UNCHANGED <<files, model, job, resumed>>

Step ==
  \/ AlreadyDone \/ NoInitFile \/ ColdStart \/ WarmStart
  \/ IntegrateHour \/ SyncRestart \/ CreateOutput \/ SyncOutput
  \/ ModelFinishes \/ HandOver \/ ReportFailure \/ TouchOK

Next == Step \/ ModelAborts \/ TimeLimit \/ NodeFails

Spec == Init /\ [][Next]_vars /\ WF_vars(Step)
--------------------------------------------------------------------------------
TypeOK ==
  /\ init \in BOOLEAN
  /\ mpas \in [Hours -> FileStates]
  /\ rstr \in [RestartHours -> FileStates]
  /\ mtime \in [RestartHours -> Nat]
  /\ now \in Nat
  /\ fgat \in FileStates
  /\ ok \in BOOLEAN
  /\ log \in BOOLEAN
  /\ job \in 1..NumJobs
  /\ pc \in ModelPhases \cup {"pending", "returned", "moved", "ended"}
  /\ clock \in Hours
  /\ stop = Horizon
  /\ tainted \in BOOLEAN
  /\ failures \in 0..MaxFailures
  /\ resumed \subseteq RestartHours

Complete(state) == state \in {"good", "bad"}

(* The script trusts modification times (ls -rt1): whatever was truncated  *)
(* and rewritten by earlier attempts, the newest file is always the one of *)
(* the latest forecast hour.                                               *)
NewestIsLatest ==
  \A g, h \in OnDisk : g < h => mtime[g] < mtime[h]

(* Once the run is declared complete, an output file can only be missing   *)
(* or truncated at an hour where some attempt was warm-started.            *)
HolesOnlyWhereResumed ==
  ok => \A t \in Hours \ resumed : Complete(mpas[t])

(* A run declared complete whose last attempt started from sound data has  *)
(* produced only sound files, and data assimilation has its restart file.  *)
CleanCompletion ==
  ok /\ ~ tainted => /\ \A t \in Hours \ resumed : mpas[t] = "good"
                     /\ fgat = "good"

(* Crash recovery rests on this: once there are two restart files, no good *)
(* one is ever truncated again; it stays, or is handed over intact.        *)
CheckpointsSurvive ==
  [][SeveralOnDisk =>
       \A h \in RestartHours : rstr[h] = "good" =>
         \/ rstr'[h] = "good"
         \/ h = FgatHour /\ fgat' = "good"]_vars

(* The restart file handed to data assimilation is never replaced or lost. *)
HandOverIsFinal ==
  [][fgat # "absent" => fgat' = fgat]_vars

(* The chain of jobs always comes to an end. *)
Termination == <>(pc = "ended")

NewestDamaged == SeveralOnDisk /\ \E h \in OnDisk : IsNewest(h) /\ rstr[h] # "good"

(* When failures cease, a job that is about to start with the INIT file    *)
(* and an undamaged newest restart file brings the run to completion, or   *)
(* finds all the output files.                                             *)
RecoversWhenFailuresCease ==
  (pc = "pending" /\ init /\ ~ NewestDamaged /\ failures = MaxFailures)
    ~> (ok \/ AllOutputsPresent)

Phase ==
  CASE ok             -> "completed"
    [] ~ok /\ Running -> "running"
    [] ~ok /\ pc = "pending" -> "idle"
    [] OTHER          -> "abandoned"

(* The hour a warm start would resume from, 0 where the start would be cold. *)
NewestHour == CHOOSE h \in OnDisk : IsNewest(h)
Checkpoint == IF SeveralOnDisk THEN NewestHour ELSE 0

(* The two jobs together behave as one restartable forecast. *)
Abstract == INSTANCE CheckpointRestart
              WITH phase <- Phase, hour <- clock, checkpoint <- Checkpoint
ImplementsCheckpointRestart == Abstract!Spec

(* mpas_atm_core.F:663 silences the output alarm of a restart run "to      *)
(* avoid overwriting those from the preceding run": it takes for granted   *)
(* that the preceding run wrote the output of the hour it resumes from.    *)
ResumedOutputWasWritten ==
  ok => \A t \in resumed : Complete(mpas[t])

(* run.mpas.sh:211 promises the restart file of FgatHour "after successful *)
(* MPAS completion": when the chain is over and every output is complete,  *)
(* the file has been moved.                                                *)
HandedOverAfterCompletion ==
  pc = "ended" /\ init /\ (\A t \in Hours : Complete(mpas[t])) => fgat # "absent"
================================================================================
