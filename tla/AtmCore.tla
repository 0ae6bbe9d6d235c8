--------------------------------- MODULE AtmCore -------------------------------
(***************************************************************************)
(* The run loop of the atmosphere core (core_atmosphere/mpas_atm_core.F),  *)
(* with the alarms of its two output streams, the files they write and the *)
(* restart_timestamp file, over successive attempts that may crash between *)
(* any two steps.  An attempt starts at the time in restart_timestamp      *)
(* (config_start_time = 'file') if there is one, else from the beginning.  *)
(*                                                                         *)
(* Each file holds one record (filename_interval is the output interval),  *)
(* StreamFile has the others; the mode "append" is left to it too.         *)
(***************************************************************************)
EXTENDS Alarms, Sequences

CONSTANTS
  Horizon,          (* config_stop_time; the unit is the time step, config_dt  *)
  RestartInterval,  (* output_interval of the restart stream                   *)
  OutputInterval,   (* output_interval of the output stream                    *)
  Modes,            (* clobber modes considered                                *)
  MaxFailures       (* bound: crashes and failing writes                       *)

(* The output interval divides the restart interval, so that a resumed     *)
(* attempt, whose alarms count from its own start, goes on with the times  *)
(* of the one before; both are whole numbers of time steps.                *)
ASSUME AtmCoreAssumption ==
  /\ Horizon \in Nat /\ MaxFailures \in Nat
  /\ OutputInterval \in Nat \ {0}
  /\ RestartInterval \in Nat \ {0} /\ RestartInterval % OutputInterval = 0
  /\ Modes \subseteq {"never_modify", "replace_files", "overwrite"}

Times == 0 .. Horizon

(* The immutable restart stream comes first. *)
StreamOrder == <<"restart", "output">>
StreamNames == {"restart", "output"}
IntervalOf(x) == IF x = "restart" THEN RestartInterval ELSE OutputInterval

VARIABLES
  mode,      (* clobber mode of each stream                                    *)
  disk,      (* state of the file of each stream and time                      *)
  stamp,     (* the time in restart_timestamp: a set of one, or none if the    *)
             (* file is missing or empty                                       *)
  pc,        (* "down", "output", "writing", "stamping", "stepping", "finished"*)
  clock,
  start,     (* start time of the attempt                                      *)
  alarm,     (* output alarm of each stream                                    *)
  at,        (* position in StreamOrder                                        *)
  ierr,      (* what mpas_stream_mgr_write will return                         *)
  failures,  (* history: number of failures                                    *)
  resumed    (* history: times at which attempts resumed                       *)

process == <<pc, clock, start, alarm, at, ierr>>
files   == <<disk, stamp>>
vars    == <<mode, files, process, failures, resumed>>

--------------------------------------------------------------------------------
(* stream_mgr_add_alarm_c; the reference time is the start time. *)
AddedAlarm(x, s) == AdjustAlarm("forward", s, s, NewAlarm("forward", s, IntervalOf(x)))

(* MPAS_stream_mgr_reset_alarms *)
Silenced(a, now) ==
  IF IsRinging("forward", now, a, 0) THEN ResetAlarm("forward", now, a, 0) ELSE a

(* Mutant of InitialAlarm: the initial output is not silenced on restarts. *)
InitialAlarmAlways(x, s, doRestart) ==
  IF x = "restart" THEN Silenced(AddedAlarm(x, s), s) ELSE AddedAlarm(x, s)

(* No restart file at the start of a run, no output at the start of a      *)
(* resumed one.                                                            *)
InitialAlarm(x, s, doRestart) ==
  IF x = "restart" \/ doRestart THEN Silenced(AddedAlarm(x, s), s) ELSE AddedAlarm(x, s)

Init ==
  /\ mode \in [StreamNames -> Modes]
  /\ disk = [x \in StreamNames |-> [t \in Times |-> "absent"]]
  /\ stamp = {}
  /\ pc = "down" /\ clock = 0 /\ start = 0 /\ at = 1 /\ ierr = "noerr"
  /\ alarm = [x \in StreamNames |-> AddedAlarm(x, 0)]
  /\ failures = 0 /\ resumed = {}

Begin(s, doRestart) ==
  /\ pc' = "output" /\ clock' = s /\ start' = s /\ at' = 1 /\ ierr' = "noerr"
  /\ alarm' = [x \in StreamNames |-> InitialAlarm(x, s, doRestart)]
  /\ UNCHANGED <<mode, files, failures>>

LaunchCold == pc = "down" /\ stamp = {} /\ Begin(0, FALSE) /\ UNCHANGED resumed

(* A restart needs a whole restart file. *)
LaunchFromStamp ==
  /\ pc = "down"
  /\ \E s \in stamp :
       /\ disk["restart"][s] = "whole"
       /\ Begin(s, TRUE)
       /\ resumed' = resumed \cup {s}
--------------------------------------------------------------------------------
(* mpas_stream_mgr_write: the streams one after the other. *)
Stream     == StreamOrder[at]
Ringing(x) == IsRinging("forward", clock, alarm[x], 0)
Due        == pc = "output" /\ at <= Len(StreamOrder) /\ Ringing(Stream)
Refused    == mode[Stream] = "never_modify" /\ disk[Stream][clock] # "absent"

SkipStream ==
  /\ pc = "output" /\ at <= Len(StreamOrder) /\ ~ Ringing(Stream)
  /\ at' = at + 1
  /\ UNCHANGED <<mode, files, pc, clock, start, alarm, ierr, failures, resumed>>

RefuseStream ==
  /\ Due /\ Refused
  /\ ierr' = "clobber" /\ at' = at + 1
  /\ UNCHANGED <<mode, files, pc, clock, start, alarm, failures, resumed>>

(* A file that may be overwritten keeps its record until it is written. *)
OpenStream ==
  /\ Due /\ ~ Refused
  /\ pc' = "writing"
  /\ disk' = IF mode[Stream] = "overwrite" /\ disk[Stream][clock] # "absent" THEN disk
             ELSE [disk EXCEPT ![Stream][clock] = "partial"]
  /\ UNCHANGED <<mode, stamp, clock, start, alarm, at, ierr, failures, resumed>>

CloseStream ==
  /\ pc = "writing"
  /\ disk' = [disk EXCEPT ![Stream][clock] = "whole"]
  /\ pc' = "output" /\ at' = at + 1
  /\ UNCHANGED <<mode, stamp, clock, start, alarm, ierr, failures, resumed>>

(* Mutant of FailStream: the error is returned for the last stream only. *)
FailLastStream ==
  /\ (Due /\ ~ Refused) \/ pc = "writing"
  /\ failures < MaxFailures
  /\ disk' = IF pc = "writing" THEN [disk EXCEPT ![Stream][clock] = "partial"] ELSE disk
  /\ ierr' = IF at = Len(StreamOrder) THEN "error" ELSE ierr
  /\ pc' = "output" /\ at' = at + 1
  /\ failures' = failures + 1
  /\ UNCHANGED <<mode, stamp, clock, start, alarm, resumed>>

(* Opening or writing fails; the other streams are written all the same.   *)
FailStream ==
  /\ (Due /\ ~ Refused) \/ pc = "writing"
  /\ failures < MaxFailures
  /\ disk' = IF pc = "writing" THEN [disk EXCEPT ![Stream][clock] = "partial"] ELSE disk
  /\ ierr' = "error"
  /\ pc' = "output" /\ at' = at + 1
  /\ failures' = failures + 1
  /\ UNCHANGED <<mode, stamp, clock, start, alarm, resumed>>
--------------------------------------------------------------------------------
(* After the streams.  The alarms still ring. *)
Written     == pc = "output" /\ at > Len(StreamOrder)
ResetAlarms == alarm' = [x \in StreamNames |-> Silenced(alarm[x], clock)]

(* An error that is not a refusal to clobber aborts the model. *)
Abort ==
  /\ Written /\ ierr = "error"
  /\ pc' = "down"
  /\ UNCHANGED <<mode, files, clock, start, alarm, at, ierr, failures, resumed>>

(* Inside the loop, when it is time for a restart, whatever became of it.  *)
StampDue == clock > start /\ Ringing("restart")

(* Mutant of OpenStamp: errors are not looked at. *)
OpenStampAnyway ==
  /\ Written /\ StampDue
  /\ stamp' = {}
  /\ pc' = "stamping"
  /\ UNCHANGED <<mode, disk, clock, start, alarm, at, ierr, failures, resumed>>

OpenStamp ==
  /\ Written /\ ierr # "error" /\ StampDue
  /\ stamp' = {}
  /\ pc' = "stamping"
  /\ UNCHANGED <<mode, disk, clock, start, alarm, at, ierr, failures, resumed>>

WriteStamp ==
  /\ pc = "stamping"
  /\ stamp' = {clock}
  /\ ResetAlarms
  /\ pc' = "stepping"
  /\ UNCHANGED <<mode, disk, clock, start, at, ierr, failures, resumed>>

NoStamp ==
  /\ Written /\ ierr # "error" /\ ~ StampDue
  /\ ResetAlarms
  /\ pc' = "stepping"
  /\ UNCHANGED <<mode, files, clock, start, at, ierr, failures, resumed>>

(* Mutant of Step: the stop time is looked at too late. *)
StepPastStop ==
  /\ pc = "stepping" /\ clock <= Horizon
  /\ clock' = clock + 1
  /\ pc' = "output" /\ at' = 1 /\ ierr' = "noerr"
  /\ UNCHANGED <<mode, files, start, alarm, failures, resumed>>

(* A time step, and the clock advances before output is written. *)
Step ==
  /\ pc = "stepping" /\ clock < Horizon
  /\ clock' = clock + 1
  /\ pc' = "output" /\ at' = 1 /\ ierr' = "noerr"
  /\ UNCHANGED <<mode, files, start, alarm, failures, resumed>>

Finish ==
  /\ pc = "stepping" /\ clock >= Horizon
  /\ pc' = "finished"
  /\ UNCHANGED <<mode, files, clock, start, alarm, at, ierr, failures, resumed>>

(* A crash in a write may leave part of a record where a whole one was.    *)
Crash ==
  /\ pc \notin {"down", "finished"} /\ failures < MaxFailures
  /\ \/ UNCHANGED disk
     \/ pc = "writing" /\ disk' = [disk EXCEPT ![Stream][clock] = "partial"]
  /\ pc' = "down"
  /\ failures' = failures + 1
  /\ UNCHANGED <<mode, stamp, clock, start, alarm, at, ierr, resumed>>

Proceed ==
  \/ LaunchCold \/ LaunchFromStamp
  \/ SkipStream \/ RefuseStream \/ OpenStream \/ CloseStream
  \/ Abort \/ OpenStamp \/ WriteStamp \/ NoStamp \/ Step \/ Finish

Next == Proceed \/ FailStream \/ Crash

Spec     == Init /\ [][Next]_vars
FairSpec == Spec /\ WF_vars(Proceed)
--------------------------------------------------------------------------------
AlarmType == [recurring : BOOLEAN, isSet : BOOLEAN, ringTime : Int, interval : Nat, prev : Int]

TypeOK ==
  /\ mode \in [StreamNames -> Modes]
  /\ disk \in [StreamNames -> [Times -> {"absent", "partial", "whole"}]]
  /\ stamp \subseteq Times
  /\ pc \in {"down", "output", "writing", "stamping", "stepping", "finished"}
  /\ clock \in Times /\ start \in Times
  /\ alarm \in [StreamNames -> AlarmType]
  /\ \A x \in StreamNames : alarm[x].recurring /\ alarm[x].isSet
                         /\ alarm[x].interval = IntervalOf(x)
  /\ at \in 1 .. Len(StreamOrder) + 1
  /\ ierr \in {"noerr", "clobber", "error"}
  /\ failures \in 0..MaxFailures
  /\ resumed \subseteq Times

(* mpas_atm_core.F:887 "Only after we've successfully written the restart  *)
(* file should we" write restart_timestamp: a restart file that it names   *)
(* is whole.                                                               *)
StampNamesWholeRestart == \A s \in stamp : disk["restart"][s] = "whole"

(* No stream refuses to replace a file of an earlier attempt. *)
Rewrites == \A x \in StreamNames : mode[x] # "never_modify"

(* The same, where no stream refuses to replace the files of an earlier    *)
(* attempt.                                                                *)
StampIsSound == Rewrites => StampNamesWholeRestart

CompleteTo(h) ==
  \A t \in 0..h :
    /\ t % OutputInterval = 0 /\ t \notin resumed => disk["output"][t] = "whole"
    /\ t % RestartInterval = 0 /\ t > 0 => disk["restart"][t] = "whole"

(* Whatever attempts crashed where, the files of all times up to the one   *)
(* in restart_timestamp, and up to the end of a finished run, are whole:   *)
(* the alarms of a resumed attempt take up where the last one stopped.     *)
(* Only the output of a time that an attempt resumed from may be missing.  *)
GridComplete ==
  Rewrites => /\ \A s \in stamp : CompleteTo(s)
              /\ pc = "finished" => CompleteTo(Horizon)

(* No step touches a file of a time up to the one in restart_timestamp:    *)
(* a resumed attempt leaves the files of those before it alone.            *)
PastIsKept ==
  [][\A s \in stamp, x \in StreamNames : \A t \in 0..s : disk'[x][t] = disk[x][t]]_vars

(* As long as failures end, the run does: the timestamp never names a      *)
(* restart file that cannot be read.                                       *)
RunCompletes == Rewrites => <>(pc = "finished")
================================================================================
