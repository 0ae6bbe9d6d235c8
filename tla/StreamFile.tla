------------------------------- MODULE StreamFile ------------------------------
(***************************************************************************)
(* The output files of one stream over successive runs of the model: each  *)
(* run opens files by name, continues or replaces what earlier runs left   *)
(* in them, and may crash at any point.  The first run starts at time 0;   *)
(* the others resume at a restart time that the run before has reached,    *)
(* and skip the output of that time.                                       *)
(***************************************************************************)
EXTENDS Streams

CONSTANTS
  Horizon,          (* bound: last time at which the stream is written         *)
  Intervals,        (* output intervals that runs may be configured with       *)
  FileIntervals,    (* filename_interval, 0 for none                           *)
  RestartInterval,  (* runs resume at multiples of it                          *)
  Modes,            (* clobber modes considered                                *)
  MaxRuns           (* bound: runs in a behaviour                              *)

ASSUME StreamAssumption ==
  /\ Horizon \in Nat /\ MaxRuns \in Nat /\ RestartInterval \in Nat \ {0}
  /\ Intervals \subseteq Nat \ {0} /\ FileIntervals \subseteq Nat
  /\ Modes \subseteq ClobberModes
  /\ NoFile \notin Seq([time : 0..Horizon, whole : BOOLEAN])

Times   == 0 .. Horizon
Records == [time : Times, whole : BOOLEAN]

VARIABLES
  mode, fileInterval,  (* the stream's configuration                           *)
  disk,                (* the stream's files, by the time in their name        *)
  start,               (* start time of the latest run: its reference time     *)
  interval,            (* its output interval                                  *)
  next,                (* time at which it writes next                         *)
  pc,                  (* "down", "running", or "writing" a record             *)
  valid,               (* the stream has a file                                *)
  filename,            (* the time in its name                                 *)
  nRecords,            (* the record pointer                                   *)
  max,                 (* records the file had when it was opened              *)
  record,              (* the record being written                             *)
  runs                 (* history: number of runs                              *)

config == <<mode, fileInterval>>
run    == <<start, interval>>
stream == <<valid, filename, nRecords, max, record>>
vars   == <<config, disk, run, next, pc, stream, runs>>

Init ==
  /\ mode \in Modes
  /\ fileInterval \in FileIntervals
  /\ disk = [f \in Times |-> NoFile]
  /\ start = 0 /\ interval \in Intervals /\ next = 0
  /\ pc = "down"
  /\ valid = FALSE /\ filename = 0 /\ nRecords = 0 /\ max = 0 /\ record = 1
  /\ runs = 0

(* A run that starts at time 0 writes its first time, a resumed one does   *)
(* not (atm_core_run silences the alarm).                                  *)
StartRun ==
  /\ pc = "down" /\ runs < MaxRuns
  /\ \E s \in start .. next :
       /\ s % RestartInterval = 0 /\ s <= Horizon
       /\ start' = s
       /\ \E i \in Intervals :
            /\ interval' = i
            /\ next' = IF s = 0 THEN 0 ELSE s + i
  /\ pc' = "running"
  /\ runs' = runs + 1
  /\ UNCHANGED <<config, disk, stream>>

File == FileTime(start, next, fileInterval)
Due  == pc = "running" /\ next <= Horizon

(* Once the record is chosen it is either written or refused. *)
WriteOrRefuse(n, old) ==
  IF RefusesRecord(mode, n, old)
  THEN pc' = "running" /\ next' = next + interval /\ UNCHANGED record
  ELSE pc' = "writing" /\ record' = n /\ UNCHANGED next

(* A new file name: the file may exist, and may not be touched then. *)
RefuseFile ==
  /\ Due
  /\ ~ valid \/ filename # File
  /\ RefusesFile(mode, disk[File])
  /\ valid' = FALSE /\ filename' = File /\ nRecords' = 1
  /\ next' = next + interval
  /\ UNCHANGED <<config, disk, run, pc, max, record, runs>>

OpenFile ==
  /\ Due
  /\ ~ valid \/ filename # File
  /\ ~ RefusesFile(mode, disk[File])
  /\ LET contents == Opened(mode, disk[File])
     IN  /\ disk' = [disk EXCEPT ![File] = contents]
         /\ max' = Len(contents)
         /\ nRecords' = FirstRecord(contents, next)
  /\ valid' = TRUE /\ filename' = File
  /\ WriteOrRefuse(nRecords', max')
  /\ UNCHANGED <<config, run, runs>>

(* Mutant of ContinueFile: the record pointer does not move. *)
ContinueSameRecord ==
  /\ Due
  /\ valid /\ filename = File
  /\ WriteOrRefuse(nRecords, max)
  /\ UNCHANGED <<config, disk, run, valid, filename, nRecords, max, runs>>

(* The file is open already. *)
ContinueFile ==
  /\ Due
  /\ valid /\ filename = File
  /\ LET found == NextRecord(mode, disk[File], nRecords, max, next)
     IN  /\ nRecords' = found.nRecords
         /\ WriteOrRefuse(found.record, max)
  /\ UNCHANGED <<config, disk, run, valid, filename, max, runs>>

(* MPAS_writeStream returns after the file has been synced. *)
WriteRecord ==
  /\ pc = "writing"
  /\ disk' = [disk EXCEPT ![filename] = Put(@, record, Whole(next))]
  /\ next' = next + interval
  /\ pc' = "running"
  /\ UNCHANGED <<config, run, stream, runs>>

(* The memory of the run is lost. *)
Die ==
  /\ pc' = "down"
  /\ valid' = FALSE /\ filename' = 0 /\ nRecords' = 0 /\ max' = 0 /\ record' = 1
  /\ UNCHANGED <<config, run, next, runs>>

(* The run ends, or crashes between two writes. *)
EndRun == pc = "running" /\ Die /\ UNCHANGED disk

(* A crash while a record is being written leaves it as it was, or torn. *)
CrashWriting ==
  /\ pc = "writing"
  /\ \/ UNCHANGED disk
     \/ disk' = [disk EXCEPT ![filename] = Put(@, record, Torn(next))]
  /\ Die

Next ==
  \/ StartRun \/ RefuseFile \/ OpenFile \/ ContinueFile
  \/ WriteRecord \/ EndRun \/ CrashWriting

Spec == Init /\ [][Next]_vars
--------------------------------------------------------------------------------
TypeOK ==
  /\ mode \in Modes /\ fileInterval \in FileIntervals
  /\ disk \in [Times -> Seq(Records) \cup {NoFile}]
  /\ start \in Times /\ interval \in Intervals /\ next \in Nat
  /\ pc \in {"down", "running", "writing"}
  /\ valid \in BOOLEAN /\ filename \in Times
  /\ nRecords \in Nat /\ max \in Nat /\ record \in Nat \ {0}
  /\ runs \in 0..MaxRuns

(* A record is never written beyond the end of the file, so that no gap is *)
(* left, and never below its first.                                        *)
NoGaps ==
  pc = "writing" => /\ disk[filename] # NoFile
                    /\ record \in 1 .. Len(disk[filename]) + 1

(* Under "append", no record that is in a file is ever changed, and under  *)
(* "never_modify" no file that the run has not created is touched.         *)
OldRecordsKept ==
  [][\A f \in Times : disk[f] # NoFile =>
       /\ mode = "append" =>
            \A i \in DOMAIN disk[f] : i \in DOMAIN disk'[f] /\ disk'[f][i] = disk[f][i]
       /\ mode = "never_modify" /\ disk'[f] # disk[f] => valid /\ filename = f]_vars

(* While the configuration stays the same, the records of a file are in    *)
(* the order of their times, and no time occurs twice.                     *)
RecordsAscend ==
  \A f \in Times : disk[f] # NoFile =>
    \A i, j \in DOMAIN disk[f] : i < j => disk[f][i].time < disk[f][j].time

StateAt(f, t) ==
  IF disk[f] = NoFile \/ (\A i \in DOMAIN disk[f] : disk[f][i].time # t) THEN "none"
  ELSE IF \E i \in DOMAIN disk[f] : disk[f][i] = Whole(t) THEN "whole" ELSE "torn"

RunTimes == {t \in Times : t >= start /\ (t > start \/ start = 0) /\ (t - start) % interval = 0}

(* While the configuration stays the same, each time that the run has      *)
(* written is in its file, and whole: whatever an earlier run left there,  *)
(* torn or whole.  Under "append" an earlier torn record may be all.       *)
RunIsRecorded ==
  pc # "down" => \A t \in RunTimes : t < next =>
    LET state == StateAt(FileTime(start, t, fileInterval), t)
    IN  /\ mode \in {"overwrite", "replace_files"} => state = "whole"
        /\ mode = "append" => state # "none"

(* The records of a file are a map from times to data. *)
Store == INSTANCE RecordStore
           WITH Files   <- Times,
                exists  <- {f \in Times : disk[f] # NoFile},
                store   <- [f \in Times |-> [t \in Times |-> StateAt(f, t)]],
                created <- IF valid /\ ~ KeepsRecords(mode) THEN {filename} ELSE {}
ImplementsRecordStore == Store!Spec

(* mpas_stream_manager.F:3340 "If we didn't find an exact time, set record *)
(* to point to the end of the file": a time that is not in the file yet is *)
(* written after all its records.                                          *)
NewTimesGoToTheEnd ==
  [][WriteRecord =>
       \/ \E i \in DOMAIN disk[filename] : disk[filename][i].time = next
       \/ record = Len(disk[filename]) + 1]_vars
================================================================================
