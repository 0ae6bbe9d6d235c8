--------------------------------- MODULE Streams -------------------------------
(***************************************************************************)
(* How the stream manager decides which file a stream writes at a given    *)
(* time, whether it may, and which record of the file it writes            *)
(* (framework/mpas_stream_manager.F, write_stream, with the parts of       *)
(* mpas_io_streams.F and mpas_io.F that it calls), as operators.           *)
(*                                                                         *)
(* A file is NoFile, or the sequence of its records.  A record is the time *)
(* in its xtime field and whether it was written to the end.               *)
(***************************************************************************)
EXTENDS Alarms, Sequences

CONSTANT NoFile

ClobberModes == {"never_modify", "append", "replace_files", "overwrite"}

Whole(t) == [time |-> t, whole |-> TRUE]
Torn(t)  == [time |-> t, whole |-> FALSE]

(* mpas_build_stream_filename: the start of the file interval that holds   *)
(* time when, counted from the reference time; "none" is 0.                *)
FileTime(ref, when, interval) ==
  IF interval = 0 THEN ref
  ELSE IF when >= ref THEN when - DivisionRemainder(when - ref, interval)
  ELSE IF DivisionRemainder(ref - when, interval) = 0 THEN when
  ELSE when + DivisionRemainder(ref - when, interval) - interval

KeepsRecords(mode) == mode \in {"append", "overwrite"}

(* MPAS_STREAM_CLOBBER_FILE *)
RefusesFile(mode, contents) == mode = "never_modify" /\ contents # NoFile

(* What is in the file once MPAS_createStream has opened or created it. *)
Opened(mode, contents) ==
  IF contents # NoFile /\ KeepsRecords(mode) THEN contents ELSE << >>

(* MPAS_seekStream, MPAS_STREAM_EXACT_TIME: the last of the first max      *)
(* records that has time t, 0 if there is none.                            *)
Seek(contents, max, t) ==
  LET found == {i \in 1..max : contents[i].time = t}
  IN  IF found = {} THEN 0 ELSE CHOOSE i \in found : \A j \in found : j <= i

(* Mutants of FirstRecord: the result of the search is not looked at; the  *)
(* end of the file is one record early; the file is not searched.          *)
FirstRecordUnchecked(contents, t) == Seek(contents, Len(contents), t)
FirstRecordEarly(contents, t) ==
  LET exact == Seek(contents, Len(contents), t)
  IN  IF exact = 0 THEN Len(contents) ELSE exact
FirstRecordAtEnd(contents, t) == Len(contents) + 1

(* The record written first in a file that has just been opened. *)
FirstRecord(contents, t) ==
  LET exact == Seek(contents, Len(contents), t)
  IN  IF exact = 0 THEN Len(contents) + 1 ELSE exact

(* The record written next, and the record pointer afterwards.  max is the *)
(* number of records the file had when it was opened: the length of the    *)
(* Time dimension is cached with the file handle.                          *)
NextRecord(mode, contents, nRecords, max, t) ==
  LET n == nRecords + 1
      exact == Seek(contents, max, t)
  IN  IF KeepsRecords(mode) /\ n < max
      THEN IF exact # 0 THEN [record |-> exact, nRecords |-> n]
                        ELSE [record |-> max + 1, nRecords |-> max + 1]
      ELSE [record |-> n, nRecords |-> n]

(* Mutant of RefusesRecord: one record too few is protected. *)
RefusesRecordBelow(mode, record, max) == mode # "overwrite" /\ record < max

(* MPAS_STREAM_CLOBBER_RECORD: only "overwrite" sets clobberRecords. *)
RefusesRecord(mode, record, max) == mode # "overwrite" /\ record <= max

(* The file after record n has been written. *)
Put(contents, n, record) ==
  IF n \in DOMAIN contents THEN [contents EXCEPT ![n] = record]
                           ELSE Append(contents, record)
================================================================================
