------------------------------- MODULE RecordStore ------------------------------
(***************************************************************************)
(* What the output files of one stream promise, whatever the records they  *)
(* are kept in: each file is a map from times to records.  A write affects *)
(* the record of its own time and no other; only the clobber mode decides  *)
(* what may be replaced.  StreamFile implements it.                        *)
(***************************************************************************)
EXTENDS Naturals

CONSTANTS
  Files,   (* the files of the stream                *)
  Times    (* the times it may be written at         *)

VARIABLES
  mode,     (* the clobber mode                                                *)
  exists,   (* the files that exist                                            *)
  store,    (* the state of each record: "none", "torn" or "whole"             *)
  created   (* the file the running program has created and is filling, where  *)
            (* the mode lets it write to no other                              *)

vars == <<mode, exists, store, created>>

Init ==
  /\ mode \in {"never_modify", "append", "replace_files", "overwrite"}
  /\ exists = {}
  /\ store = [f \in Files |-> [t \in Times |-> "none"]]
  /\ created = {}

OwnFilesOnly == mode \in {"never_modify", "replace_files"}

(* A file that exists is emptied only by replace_files. *)
Create(f) ==
  /\ f \in exists => mode = "replace_files"
  /\ exists' = exists \cup {f}
  /\ store' = [store EXCEPT ![f] = [t \in Times |-> "none"]]
  /\ created' = IF OwnFilesOnly THEN {f} ELSE {}
  /\ UNCHANGED mode

(* The program has opened an existing file, or holds none any more. *)
Release ==
  /\ created' = {}
  /\ UNCHANGED <<mode, exists, store>>

MayWrite(f, t) ==
  /\ f \in exists
  /\ mode = "append" => store[f][t] = "none"
  /\ OwnFilesOnly => f \in created

Write(f, t) ==
  /\ MayWrite(f, t)
  /\ store' = [store EXCEPT ![f][t] = "whole"]
  /\ UNCHANGED <<mode, exists, created>>

(* The program dies while it writes. *)
Damage(f, t) ==
  /\ MayWrite(f, t)
  /\ store' = [store EXCEPT ![f][t] = "torn"]
  /\ created' = {}
  /\ UNCHANGED <<mode, exists>>

Next ==
  \/ Release
  \/ \E f \in Files : Create(f) \/ (\E t \in Times : Write(f, t) \/ Damage(f, t))

Spec == Init /\ [][Next]_vars
================================================================================
