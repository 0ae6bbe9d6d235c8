--------------------------- MODULE StreamFile_proofs ---------------------------
(***************************************************************************)
(* Proofs about the output files of a stream, for every set of intervals   *)
(* (runs may be configured with different ones), every horizon and any     *)
(* number of runs and crashes.                                             *)
(***************************************************************************)
EXTENDS StreamFile, SequenceTheorems, Iteration_proofs, TLAPS

(* A nonempty set of numbers from 1 to n has a last one. *)
LEMMA LastExists ==
  ASSUME NEW n \in Nat, NEW S, S \subseteq 1..n, S # {}
  PROVE  \E i \in S : \A j \in S : j <= i
<1> DEFINE T == {n - i : i \in S}
<1>1. T \subseteq Nat
  OBVIOUS
<1>2. T # {}
  OBVIOUS
<1>3. PICK x \in T : \A y \in T : x <= y
  BY <1>1, <1>2, LeastNumber
<1>4. PICK i \in S : x = n - i
  OBVIOUS
<1>5. \A j \in S : j <= i
  BY <1>3, <1>4
<1>6. QED
  BY <1>5

(* A search finds a record among those it looks at, or none. *)
LEMMA SeekBounded ==
  ASSUME NEW contents, NEW m \in Nat, NEW t
  PROVE  Seek(contents, m, t) \in 0..m
<1> DEFINE found == {i \in 1..m : contents[i].time = t}
<1>1. CASE found = {}
  BY <1>1 DEF Seek
<1>2. CASE found # {}
  <2>1. \E i \in found : \A j \in found : j <= i
    BY <1>2, LastExists
  <2>2. Seek(contents, m, t) = CHOOSE i \in found : \A j \in found : j <= i
    BY <1>2 DEF Seek
  <2>3. Seek(contents, m, t) \in found
    BY <2>1, <2>2
  <2>4. QED
    BY <2>3
<1>3. QED
  BY <1>1, <1>2

(* A file's time lies between the reference time and the time written. *)
LEMMA FileTimeBounded ==
  ASSUME NEW ref \in Nat, NEW when \in Nat, NEW i \in Nat, ref <= when
  PROVE  FileTime(ref, when, i) \in ref..when
<1>1. CASE i = 0
  BY <1>1 DEF FileTime
<1>2. CASE i > 0
  <2>1. DivisionRemainder(when - ref, i) \in 0..(when - ref)
    <3>1. CASE when - ref < i
      BY <1>2, <3>1 DEF DivisionRemainder
    <3>2. CASE ~ (when - ref < i)
      <4>1. (when - ref) % i \in 0..(i - 1)
        BY <1>2
      <4>2. DivisionRemainder(when - ref, i) = (when - ref) % i
        BY <1>2, <3>2 DEF DivisionRemainder
      <4>3. QED
        BY <3>2, <4>1, <4>2
    <3>3. QED
      BY <3>1, <3>2
  <2>2. FileTime(ref, when, i) = when - DivisionRemainder(when - ref, i)
    BY <1>2 DEF FileTime
  <2>3. QED
    BY <2>1, <2>2
<1>3. QED
  BY <1>1, <1>2

(* Writing a record no further than the end changes that record only. *)
LEMMA PutRecord ==
  ASSUME NEW contents \in Seq(Records), NEW n \in 1..(Len(contents) + 1), NEW r \in Records
  PROVE  /\ Put(contents, n, r) \in Seq(Records)
         /\ Len(Put(contents, n, r)) = IF n <= Len(contents) THEN Len(contents) ELSE n
         /\ \A i \in DOMAIN contents :
              /\ i \in DOMAIN Put(contents, n, r)
              /\ i # n => Put(contents, n, r)[i] = contents[i]
<1>1. CASE n <= Len(contents)
  <2>1. n \in 1..Len(contents)
    BY <1>1
  <2>2. Put(contents, n, r) = [contents EXCEPT ![n] = r]
    BY <2>1, LenProperties DEF Put
  <2>3. QED
    BY <1>1, <2>1, <2>2, ExceptSeq, LenProperties
<1>2. CASE ~ (n <= Len(contents))
  <2>1. n = Len(contents) + 1 /\ n \notin DOMAIN contents
    BY <1>2, LenProperties
  <2>2. Put(contents, n, r) = Append(contents, r)
    BY <2>1 DEF Put
  <2>3. QED
    BY <1>2, <2>1, <2>2
<1>3. QED
  BY <1>1, <1>2
--------------------------------------------------------------------------------
(* Where the record pointer stands.  Up to max it moves through records    *)
(* that were there when the file was opened; beyond max it counts the      *)
(* records of the file.                                                    *)
Position ==
  /\ valid =>
       /\ disk[filename] # NoFile
       /\ nRecords > 0
       /\ ~ KeepsRecords(mode) => max = 0
       /\ nRecords <= max => Len(disk[filename]) = max
       /\ nRecords > max /\ pc = "running" => Len(disk[filename]) = nRecords
  /\ pc = "down" => valid = FALSE

(* What is about to be written. *)
Pending ==
  pc = "writing" =>
    /\ valid
    /\ nRecords <= max => record \in 1..max
    /\ nRecords > max => record = nRecords /\ Len(disk[filename]) = nRecords - 1
    /\ mode # "overwrite" => record > max

Started == start <= next /\ (pc = "writing" => next \in Times)

IInv == TypeOK /\ Position /\ Pending /\ Started

LEMMA WrittenFile ==
  ASSUME IInv, pc = "writing"
  PROVE  /\ disk[filename] \in Seq(Records)
         /\ record \in 1..(Len(disk[filename]) + 1)
         /\ mode = "append" => record = Len(disk[filename]) + 1
<1>1. disk[filename] \in Seq(Records)
  BY DEF IInv, TypeOK, Position, Pending
<1>2. Len(disk[filename]) \in Nat
  BY <1>1, LenProperties
<1>3. QED
  BY <1>1, <1>2 DEF IInv, TypeOK, Position, Pending

LEMMA InvariantImplies ==
  ASSUME IInv
  PROVE  TypeOK /\ NoGaps
BY WrittenFile DEF IInv, NoGaps, Position, Pending

LEMMA InitEstablishes == ASSUME Init PROVE IInv
BY StreamAssumption DEF Init, IInv, TypeOK, Position, Pending, Started, Times, Records

(* The file of the next record. *)
LEMMA FileIsTime ==
  ASSUME IInv, Due
  PROVE  File \in Times /\ next \in Times
<1>1. start \in Nat /\ next \in Nat /\ fileInterval \in Nat /\ start <= next
  BY StreamAssumption DEF IInv, TypeOK, Started, Times
<1>2. File \in start..next
  BY <1>1, FileTimeBounded DEF File
<1>3. QED
  BY <1>1, <1>2, StreamAssumption DEF Times, Due

(* A refused record leaves the stream as it is, an accepted one is pending. *)
LEMMA OpenKeeps ==
  ASSUME IInv, OpenFile
  PROVE  IInv'
<1> DEFINE contents == Opened(mode, disk[File])
<1>1. File \in Times /\ next \in Times /\ next \in Nat
  BY FileIsTime, StreamAssumption DEF OpenFile, IInv, TypeOK
<1>2. contents \in Seq(Records) /\ Len(contents) \in Nat
  BY <1>1, LenProperties DEF IInv, TypeOK, Opened
<1>3. ~ KeepsRecords(mode) => Len(contents) = 0
  BY DEF Opened
<1>4. /\ disk' = [disk EXCEPT ![File] = contents]
      /\ disk'[filename'] = contents
      /\ max' = Len(contents) /\ valid' = TRUE /\ filename' = File
      /\ UNCHANGED <<mode, fileInterval, start, interval, runs>>
  BY <1>1 DEF OpenFile, config, run, IInv, TypeOK
<1>5. nRecords' \in 1..(Len(contents) + 1)
  <2>1. Seek(contents, Len(contents), next) \in 0..Len(contents)
    BY <1>2, SeekBounded
  <2>2. nRecords' = FirstRecord(contents, next)
    BY DEF OpenFile
  <2>3. QED
    BY <1>2, <2>1, <2>2 DEF FirstRecord
<1>6. contents # NoFile
  BY <1>2, StreamAssumption DEF Records, Times
<1>7. start \in Nat /\ interval \in Nat \ {0} /\ start <= next
  BY StreamAssumption DEF IInv, TypeOK, Times, Started
<1>8. CASE RefusesRecord(mode, nRecords', max')
  <2>1. pc' = "running" /\ next' = next + interval /\ record' = record
    BY <1>8 DEF OpenFile, WriteOrRefuse
  <2>2. TypeOK'
    BY <1>1, <1>2, <1>4, <1>5, <2>1, <1>7 DEF IInv, TypeOK
  <2>3. nRecords' <= max'
    BY <1>8 DEF RefusesRecord
  <2>4. Position'
    BY <1>2, <1>3, <1>4, <1>5, <1>6, <2>1, <2>3 DEF Position, KeepsRecords
  <2>5. Pending' /\ Started'
    BY <2>1, <1>4, <1>1, <1>7 DEF Pending, Started
  <2>6. QED
    BY <2>2, <2>4, <2>5 DEF IInv
<1>9. CASE ~ RefusesRecord(mode, nRecords', max')
  <2>1. pc' = "writing" /\ next' = next /\ record' = nRecords'
    BY <1>9 DEF OpenFile, WriteOrRefuse
  <2>2. TypeOK'
    BY <1>1, <1>2, <1>4, <1>5, <2>1, <1>7 DEF IInv, TypeOK
  <2>3. Position'
    BY <1>2, <1>3, <1>4, <1>5, <1>6, <2>1 DEF Position, KeepsRecords
  <2>4. Pending'
    BY <1>2, <1>4, <1>5, <2>1, <1>9 DEF Pending, RefusesRecord
  <2>5. Started'
    BY <2>1, <1>4, <1>1, <1>7 DEF Started, Times
  <2>6. QED
    BY <2>2, <2>3, <2>4, <2>5 DEF IInv
<1>10. QED
  BY <1>8, <1>9
(* The pointer passes the old records one by one, or goes behind the end.  *)
LEMMA NextRecordBounds ==
  ASSUME NEW contents, NEW n \in Nat, NEW old \in Nat, NEW t, NEW m
  PROVE  LET found == NextRecord(m, contents, n, old, t)
         IN  /\ found.nRecords \in Nat \ {0}
             /\ found.nRecords <= old => found.record \in 1..old
             /\ found.nRecords > old =>
                  /\ found.record = found.nRecords
                  /\ found.nRecords = IF n <= old THEN old + 1 ELSE n + 1
<1> DEFINE exact == Seek(contents, old, t)
<1>1. exact \in 0..old
  BY SeekBounded
<1>2. CASE KeepsRecords(m) /\ n + 1 < old /\ exact # 0
  <2>1. NextRecord(m, contents, n, old, t) = [record |-> exact, nRecords |-> n + 1]
    BY <1>2 DEF NextRecord
  <2>2. QED
    BY <1>1, <1>2, <2>1
<1>3. CASE KeepsRecords(m) /\ n + 1 < old /\ exact = 0
  <2>1. NextRecord(m, contents, n, old, t) = [record |-> old + 1, nRecords |-> old + 1]
    BY <1>3 DEF NextRecord
  <2>2. QED
    BY <1>3, <2>1
<1>4. CASE ~ (KeepsRecords(m) /\ n + 1 < old)
  <2>1. NextRecord(m, contents, n, old, t) = [record |-> n + 1, nRecords |-> n + 1]
    BY <1>4 DEF NextRecord
  <2>2. CASE n + 1 <= old
    BY <2>1, <2>2
  <2>3. CASE ~ (n + 1 <= old)
    BY <2>1, <2>3
  <2>4. QED
    BY <2>2, <2>3
<1>5. QED
  BY <1>2, <1>3, <1>4

LEMMA NextRecordPasses ==
  ASSUME NEW contents, NEW n \in Nat, NEW old \in Nat, NEW t, NEW m, n > old
  PROVE  NextRecord(m, contents, n, old, t).nRecords = n + 1
BY DEF NextRecord

LEMMA ContinueKeeps ==
  ASSUME IInv, ContinueFile
  PROVE  IInv'
<1> DEFINE found == NextRecord(mode, disk[File], nRecords, max, next)
<1>1. File \in Times /\ next \in Times /\ next \in Nat
  BY FileIsTime, StreamAssumption DEF ContinueFile, IInv, TypeOK
<1>2. /\ nRecords' = found.nRecords
      /\ WriteOrRefuse(found.record, max)
      /\ valid /\ pc = "running" /\ filename = File
      /\ UNCHANGED <<mode, fileInterval, disk, start, interval, valid, filename, max, runs>>
  BY DEF ContinueFile, config, run, Due
<1>3. /\ found.nRecords \in Nat \ {0}
      /\ found.nRecords <= max => found.record \in 1..max
      /\ found.nRecords > max =>
           /\ found.record = found.nRecords
           /\ found.nRecords = IF nRecords <= max THEN max + 1 ELSE nRecords + 1
  BY NextRecordBounds DEF IInv, TypeOK
<1>4. start \in Nat /\ interval \in Nat \ {0} /\ start <= next /\ max \in Nat /\ nRecords \in Nat
  BY StreamAssumption DEF IInv, TypeOK, Times, Started
<1>5. /\ disk[filename] # NoFile
      /\ ~ KeepsRecords(mode) => max = 0
      /\ nRecords <= max => Len(disk[filename]) = max
      /\ nRecords > max => Len(disk[filename]) = nRecords
  BY <1>2 DEF IInv, Position
<1>6. /\ nRecords' \in Nat \ {0}
      /\ nRecords' <= max' => Len(disk'[filename']) = max'
      /\ nRecords' > max' => Len(disk'[filename']) = nRecords' - 1
  <2>1. nRecords' <= max' => nRecords <= max
    BY <1>2, <1>4, NextRecordPasses DEF IInv, TypeOK
  <2>2. nRecords' > max' => Len(disk'[filename']) = nRecords' - 1
    <3>1. CASE nRecords <= max
      BY <1>2, <1>3, <1>4, <1>5, <3>1
    <3>2. CASE nRecords > max
      BY <1>2, <1>3, <1>4, <1>5, <3>2
    <3>3. QED
      BY <1>4, <3>1, <3>2
  <2>3. QED
    BY <1>2, <1>3, <1>5, <2>1, <2>2
<1>7. CASE RefusesRecord(mode, found.record, max)
  <2>1. pc' = "running" /\ next' = next + interval /\ record' = record
    BY <1>2, <1>7 DEF WriteOrRefuse
  <2>2. nRecords' <= max'
    BY <1>2, <1>3, <1>4, <1>7 DEF RefusesRecord
  <2>3. TypeOK'
    BY <1>1, <1>2, <1>4, <1>6, <2>1 DEF IInv, TypeOK
  <2>4. Position'
    BY <1>2, <1>5, <1>6, <1>4, <2>1, <2>2 DEF Position, KeepsRecords
  <2>5. Pending' /\ Started'
    BY <1>1, <1>2, <1>4, <2>1 DEF Pending, Started
  <2>6. QED
    BY <2>3, <2>4, <2>5 DEF IInv
<1>8. CASE ~ RefusesRecord(mode, found.record, max)
  <2>1. pc' = "writing" /\ next' = next /\ record' = found.record
    BY <1>2, <1>8 DEF WriteOrRefuse
  <2>2. record' \in Nat \ {0}
    BY <1>3, <1>4, <2>1
  <2>3. TypeOK'
    BY <1>1, <1>2, <1>4, <1>6, <2>1, <2>2 DEF IInv, TypeOK
  <2>4. Position'
    BY <1>2, <1>5, <1>6, <1>4, <2>1 DEF Position, KeepsRecords
  <2>5. Pending'
    <3>1. mode' # "overwrite" => record' > max'
      BY <1>2, <1>4, <2>1, <2>2, <1>8 DEF RefusesRecord
    <3>2. QED
      BY <1>2, <1>3, <1>6, <2>1, <3>1 DEF Pending
  <2>6. Started'
    BY <1>1, <1>2, <1>4, <2>1 DEF Started, Times
  <2>7. QED
    BY <2>3, <2>4, <2>5, <2>6 DEF IInv
<1>9. QED
  BY <1>7, <1>8

LEMMA RefuseFileKeeps ==
  ASSUME IInv, RefuseFile
  PROVE  IInv'
<1>1. File \in Times /\ next \in Nat
  BY FileIsTime DEF RefuseFile, IInv, TypeOK
<1>2. start \in Nat /\ interval \in Nat \ {0} /\ start <= next
  BY StreamAssumption DEF IInv, TypeOK, Times, Started
<1>3. TypeOK'
  <2>1. /\ valid' = FALSE /\ filename' \in Times /\ nRecords' \in Nat /\ next' \in Nat
        /\ UNCHANGED <<mode, fileInterval, disk, start, interval, pc, max, record, runs>>
    BY <1>1, <1>2 DEF RefuseFile, config, run
  <2>2. QED
    BY <2>1 DEF IInv, TypeOK
<1>4. Position' /\ Pending'
  BY DEF RefuseFile, Position, Pending, Due
<1>5. Started'
  BY <1>1, <1>2 DEF RefuseFile, Started, run, Due
<1>6. QED
  BY <1>3, <1>4, <1>5 DEF IInv

(* The pending record may be written, whole or torn, without a gap. *)
LEMMA WriteKeepsPosition ==
  ASSUME IInv, pc = "writing", NEW r \in Records,
         disk' = [disk EXCEPT ![filename] = Put(@, record, r)]
  PROVE  /\ disk' \in [Times -> Seq(Records) \cup {NoFile}]
         /\ disk'[filename] # NoFile
         /\ nRecords <= max => Len(disk'[filename]) = max
         /\ nRecords > max => Len(disk'[filename]) = nRecords
<1>1. disk[filename] \in Seq(Records) /\ record \in 1..(Len(disk[filename]) + 1)
  BY WrittenFile
<1>2. /\ Put(disk[filename], record, r) \in Seq(Records)
      /\ Len(Put(disk[filename], record, r)) =
           IF record <= Len(disk[filename]) THEN Len(disk[filename]) ELSE record
  BY <1>1, PutRecord
<1>3. filename \in Times /\ disk'[filename] = Put(disk[filename], record, r)
  BY DEF IInv, TypeOK
<1>4. disk' \in [Times -> Seq(Records) \cup {NoFile}]
  BY <1>2, <1>3 DEF IInv, TypeOK
<1>5. disk'[filename] # NoFile
  BY <1>2, <1>3, StreamAssumption DEF Records, Times
<1>6. /\ nRecords <= max => record \in 1..max /\ Len(disk[filename]) = max
      /\ nRecords > max => record = nRecords /\ Len(disk[filename]) = nRecords - 1
      /\ nRecords \in Nat /\ max \in Nat
  BY DEF IInv, TypeOK, Position, Pending
<1>7. QED
  BY <1>2, <1>3, <1>4, <1>5, <1>6
LEMMA WriteKeeps ==
  ASSUME IInv, WriteRecord
  PROVE  IInv'
<1>1. Whole(next) \in Records
  BY DEF WriteRecord, IInv, Started, Whole, Records
<1>2. /\ disk' \in [Times -> Seq(Records) \cup {NoFile}]
      /\ disk'[filename] # NoFile
      /\ nRecords <= max => Len(disk'[filename]) = max
      /\ nRecords > max => Len(disk'[filename]) = nRecords
  BY <1>1, WriteKeepsPosition DEF WriteRecord
<1>3. start \in Nat /\ next \in Nat /\ interval \in Nat \ {0} /\ start <= next
  BY StreamAssumption DEF IInv, TypeOK, Times, Started
<1>4. /\ next' = next + interval /\ pc' = "running" /\ pc = "writing"
      /\ UNCHANGED <<mode, fileInterval, start, interval, valid, filename, nRecords, max, record, runs>>
  BY DEF WriteRecord, config, run, stream
<1>5. TypeOK'
  BY <1>2, <1>3, <1>4 DEF IInv, TypeOK
<1>6. Position'
  BY <1>2, <1>4 DEF IInv, Position, Pending, KeepsRecords
<1>7. Pending' /\ Started'
  BY <1>3, <1>4 DEF Pending, Started
<1>8. QED
  BY <1>5, <1>6, <1>7 DEF IInv

(* A dying run leaves a file that a later one finds well formed. *)
LEMMA DieKeeps ==
  ASSUME IInv, Die, disk' \in [Times -> Seq(Records) \cup {NoFile}]
  PROVE  IInv'
<1>1. 0 \in Times
  BY StreamAssumption DEF Times
<1>2. /\ pc' = "down" /\ valid' = FALSE /\ filename' = 0 /\ nRecords' = 0
      /\ max' = 0 /\ record' = 1
      /\ UNCHANGED <<mode, fileInterval, start, interval, next, runs>>
  BY DEF Die, config, run
<1>3. TypeOK'
  <2>1. valid' \in BOOLEAN
    BY <1>2, Zenon
  <2>2. /\ pc' \in {"down", "running", "writing"}
        /\ filename' \in Times /\ nRecords' \in Nat /\ max' \in Nat /\ record' \in Nat \ {0}
    BY <1>1, <1>2
  <2>3. /\ mode' \in Modes /\ fileInterval' \in FileIntervals
        /\ start' \in Times /\ interval' \in Intervals /\ next' \in Nat /\ runs' \in 0..MaxRuns
    BY <1>2 DEF IInv, TypeOK
  <2>4. QED
    BY <2>1, <2>2, <2>3 DEF TypeOK
<1>4. Position' /\ Pending' /\ Started'
  BY <1>2 DEF IInv, Position, Pending, Started
<1>5. QED
  BY <1>3, <1>4 DEF IInv

LEMMA CrashKeeps ==
  ASSUME IInv, CrashWriting
  PROVE  IInv'
<1>1. Torn(next) \in Records
  BY DEF CrashWriting, IInv, Started, Torn, Records
<1>2. disk' \in [Times -> Seq(Records) \cup {NoFile}]
  BY <1>1, WriteKeepsPosition DEF CrashWriting, IInv, TypeOK
<1>3. QED
  BY <1>2, DieKeeps DEF CrashWriting

LEMMA StartKeeps ==
  ASSUME IInv, StartRun
  PROVE  IInv'
<1>1. PICK s \in start..next, i \in Intervals :
        /\ s <= Horizon /\ start' = s /\ interval' = i
        /\ next' = IF s = 0 THEN 0 ELSE s + i
  BY DEF StartRun
<1>2. start \in Nat /\ next \in Nat /\ i \in Nat \ {0} /\ Horizon \in Nat
  BY StreamAssumption DEF IInv, TypeOK, Times
<1>3. start' \in Times /\ next' \in Nat /\ start' <= next'
  BY <1>1, <1>2 DEF Times
<1>4. /\ pc = "down" /\ pc' = "running" /\ runs' = runs + 1 /\ runs < MaxRuns
      /\ UNCHANGED <<mode, fileInterval, disk, valid, filename, nRecords, max, record>>
  BY DEF StartRun, config, stream
<1>5. runs' \in 0..MaxRuns
  BY <1>4, StreamAssumption DEF IInv, TypeOK
<1>6. TypeOK'
  BY <1>1, <1>3, <1>4, <1>5 DEF IInv, TypeOK
<1>7. valid = FALSE
  BY <1>4 DEF IInv, Position
<1>8. Position' /\ Pending' /\ Started'
  BY <1>3, <1>4, <1>7 DEF Position, Pending, Started
<1>9. QED
  BY <1>6, <1>8 DEF IInv

LEMMA NextKeeps ==
  ASSUME IInv, [Next]_vars
  PROVE  IInv'
<1>1. ASSUME StartRun PROVE IInv'
  BY <1>1, StartKeeps
<1>2. ASSUME RefuseFile PROVE IInv'
  BY <1>2, RefuseFileKeeps
<1>3. ASSUME OpenFile PROVE IInv'
  BY <1>3, OpenKeeps
<1>4. ASSUME ContinueFile PROVE IInv'
  BY <1>4, ContinueKeeps
<1>5. ASSUME WriteRecord PROVE IInv'
  BY <1>5, WriteKeeps
<1>6. ASSUME EndRun PROVE IInv'
  BY <1>6, DieKeeps DEF EndRun, IInv, TypeOK
<1>7. ASSUME CrashWriting PROVE IInv'
  BY <1>7, CrashKeeps
<1>8. CASE UNCHANGED vars
  BY <1>8 DEF vars, config, run, stream, IInv, TypeOK, Position, Pending, Started
<1>9. QED
  BY <1>1, <1>2, <1>3, <1>4, <1>5, <1>6, <1>7, <1>8 DEF Next

\* The inductive invariant: opening, seeking, writing and crashing keep the
\* record pointer and the records it counts together.
THEOREM Invariance == Spec => []IInv
<1>1. Init => IInv
  BY InitEstablishes
<1>2. IInv /\ [Next]_vars => IInv'
  BY NextKeeps
<1>3. QED
  BY <1>1, <1>2, PTL DEF Spec

(* Whatever runs left in the files of a stream (mpas_stream_manager.F,     *)
(* write_stream), the types are respected.                                 *)
THEOREM StreamFileTypeCorrect == Spec => []TypeOK
<1>1. IInv => TypeOK
  BY DEF IInv
<1>2. QED
  BY <1>1, Invariance, PTL

(* A record is never written beyond the end of its file, even when runs    *)
(* with different output intervals share the file.                         *)
THEOREM NoGapsInFiles == Spec => []NoGaps
<1>1. IInv => NoGaps
  BY InvariantImplies
<1>2. QED
  BY <1>1, Invariance, PTL
--------------------------------------------------------------------------------
(* What a step may do to the file of time f. *)
Kept(f) ==
  /\ mode = "append" =>
       \A i \in DOMAIN disk[f] : i \in DOMAIN disk'[f] /\ disk'[f][i] = disk[f][i]
  /\ mode = "never_modify" /\ disk'[f] # disk[f] => valid /\ filename = f

LEMMA OpeningKeepsRecords ==
  ASSUME IInv, OpenFile, NEW f \in Times, disk[f] # NoFile
  PROVE  Kept(f)
<1>1. disk' = [disk EXCEPT ![File] = Opened(mode, disk[File])]
  BY DEF OpenFile
<1>2. disk \in [Times -> Seq(Records) \cup {NoFile}]
  BY DEF IInv, TypeOK
<1>3. CASE f # File
  BY <1>1, <1>2, <1>3 DEF Kept
<1>4. CASE f = File
  <2>1. mode # "never_modify"
    BY <1>4 DEF OpenFile, RefusesFile
  <2>2. mode = "append" => disk'[f] = disk[f]
    BY <1>1, <1>2, <1>4 DEF Opened, KeepsRecords
  <2>3. QED
    BY <2>1, <2>2 DEF Kept
<1>5. QED
  BY <1>3, <1>4

LEMMA WritingKeepsRecords ==
  ASSUME IInv, pc = "writing", NEW r \in Records,
         disk' = [disk EXCEPT ![filename] = Put(@, record, r)],
         NEW f \in Times, disk[f] # NoFile
  PROVE  Kept(f)
<1>1. disk \in [Times -> Seq(Records) \cup {NoFile}] /\ filename \in Times /\ valid
  BY DEF IInv, TypeOK, Pending
<1>2. CASE f # filename
  BY <1>1, <1>2 DEF Kept
<1>3. CASE f = filename
  <2>1. /\ disk[f] \in Seq(Records)
        /\ record \in 1..(Len(disk[f]) + 1)
        /\ mode = "append" => record = Len(disk[f]) + 1
    BY <1>3, WrittenFile
  <2>2. disk'[f] = Put(disk[f], record, r)
    BY <1>1, <1>3
  <2>3. \A i \in DOMAIN disk[f] :
          /\ i \in DOMAIN Put(disk[f], record, r)
          /\ i # record => Put(disk[f], record, r)[i] = disk[f][i]
    BY <2>1, PutRecord
  <2>4. DOMAIN disk[f] = 1..Len(disk[f]) /\ Len(disk[f]) \in Nat
    BY <2>1, LenProperties
  <2>5. mode = "append" => \A i \in DOMAIN disk[f] : i # record
    BY <2>1, <2>4
  <2>6. QED
    BY <1>1, <1>3, <2>2, <2>3, <2>5 DEF Kept
<1>4. QED
  BY <1>2, <1>3

LEMMA StepKeepsRecords ==
  ASSUME IInv, [Next]_vars, NEW f \in Times, disk[f] # NoFile
  PROVE  Kept(f)
<1>1. ASSUME UNCHANGED disk PROVE Kept(f)
  BY <1>1 DEF Kept
<1>2. CASE OpenFile
  BY <1>2, OpeningKeepsRecords
<1>3. CASE WriteRecord
  <2>1. Whole(next) \in Records
    BY <1>3 DEF WriteRecord, IInv, Started, Whole, Records
  <2>2. QED
    BY <1>3, <2>1, WritingKeepsRecords DEF WriteRecord
<1>4. CASE CrashWriting
  <2>1. Torn(next) \in Records
    BY <1>4 DEF CrashWriting, IInv, Started, Torn, Records
  <2>2. QED
    BY <1>1, <1>4, <2>1, WritingKeepsRecords DEF CrashWriting
<1>5. CASE StartRun \/ RefuseFile \/ ContinueFile \/ EndRun
  BY <1>1, <1>5 DEF StartRun, RefuseFile, ContinueFile, EndRun
<1>6. CASE UNCHANGED vars
  BY <1>1, <1>6 DEF vars
<1>7. QED
  BY <1>2, <1>3, <1>4, <1>5, <1>6 DEF Next

(* "append" changes no record that is in a file, and "never_modify" no     *)
(* file that the run has not created, also when the output interval is     *)
(* changed between runs (write_stream and MPAS_io_put_var_generic).        *)
THEOREM OldRecordsAreKept == Spec => OldRecordsKept
<1>1. IInv /\ [Next]_vars =>
        [\A f \in Times : disk[f] # NoFile =>
           /\ mode = "append" =>
                \A i \in DOMAIN disk[f] : i \in DOMAIN disk'[f] /\ disk'[f][i] = disk[f][i]
           /\ mode = "never_modify" /\ disk'[f] # disk[f] => valid /\ filename = f]_vars
  BY StepKeepsRecords DEF Kept
<1>2. QED
  BY <1>1, Invariance, PTL DEF Spec, OldRecordsKept

--------------------------------------------------------------------------------
(* The times of the records in the files, for runs that all write at the   *)
(* same interval and resume at multiples of it: the files are the ones     *)
(* RecordStore promises, for every horizon, every filename_interval and    *)
(* any number of runs and crashes.                                         *)

(* The output interval of all runs. *)
Spacing == CHOOSE i \in Intervals : TRUE

OneInterval == Intervals = {Spacing} /\ RestartInterval % Spacing = 0

OnGrid(x) == x % Spacing = 0

LEMMA SpacingFacts ==
  ASSUME OneInterval
  PROVE  Spacing \in Nat /\ Spacing > 0 /\ RestartInterval \in Nat /\ RestartInterval > 0
BY StreamAssumption DEF OneInterval

Multiple(I, x) == \E k \in Int : x = I * k

LEMMA RemainderDivides ==
  ASSUME NEW I \in Nat, I > 0, NEW x \in Int
  PROVE  x % I \in Int /\ Multiple(I, x - (x % I))
<1>1. x = I * (x \div I) + (x % I) /\ x \div I \in Int /\ x % I \in Int
  OBVIOUS
<1>2. x - (x % I) = I * (x \div I)
  BY <1>1
<1>3. QED
  BY <1>1, <1>2 DEF Multiple

LEMMA RemainderFree ==
  ASSUME NEW i \in Nat, i > 0, NEW x \in Int
  PROVE  x % i = 0 <=> \E k \in Int : x = i * k
<1>1. (\E k \in Int : x = i * k) => x % i = 0
  OBVIOUS
<1>2. x % i = 0 => \E k \in Int : x = i * k
  BY RemainderDivides DEF Multiple
<1>3. QED
  BY <1>1, <1>2

(* Multiples of i less than i apart are the same. *)
LEMMA MultiplesApart ==
  ASSUME NEW i \in Nat, i > 0, NEW k \in Int, NEW m \in Int,
         i * k < i * m + i, i * m < i * k + i
  PROVE  k = m
<1>1. CASE k < m
  <2>1. k + 1 <= m
    BY <1>1
  <2>2. i * (k + 1) <= i * m
    BY <2>1
  <2>3. QED
    BY <2>2
<1>2. CASE m < k
  <2>1. m + 1 <= k
    BY <1>2
  <2>2. i * (m + 1) <= i * k
    BY <2>1
  <2>3. QED
    BY <2>2
<1>3. QED
  BY <1>1, <1>2

LEMMA GridFacts ==
  ASSUME OneInterval, NEW x \in Int, OnGrid(x)
  PROVE  /\ OnGrid(x + Spacing) /\ OnGrid(x - Spacing)
         /\ \A y \in Int : OnGrid(y) /\ x < y + Spacing /\ y < x + Spacing => x = y
<1> DEFINE i == Spacing
<1>1. i \in Nat /\ i > 0
  BY SpacingFacts
<1>2. \A y \in Int : OnGrid(y) <=> \E k \in Int : y = i * k
  BY <1>1, RemainderFree DEF OnGrid
<1>3. PICK k \in Int : x = i * k
  BY <1>2
<1> HIDE DEF i
<1>4. x + i = i * (k + 1) /\ x - i = i * (k - 1)
  BY <1>1, <1>3
<1>5. OnGrid(x + i) /\ OnGrid(x - i)
  <2>1. k + 1 \in Int /\ k - 1 \in Int /\ x + i \in Int /\ x - i \in Int
    BY <1>1
  <2>2. QED
    BY <1>2, <1>4, <2>1
<1>6. ASSUME NEW y \in Int, OnGrid(y), x < y + i, y < x + i
      PROVE  x = y
  <2>1. PICK m \in Int : y = i * m
    BY <1>2, <1>6
  <2>2. k = m
    BY <1>1, <1>3, <1>6, <2>1, MultiplesApart
  <2>3. QED
    BY <1>3, <2>1, <2>2
<1>7. QED
  BY <1>5, <1>6 DEF i

(* A multiple of the restart interval is on the grid. *)
LEMMA RestartOnGrid ==
  ASSUME OneInterval, NEW s \in Nat, s % RestartInterval = 0
  PROVE  OnGrid(s)
<1>1. /\ Spacing \in Nat /\ Spacing > 0 /\ RestartInterval \in Nat /\ RestartInterval > 0
      /\ RestartInterval % Spacing = 0
  BY SpacingFacts DEF OneInterval
<1>2. PICK k \in Int : s = RestartInterval * k
  BY <1>1, RemainderFree
<1>3. PICK m \in Int : RestartInterval = Spacing * m
  BY <1>1, RemainderFree
<1>4. s = Spacing * (m * k) /\ m * k \in Int
  BY <1>1, <1>2, <1>3
<1>5. QED
  BY <1>1, <1>4, RemainderFree DEF OnGrid

(* A file of interval i holds the times of one interval after its own.     *)
LEMMA FileOfTime ==
  ASSUME NEW ref \in Nat, NEW t \in Nat, ref <= t, NEW i \in Nat, i > 0
  PROVE  \E k \in Int : /\ FileTime(ref, t, i) = ref + i * k
                        /\ ref + i * k <= t /\ t < ref + i * k + i /\ ref <= ref + i * k
<1> DEFINE x == t - ref
<1>1. x \in Nat
  OBVIOUS
<1>2. DivisionRemainder(x, i) = x % i
  <2>1. x < i => x % i = x
    OBVIOUS
  <2>2. QED
    BY <2>1 DEF DivisionRemainder
<1>3. x % i \in 0..(i - 1)
  BY <1>1
<1>4. x % i <= x
  BY <1>1
<1>5. FileTime(ref, t, i) = t - (x % i)
  BY <1>2 DEF FileTime
<1> HIDE DEF x
<1>6. PICK k \in Int : x - (x % i) = i * k
  BY <1>1, RemainderDivides DEF Multiple
<1>7. ref + i * k = t - (x % i)
  <2>1. i * k \in Int /\ x % i \in Int
    BY <1>3
  <2>2. QED
    BY <1>6, <2>1 DEF x
<1>8. /\ ref + i * k <= t /\ t < ref + i * k + i /\ ref <= ref + i * k
  BY <1>3, <1>4, <1>7 DEF x
<1>9. QED
  BY <1>5, <1>7, <1>8

(* If two times go to the same file, so do those between them. *)
LEMMA TimesOfFile ==
  ASSUME NEW ref \in Nat, NEW t \in Nat, NEW u \in Nat, NEW w \in Nat, NEW i \in Nat,
         ref <= t, t <= u, u <= w, FileTime(ref, t, i) = FileTime(ref, w, i)
  PROVE  FileTime(ref, u, i) = FileTime(ref, t, i)
<1>1. CASE i = 0
  BY <1>1 DEF FileTime
<1>2. CASE i > 0
  <2>0. ref <= u /\ ref <= w
    OBVIOUS
  <2>1. PICK k \in Int : FileTime(ref, t, i) = ref + i * k /\ ref + i * k <= t
    BY <1>2, FileOfTime
  <2>2. PICK m \in Int : /\ FileTime(ref, u, i) = ref + i * m
                         /\ ref + i * m <= u /\ u < ref + i * m + i
    BY <1>2, <2>0, FileOfTime, Zenon
  <2>3. w < FileTime(ref, w, i) + i
    <3>1. PICK n \in Int : FileTime(ref, w, i) = ref + i * n /\ w < ref + i * n + i
      BY <1>2, <2>0, FileOfTime, Zenon
    <3>2. QED
      BY <3>1
  <2>4. i * k \in Int /\ i * m \in Int
    OBVIOUS
  <2>5. i * k < i * m + i /\ i * m < i * k + i
    BY <2>1, <2>2, <2>3, <2>4
  <2>6. k = m
    BY <1>2, <2>5, MultiplesApart
  <2>7. QED
    BY <2>1, <2>2, <2>6
<1>3. QED
  BY <1>1, <1>2
--------------------------------------------------------------------------------
(* The records of one file *)

(* The records of c are in the order of their times, one interval apart.   *)
Regular(c) ==
  \A i \in 1..Len(c) :
    /\ \A j \in 1..Len(c) : i < j => c[i].time < c[j].time
    /\ i < Len(c) => c[i + 1].time = c[i].time + Spacing

(* Record n of c is the one of time t, or t is the time that comes next.   *)
GoesOn(c, n, t) ==
  IF n <= Len(c) THEN c[n].time = t ELSE Len(c) > 0 => c[Len(c)].time = t - Spacing

LEMMA RecordTime ==
  ASSUME NEW c \in Seq(Records), NEW i \in 1..Len(c)
  PROVE  c[i] \in Records /\ c[i].time \in Nat
<1>1. c[i] \in Records
  BY ElementOfSeq
<1>2. \A r \in Records : r.time \in Times
  BY DEF Records
<1>3. Times \subseteq Nat
  BY StreamAssumption DEF Times
<1>4. QED
  BY <1>1, <1>2, <1>3

LEMMA SeekFinds ==
  ASSUME NEW c \in Seq(Records), Regular(c), NEW m \in 0..Len(c), NEW t,
         NEW i \in 1..m, c[i].time = t
  PROVE  Seek(c, m, t) = i
<1> DEFINE found == {k \in 1..m : c[k].time = t}
<1>1. Len(c) \in Nat /\ m \in Nat
  BY LenProperties
<1>2. \A k \in 1..Len(c) : c[k].time \in Nat
  BY RecordTime
<1>3. ASSUME NEW k \in found PROVE k = i
  <2>1. k \in 1..Len(c) /\ i \in 1..Len(c) /\ c[k].time = c[i].time
    BY <1>1
  <2>2. ~ (k < i) /\ ~ (i < k)
    BY <1>2, <2>1 DEF Regular
  <2>3. QED
    BY <2>1, <2>2
<1>4. found = {i}
  BY <1>1, <1>3
<1>5. Seek(c, m, t) = CHOOSE k \in found : \A j \in found : j <= k
  BY <1>4 DEF Seek
<1>6. QED
  BY <1>1, <1>4, <1>5

LEMMA SeekMisses ==
  ASSUME NEW c, NEW m, NEW t, \A i \in 1..m : c[i].time # t
  PROVE  Seek(c, m, t) = 0
BY DEF Seek

LEMMA PutSequence ==
  ASSUME NEW c \in Seq(Records), NEW n \in 1..(Len(c) + 1), NEW r \in Records
  PROVE  LET d == Put(c, n, r)
         IN  /\ d \in Seq(Records) /\ d[n] = r
             /\ Len(d) = IF n <= Len(c) THEN Len(c) ELSE n
             /\ \A i \in 1..Len(c) : i # n => d[i] = c[i]
<1> DEFINE d == Put(c, n, r)
<1>1. /\ d \in Seq(Records)
      /\ Len(d) = IF n <= Len(c) THEN Len(c) ELSE n
      /\ \A i \in DOMAIN c : i # n => d[i] = c[i]
  BY PutRecord
<1>2. DOMAIN c = 1..Len(c) /\ Len(c) \in Nat
  BY LenProperties
<1>3. d[n] = r
  <2>1. CASE n \in DOMAIN c
    BY <2>1 DEF Put
  <2>2. CASE n \notin DOMAIN c
    <3>1. n = Len(c) + 1
      BY <1>2, <2>2
    <3>2. QED
      BY <2>2, <3>1 DEF Put
  <2>3. QED
    BY <2>1, <2>2
<1>4. QED
  BY <1>1, <1>2, <1>3

(* Writing the record of a time where it goes keeps a file regular.        *)
LEMMA PutRegular ==
  ASSUME OneInterval, NEW c \in Seq(Records), Regular(c), NEW n \in 1..(Len(c) + 1),
         NEW r \in Records, GoesOn(c, n, r.time)
  PROVE  LET d == Put(c, n, r)
         IN  /\ Regular(d) /\ Len(d) > 0
             /\ d[1].time = IF Len(c) > 0 THEN c[1].time ELSE r.time
<1> DEFINE d == Put(c, n, r)
<1>1. /\ d \in Seq(Records) /\ d[n] = r
      /\ Len(d) = IF n <= Len(c) THEN Len(c) ELSE n
      /\ \A i \in 1..Len(c) : i # n => d[i] = c[i]
  BY PutSequence
<1>2. Len(c) \in Nat /\ Spacing \in Nat /\ Spacing > 0
  BY LenProperties, SpacingFacts
<1>3. \A i \in 1..Len(c) : c[i].time \in Nat
  BY RecordTime
<1>4. r.time \in Nat
  BY StreamAssumption DEF Records, Times
<1> HIDE DEF d
<1>5. CASE n <= Len(c)
  <2>1. Len(d) = Len(c) /\ \A i \in 1..Len(c) : d[i].time = c[i].time
    BY <1>1, <1>5 DEF GoesOn
  <2>2. Regular(d)
    BY <1>2, <2>1 DEF Regular
  <2>3. QED
    BY <1>2, <1>5, <2>1, <2>2 DEF d
<1>6. CASE n > Len(c)
  <2>1. n = Len(c) + 1 /\ Len(d) = Len(c) + 1 /\ d[Len(c) + 1].time = r.time
    BY <1>1, <1>2, <1>6
  <2>2. \A i \in 1..Len(c) : d[i].time = c[i].time
    BY <1>1, <1>2, <2>1
  <2>3. Len(c) > 0 => c[Len(c)].time = r.time - Spacing
    BY <1>2, <2>1 DEF GoesOn
  <2>4. \A i \in 1..Len(c) : c[i].time < r.time
    <3> SUFFICES ASSUME NEW i \in 1..Len(c) PROVE c[i].time < r.time
      OBVIOUS
    <3>1. Len(c) \in 1..Len(c) /\ Len(c) > 0
      BY <1>2
    <3>2. c[i].time <= c[Len(c)].time
      <4>1. CASE i = Len(c)
        BY <1>3, <3>1, <4>1
      <4>2. CASE i < Len(c)
        <5>1. c[i].time < c[Len(c)].time
          BY <3>1, <4>2 DEF Regular
        <5>2. QED
          BY <1>3, <3>1, <5>1
      <4>3. QED
        BY <1>2, <4>1, <4>2
    <3>3. QED
      BY <1>2, <1>3, <1>4, <2>3, <3>1, <3>2
  <2>5. Regular(d)
    <3> SUFFICES ASSUME NEW i \in 1..Len(d)
                 PROVE  /\ \A j \in 1..Len(d) : i < j => d[i].time < d[j].time
                        /\ i < Len(d) => d[i + 1].time = d[i].time + Spacing
      BY DEF Regular
    <3>1. ASSUME NEW j \in 1..Len(d), i < j PROVE d[i].time < d[j].time
      <4>1. i \in 1..Len(c)
        BY <1>2, <2>1, <3>1
      <4>2. CASE j = Len(c) + 1
        BY <2>1, <2>2, <2>4, <4>1, <4>2
      <4>3. CASE j \in 1..Len(c)
        BY <2>2, <3>1, <4>1, <4>3 DEF Regular
      <4>4. QED
        BY <1>2, <2>1, <4>2, <4>3
    <3>2. ASSUME i < Len(d) PROVE d[i + 1].time = d[i].time + Spacing
      <4>1. i \in 1..Len(c)
        BY <1>2, <2>1, <3>2
      <4>2. CASE i = Len(c)
        <5>1. d[i + 1].time = r.time /\ d[i].time = c[Len(c)].time
          BY <2>1, <2>2, <4>1, <4>2
        <5>2. c[Len(c)].time = r.time - Spacing /\ c[Len(c)].time \in Nat
          BY <1>2, <1>3, <2>3, <4>1, <4>2
        <5>3. QED
          BY <1>2, <1>4, <5>1, <5>2
      <4>3. CASE i < Len(c)
        <5>1. i + 1 \in 1..Len(c)
          BY <1>2, <4>1, <4>3
        <5>2. QED
          BY <2>2, <4>1, <4>3, <5>1 DEF Regular
      <4>4. QED
        BY <1>2, <4>1, <4>2, <4>3
    <3>3. QED
      BY <3>1, <3>2
  <2>6. Len(d) > 0 /\ d[1].time = IF Len(c) > 0 THEN c[1].time ELSE r.time
    BY <1>2, <2>1, <2>2
  <2>7. QED
    BY <2>5, <2>6 DEF d
<1>7. QED
  BY <1>2, <1>5, <1>6
--------------------------------------------------------------------------------
(* Where a run begins in a file *)

(* The first time that a run writes. *)
FirstTime == IF start = 0 THEN 0 ELSE start + Spacing

(* The time t is the first of file f: the run begins in the file, or comes *)
(* to it from the file before.                                             *)
FirstWrite(f, t) ==
  \/ start < f /\ f <= t /\ t < f + Spacing
  \/ start = f /\ t = FirstTime

(* Time b of the first record in file f: the first on the grid, or, if a   *)
(* run has begun in the file, the second.                                  *)
Base(f, b) ==
  /\ OnGrid(b)
  /\ \/ f <= b /\ b < f + Spacing
     \/ b = f + Spacing /\ 0 < f /\ f <= start /\ OnGrid(f)

LEMMA FirstWriteIsBase ==
  ASSUME OneInterval, NEW f \in Nat, NEW t \in Nat, start \in Nat, OnGrid(start), OnGrid(t),
         FirstWrite(f, t)
  PROVE  Base(f, t)
BY SpacingFacts DEF FirstWrite, FirstTime, Base

(* A run that comes to a file finds its time there, or the place where it  *)
(* goes.                                                                   *)
LEMMA OpeningGoesOn ==
  ASSUME OneInterval, NEW f \in Nat, NEW t \in Nat, start \in Nat, OnGrid(start), OnGrid(t),
         FirstWrite(f, t), NEW c \in Seq(Records), Regular(c),
         Len(c) > 0 => Base(f, c[1].time)
  PROVE  FirstRecord(c, t) \in 1..(Len(c) + 1) /\ GoesOn(c, FirstRecord(c, t), t)
<1> DEFINE n == Seek(c, Len(c), t)
<1>0. Len(c) \in Nat /\ Spacing \in Nat /\ Spacing > 0
  BY LenProperties, SpacingFacts
<1>1. CASE Len(c) = 0
  <2>1. n = 0
    BY <1>1, SeekMisses
  <2>2. QED
    BY <1>1, <2>1 DEF FirstRecord, GoesOn
<1>2. CASE Len(c) > 0
  <2> DEFINE b == c[1].time
  <2>1. 1 \in 1..Len(c) /\ b \in Nat
    BY <1>0, <1>2, RecordTime
  <2>2. t = b \/ t = b + Spacing
    <3>1. Base(f, b)
      BY <1>2
    <3>2. OnGrid(b) /\ \A y \in Int : OnGrid(y) /\ b < y + Spacing /\ y < b + Spacing => b = y
      BY <2>1, <3>1, GridFacts DEF Base
    <3> HIDE DEF b
    <3>3. CASE f <= b /\ b < f + Spacing /\ t < f + Spacing /\ f <= t
      BY <1>0, <2>1, <3>2, <3>3
    <3>4. CASE f <= b /\ b < f + Spacing /\ start = f /\ t = f + Spacing
      <4>1. b = f
        BY <1>0, <2>1, <3>2, <3>4
      <4>2. QED
        BY <3>4, <4>1
    <3>5. CASE b = f + Spacing /\ 0 < f /\ f <= start
      BY <1>0, <2>1, <3>5 DEF FirstWrite, FirstTime
    <3>6. QED
      BY <1>0, <2>1, <3>1, <3>3, <3>4, <3>5 DEF Base, FirstWrite, FirstTime
  <2>3. CASE t = b
    <3>1. n = 1
      BY <1>0, <2>1, <2>3, SeekFinds
    <3>2. QED
      BY <1>0, <1>2, <2>3, <3>1 DEF FirstRecord, GoesOn
  <2>4. CASE t = b + Spacing /\ Len(c) >= 2
    <3>1. 2 \in 1..Len(c) /\ c[2].time = t
      BY <1>0, <2>1, <2>4 DEF Regular
    <3>2. n = 2
      BY <1>0, <3>1, SeekFinds
    <3>3. QED
      BY <1>0, <3>1, <3>2 DEF FirstRecord, GoesOn
  <2>5. CASE t = b + Spacing /\ Len(c) = 1
    <3>1. n = 0
      BY <1>0, <2>1, <2>5, SeekMisses
    <3>2. FirstRecord(c, t) = 2
      BY <2>5, <3>1 DEF FirstRecord
    <3>3. c[Len(c)].time = b /\ b = t - Spacing
      BY <1>0, <2>1, <2>5
    <3>4. GoesOn(c, 2, t)
      BY <2>5, <3>3 DEF GoesOn
    <3>5. 2 \in 1..(Len(c) + 1)
      BY <2>5
    <3>6. QED
      BY <3>2, <3>4, <3>5, Zenon
  <2>6. Len(c) >= 2 \/ Len(c) = 1
    <3>1. \A m \in Nat : m > 0 => m >= 2 \/ m = 1
      OBVIOUS
    <3>2. QED
      BY <1>0, <1>2, <3>1, Zenon
  <2>7. QED
    BY <2>2, <2>3, <2>4, <2>5, <2>6, Zenon
<1>3. QED
  BY <1>0, <1>1, <1>2

(* A run that stays in a file writes the record after the last it wrote,   *)
(* which is where its time is or goes: a search finds nothing else.        *)
LEMMA ContinuingGoesOn ==
  ASSUME OneInterval, NEW c \in Seq(Records), Regular(c), NEW n \in 1..Len(c), NEW t \in Nat,
         c[n].time = t - Spacing, NEW old \in Nat, n <= old => Len(c) = old, NEW m
  PROVE  /\ NextRecord(m, c, n, old, t) = [record |-> n + 1, nRecords |-> n + 1]
         /\ n + 1 \in 1..(Len(c) + 1) /\ GoesOn(c, n + 1, t)
<1>0. Len(c) \in Nat /\ n \in Nat /\ Spacing \in Nat /\ Spacing > 0
  BY LenProperties, SpacingFacts
<1>1. ASSUME n < Len(c) PROVE n + 1 \in 1..Len(c) /\ c[n + 1].time = t
  BY <1>0, <1>1 DEF Regular
<1>2. GoesOn(c, n + 1, t)
  <2>1. CASE n < Len(c)
    BY <1>0, <1>1, <2>1 DEF GoesOn
  <2>2. CASE n = Len(c)
    BY <1>0, <2>2 DEF GoesOn
  <2>3. QED
    BY <1>0, <2>1, <2>2
<1>3. CASE KeepsRecords(m) /\ n + 1 < old
  <2>1. Len(c) = old /\ n + 1 \in 1..old /\ c[n + 1].time = t
    BY <1>0, <1>1, <1>3
  <2>2. Seek(c, old, t) = n + 1
    BY <1>0, <2>1, SeekFinds
  <2>3. NextRecord(m, c, n, old, t) = [record |-> n + 1, nRecords |-> n + 1]
    BY <1>0, <1>3, <2>2 DEF NextRecord
  <2>4. QED
    BY <1>0, <1>2, <2>3
<1>4. CASE ~ (KeepsRecords(m) /\ n + 1 < old)
  <2>1. NextRecord(m, c, n, old, t) = [record |-> n + 1, nRecords |-> n + 1]
    BY <1>4 DEF NextRecord
  <2>2. QED
    BY <1>0, <1>2, <2>1
<1>5. QED
  BY <1>3, <1>4
--------------------------------------------------------------------------------
(* The invariant *)

Timed == OnGrid(start) /\ OnGrid(next)

FilesRegular ==
  \A f \in Times : disk[f] # NoFile =>
    /\ Regular(disk[f])
    /\ KeepsRecords(mode) /\ Len(disk[f]) > 0 => Base(f, disk[f][1].time)

(* A run has no file before its first write only, unless it was refused.   *)
Fresh == pc = "running" /\ ~ valid /\ mode # "never_modify" => next = FirstTime

(* The time that the record pointer is for. *)
LastTime == IF pc = "running" THEN next - Spacing ELSE next

(* The file and the record pointer are where the time is.                  *)
Aligned ==
  valid =>
    /\ start <= LastTime /\ filename = FileTime(start, LastTime, fileInterval)
    /\ pc = "running" =>
         /\ nRecords \in 1..Len(disk[filename])
         /\ disk[filename][nRecords].time = LastTime
    /\ pc = "writing" =>
         /\ record = nRecords
         /\ GoesOn(disk[filename], record, next)
         /\ KeepsRecords(mode) /\ Len(disk[filename]) = 0 => FirstWrite(filename, next)

GInv == Timed /\ FilesRegular /\ Fresh /\ Aligned

(* What the types say of the times and of the files. *)
LEMMA StateFacts ==
  ASSUME OneInterval, IInv
  PROVE  /\ start \in Nat /\ next \in Nat /\ start <= next
         /\ interval = Spacing /\ Spacing \in Nat /\ Spacing > 0
         /\ fileInterval \in Nat /\ filename \in Times /\ filename \in Nat
         /\ nRecords \in Nat /\ max \in Nat
         /\ disk \in [Times -> Seq(Records) \cup {NoFile}]
         /\ NoFile \notin Seq(Records)
         /\ mode \in ClobberModes
<1>1. /\ start \in Times /\ next \in Nat /\ start <= next /\ interval \in Intervals
      /\ fileInterval \in FileIntervals /\ filename \in Times
      /\ nRecords \in Nat /\ max \in Nat
      /\ disk \in [Times -> Seq(Records) \cup {NoFile}] /\ mode \in Modes
  BY DEF IInv, TypeOK, Started
<1>2. Times \subseteq Nat
  BY StreamAssumption DEF Times
<1>3. interval = Spacing /\ Spacing \in Nat /\ Spacing > 0
  BY <1>1, SpacingFacts DEF OneInterval
<1>4. NoFile \notin Seq(Records) /\ fileInterval \in Nat /\ mode \in ClobberModes
  BY <1>1, StreamAssumption DEF Records, Times
<1>5. QED
  BY <1>1, <1>2, <1>3, <1>4

(* A file that is opened is one that the run has not been in.              *)
LEMMA OpeningIsFirst ==
  ASSUME OneInterval, IInv, GInv, Due, ~ valid \/ filename # File, mode # "never_modify"
  PROVE  /\ FirstWrite(File, next)
         /\ valid => \A t \in Nat : start <= t /\ t <= next - Spacing
                                      => FileTime(start, t, fileInterval) # File
<1>0. /\ start \in Nat /\ next \in Nat /\ start <= next /\ fileInterval \in Nat
      /\ Spacing \in Nat /\ Spacing > 0 /\ pc = "running"
  BY StateFacts DEF Due
<1>1. CASE ~ valid
  <2>1. next = FirstTime
    BY <1>0, <1>1 DEF GInv, Fresh
  <2>2. File \in start..next
    BY <1>0, FileTimeBounded DEF File
  <2>3. QED
    BY <1>0, <1>1, <2>1, <2>2 DEF FirstWrite, FirstTime
<1>2. CASE valid
  <2> DEFINE last == next - Spacing
  <2>1. last \in Nat /\ start <= last /\ last < next
        /\ filename = FileTime(start, last, fileInterval) /\ filename # File
    BY <1>0, <1>2 DEF GInv, Aligned, LastTime
  <2>2. ASSUME NEW t \in Nat, start <= t, t <= last
        PROVE  FileTime(start, t, fileInterval) # FileTime(start, next, fileInterval)
    <3>1. SUFFICES ASSUME FileTime(start, t, fileInterval) = FileTime(start, next, fileInterval)
                   PROVE  FALSE
      OBVIOUS
    <3> HIDE DEF last
    <3>2. t <= last /\ last <= next
      BY <1>0, <2>1, <2>2
    <3>3. FileTime(start, last, fileInterval) = FileTime(start, t, fileInterval)
      BY <1>0, <2>1, <2>2, <3>1, <3>2, TimesOfFile
    <3>4. QED
      BY <2>1, <3>1, <3>3 DEF File
  <2>3. fileInterval > 0
    <3>1. SUFFICES ASSUME fileInterval = 0 PROVE FALSE
      BY <1>0
    <3>2. FileTime(start, next, 0) = start /\ FileTime(start, last, 0) = start
      BY DEF FileTime
    <3>3. QED
      BY <2>1, <3>1, <3>2 DEF File
  <2>4. PICK k \in Int : /\ File = start + fileInterval * k /\ File <= next
                         /\ next < File + fileInterval /\ start <= File
    <3>1. PICK k \in Int : /\ FileTime(start, next, fileInterval) = start + fileInterval * k
                           /\ start + fileInterval * k <= next
                           /\ next < start + fileInterval * k + fileInterval
                           /\ start <= start + fileInterval * k
      BY <1>0, <2>3, FileOfTime, Zenon
    <3>2. QED
      BY <3>1 DEF File
  <2>5. last < File
    <3>1. SUFFICES ASSUME File <= last PROVE FALSE
      BY <1>0, <2>1, <2>4
    <3>2. File \in Nat
      BY <1>0, <2>4
    <3>3. FileTime(start, File, fileInterval) = File
      <4>1. PICK m \in Int : /\ FileTime(start, File, fileInterval) = start + fileInterval * m
                             /\ start + fileInterval * m <= File
                             /\ File < start + fileInterval * m + fileInterval
        BY <1>0, <2>3, <2>4, <3>2, FileOfTime
      <4>2. fileInterval * k \in Int /\ fileInterval * m \in Int
        BY <1>0
      <4>3. fileInterval * k < fileInterval * m + fileInterval
            /\ fileInterval * m < fileInterval * k + fileInterval
        BY <1>0, <2>3, <2>4, <4>1, <4>2
      <4>4. k = m
        BY <1>0, <2>3, <4>3, MultiplesApart
      <4>5. QED
        BY <2>4, <4>1, <4>4
    <3>4. QED
      BY <2>2, <2>4, <3>1, <3>2, <3>3 DEF File
  <2>6. FirstWrite(File, next)
    <3>1. File \in Nat
      BY <1>0, <2>4
    <3>2. start < File /\ next < File + Spacing
      BY <1>0, <2>1, <2>5, <3>1
    <3>3. QED
      BY <2>4, <3>2 DEF FirstWrite
  <2>7. QED
    BY <2>2, <2>6 DEF File
<1>3. QED
  BY <1>1, <1>2
--------------------------------------------------------------------------------
(* The steps keep the invariant *)

LEMMA GInitially == ASSUME OneInterval, Init PROVE GInv
<1>1. OnGrid(0)
  BY SpacingFacts, RemainderFree DEF OnGrid
<1>2. QED
  BY <1>1 DEF Init, GInv, Timed, FilesRegular, Fresh, Aligned

LEMMA GStart == ASSUME OneInterval, IInv, GInv, StartRun PROVE GInv'
<1>1. PICK s \in start..next :
        /\ s % RestartInterval = 0 /\ start' = s
        /\ next' = IF s = 0 THEN 0 ELSE s + Spacing
  BY DEF StartRun, OneInterval
<1>2. /\ start \in Nat /\ next \in Nat /\ Spacing \in Nat /\ s \in Nat /\ start <= s
  BY <1>1, StateFacts
<1>3. pc = "down" /\ UNCHANGED <<mode, disk, valid>> /\ ~ valid
  BY DEF StartRun, config, stream, IInv, Position
<1>4. Timed'
  <2>1. OnGrid(s)
    BY <1>1, <1>2, RestartOnGrid
  <2>2. OnGrid(s + Spacing)
    BY <1>2, <2>1, GridFacts
  <2>3. QED
    BY <1>1, <2>1, <2>2 DEF Timed, OnGrid
<1>5. FilesRegular'
  <2>1. \A f \in Times : \A b : Base(f, b) => Base(f, b)'
    <3>1. Times \subseteq Nat
      BY StreamAssumption DEF Times
    <3>2. QED
      BY <1>1, <1>2, <3>1 DEF Base, OnGrid
  <2>2. QED
    BY <1>3, <2>1 DEF GInv, FilesRegular, Regular
<1>6. Fresh' /\ Aligned'
  BY <1>1, <1>3 DEF Fresh, FirstTime, Aligned
<1>7. QED
  BY <1>4, <1>5, <1>6 DEF GInv

LEMMA GRefuse == ASSUME OneInterval, IInv, GInv, RefuseFile PROVE GInv'
<1>1. /\ next \in Nat /\ next' = next + Spacing /\ mode = "never_modify" /\ valid' = FALSE
      /\ UNCHANGED <<mode, disk, start>>
  BY StateFacts DEF RefuseFile, RefusesFile, config, run
<1>2. Timed'
  BY <1>1, GridFacts DEF GInv, Timed, OnGrid
<1>3. FilesRegular'
  BY <1>1 DEF GInv, FilesRegular, Regular, Base, OnGrid
<1>4. Fresh' /\ Aligned'
  BY <1>1 DEF Fresh, Aligned
<1>5. QED
  BY <1>2, <1>3, <1>4 DEF GInv

(* Once the record is chosen, it does not matter whether it is refused.    *)
LEMMA ChosenAligned ==
  ASSUME OneInterval, IInv, GInv, Due, NEW c \in Seq(Records), disk'[File] = c,
         filename' = File, NEW n \in 1..(Len(c) + 1), nRecords' = n, GoesOn(c, n, next),
         NEW old \in 0..Len(c), WriteOrRefuse(n, old),
         KeepsRecords(mode) /\ Len(c) = 0 => FirstWrite(File, next),
         UNCHANGED <<mode, fileInterval, start, interval>>
  PROVE  Aligned' /\ Timed'
<1>1. /\ start \in Nat /\ next \in Nat /\ start <= next /\ Spacing \in Nat /\ Spacing > 0
      /\ interval = Spacing /\ pc = "running"
  BY StateFacts DEF Due
<1>2. Len(c) \in Nat
  BY LenProperties
<1>3. CASE RefusesRecord(mode, n, old)
  <2>1. pc' = "running" /\ next' = next + Spacing /\ n <= old
    BY <1>1, <1>3 DEF WriteOrRefuse, RefusesRecord
  <2>2. next' - Spacing = next /\ n \in 1..Len(c)
    BY <1>1, <1>2, <2>1
  <2>3. c[n].time = next
    BY <1>2, <2>2 DEF GoesOn
  <2>4. Timed'
    BY <1>1, <2>1, GridFacts DEF GInv, Timed, OnGrid
  <2>5. LastTime' = next
    BY <2>1, <2>2 DEF LastTime, Spacing
  <2>6. Aligned'
    BY <1>1, <2>1, <2>2, <2>3, <2>5 DEF Aligned, File
  <2>7. QED
    BY <2>4, <2>6
<1>4. CASE ~ RefusesRecord(mode, n, old)
  <2>1. pc' = "writing" /\ next' = next /\ record' = n
    BY <1>4 DEF WriteOrRefuse
  <2>2. Timed'
    BY <2>1 DEF GInv, Timed, OnGrid
  <2>3. LastTime' = next
    BY <2>1 DEF LastTime
  <2>4. GoesOn(disk[filename], record, next)'
    BY <2>1 DEF GoesOn, Spacing
  <2>5. (KeepsRecords(mode) /\ Len(disk[filename]) = 0 => FirstWrite(filename, next))'
    BY <2>1 DEF FirstWrite, FirstTime, Spacing
  <2>6. Aligned'
    BY <1>1, <2>1, <2>3, <2>4, <2>5 DEF Aligned, File
  <2>7. QED
    BY <2>2, <2>6
<1>5. QED
  BY <1>3, <1>4

LEMMA GOpen == ASSUME OneInterval, IInv, GInv, OpenFile PROVE GInv'
<1> DEFINE c == Opened(mode, disk[File])
<1>1. /\ start \in Nat /\ next \in Nat /\ Spacing \in Nat /\ Spacing > 0
      /\ disk \in [Times -> Seq(Records) \cup {NoFile}] /\ mode \in ClobberModes
  BY StateFacts
<1>2. File \in Times /\ File \in Nat
  BY FileIsTime, StreamAssumption DEF OpenFile, Times
<1>3. c \in Seq(Records) /\ Len(c) \in Nat
  BY <1>1, <1>2, LenProperties DEF Opened
<1>4. Regular(c) /\ (Len(c) > 0 => KeepsRecords(mode) /\ c = disk[File] /\ c # NoFile)
  <2>1. CASE c = << >>
    BY <2>1 DEF Regular
  <2>2. CASE c # << >>
    <3>1. c = disk[File] /\ KeepsRecords(mode) /\ disk[File] # NoFile
      BY <2>2 DEF Opened
    <3>2. QED
      BY <1>2, <3>1 DEF GInv, FilesRegular
  <2>3. QED
    BY <2>1, <2>2
<1>5. /\ disk' = [disk EXCEPT ![File] = c] /\ disk'[File] = c
      /\ max' = Len(c) /\ nRecords' = FirstRecord(c, next)
      /\ WriteOrRefuse(nRecords', max') /\ valid' = TRUE /\ filename' = File
      /\ UNCHANGED <<mode, fileInterval, start, interval>>
      /\ Due /\ (~ valid \/ filename # File)
  BY <1>1, <1>2 DEF OpenFile, config, run
<1>6. KeepsRecords(mode) => FirstWrite(File, next)
  BY <1>5, OpeningIsFirst DEF KeepsRecords
<1>7. Len(c) > 0 => Base(File, c[1].time)
  BY <1>2, <1>4 DEF GInv, FilesRegular
<1> HIDE DEF c
<1>8. FirstRecord(c, next) \in 1..(Len(c) + 1) /\ GoesOn(c, FirstRecord(c, next), next)
  <2>1. CASE Len(c) = 0
    <3>1. Seek(c, Len(c), next) = 0
      BY <2>1, SeekMisses
    <3>2. QED
      BY <2>1, <3>1 DEF FirstRecord, GoesOn
  <2>2. CASE Len(c) > 0
    <3>1. FirstWrite(File, next)
      BY <1>4, <1>6, <2>2
    <3>2. OnGrid(start) /\ OnGrid(next)
      BY DEF GInv, Timed
    <3>3. QED
      BY <1>1, <1>2, <1>3, <1>4, <1>7, <3>1, <3>2, OpeningGoesOn
  <2>3. QED
    BY <1>3, <2>1, <2>2
<1>9. Aligned' /\ Timed'
  BY <1>3, <1>5, <1>6, <1>8, ChosenAligned
<1>10. FilesRegular'
  <2> SUFFICES ASSUME NEW f \in Times, disk'[f] # NoFile
               PROVE  /\ Regular(disk'[f])
                      /\ KeepsRecords(mode) /\ Len(disk'[f]) > 0 => Base(f, disk'[f][1].time)
    BY <1>5 DEF FilesRegular, Regular, Base, OnGrid, Spacing
  <2>1. CASE f = File
    BY <1>4, <1>5, <1>7, <2>1
  <2>2. CASE f # File
    BY <1>1, <1>5, <2>2 DEF GInv, FilesRegular
  <2>3. QED
    BY <2>1, <2>2
<1>11. Fresh'
  BY <1>5 DEF Fresh
<1>12. QED
  BY <1>9, <1>10, <1>11 DEF GInv

LEMMA GContinue == ASSUME OneInterval, IInv, GInv, ContinueFile PROVE GInv'
<1> DEFINE c == disk[File]
<1>1. /\ start \in Nat /\ next \in Nat /\ Spacing \in Nat /\ Spacing > 0 /\ max \in Nat
      /\ disk \in [Times -> Seq(Records) \cup {NoFile}] /\ nRecords \in Nat
  BY StateFacts
<1>2. /\ Due /\ valid /\ filename = File /\ pc = "running"
      /\ UNCHANGED <<mode, fileInterval, disk, start, interval, valid, filename, max>>
  BY DEF ContinueFile, Due, config, run
<1>3. File \in Times
  BY <1>2, FileIsTime
<1>4. /\ c # NoFile /\ c \in Seq(Records) /\ Len(c) \in Nat
      /\ nRecords <= max => Len(c) = max
      /\ nRecords > max => Len(c) = nRecords
  <2>1. disk[filename] # NoFile
    BY <1>2 DEF IInv, Position
  <2>2. c \in Seq(Records)
    BY <1>1, <1>2, <1>3, <2>1
  <2>3. QED
    BY <1>2, <2>1, <2>2, LenProperties DEF IInv, Position
<1>5. Regular(c)
  BY <1>3, <1>4 DEF GInv, FilesRegular
<1>6. nRecords \in 1..Len(c) /\ c[nRecords].time = next - Spacing
  BY <1>2 DEF GInv, Aligned, LastTime
<1>7. /\ NextRecord(mode, c, nRecords, max, next)
           = [record |-> nRecords + 1, nRecords |-> nRecords + 1]
      /\ nRecords + 1 \in 1..(Len(c) + 1) /\ GoesOn(c, nRecords + 1, next)
  <2> HIDE DEF c
  <2>1. nRecords <= max => Len(c) = max
    BY <1>4
  <2>2. c \in Seq(Records) /\ nRecords \in 1..Len(c) /\ max \in Nat /\ next \in Nat
        /\ c[nRecords].time = next - Spacing
    BY <1>1, <1>4, <1>6
  <2>3. QED
    BY <1>5, <2>1, <2>2, ContinuingGoesOn, Zenon
<1>8. nRecords' = nRecords + 1 /\ WriteOrRefuse(nRecords + 1, max)
  BY <1>7 DEF ContinueFile
<1>9. max \in 0..Len(c)
  BY <1>1, <1>4
<1>10. Len(c) # 0 /\ disk'[File] = c /\ filename' = File
  BY <1>2, <1>6
<1>11. Aligned' /\ Timed'
  <2> HIDE DEF c
  <2>1. QED
    BY <1>2, <1>4, <1>7, <1>8, <1>9, <1>10, ChosenAligned
<1>12. FilesRegular'
  BY <1>2 DEF GInv, FilesRegular, Regular, Base, OnGrid, Spacing
<1>13. Fresh'
  BY <1>2 DEF Fresh
<1>14. QED
  BY <1>11, <1>12, <1>13 DEF GInv

(* Writing the pending record, whole or torn.                              *)
LEMMA GPut ==
  ASSUME OneInterval, IInv, GInv, pc = "writing", NEW r \in Records, r.time = next,
         disk' = [disk EXCEPT ![filename] = Put(@, record, r)], UNCHANGED <<mode, start>>
  PROVE  /\ FilesRegular'
         /\ record \in 1..Len(disk'[filename]) /\ disk'[filename][record].time = next
<1> DEFINE c == disk[filename]
           d == Put(c, record, r)
<1>1. /\ start \in Nat /\ next \in Nat /\ filename \in Times /\ filename \in Nat
      /\ disk \in [Times -> Seq(Records) \cup {NoFile}] /\ NoFile \notin Seq(Records)
  BY StateFacts
<1>2. c \in Seq(Records) /\ record \in 1..(Len(c) + 1) /\ Len(c) \in Nat
  BY WrittenFile, LenProperties
<1>3. valid /\ GoesOn(c, record, next)
      /\ (KeepsRecords(mode) /\ Len(c) = 0 => FirstWrite(filename, next))
  BY DEF IInv, Pending, GInv, Aligned
<1>4. Regular(c) /\ (KeepsRecords(mode) /\ Len(c) > 0 => Base(filename, c[1].time))
  BY <1>1, <1>2 DEF GInv, FilesRegular
<1>5. disk'[filename] = d /\ \A f \in Times : f # filename => disk'[f] = disk[f]
  BY <1>1
<1>6. /\ Regular(d) /\ Len(d) > 0
      /\ d[1].time = IF Len(c) > 0 THEN c[1].time ELSE r.time
  <2> HIDE DEF c
  <2>1. QED
    BY <1>2, <1>3, <1>4, PutRegular
<1>7. /\ d[record] = r
      /\ Len(d) = IF record <= Len(c) THEN Len(c) ELSE record
  <2> HIDE DEF c
  <2>1. QED
    BY <1>2, PutSequence
<1> HIDE DEF c, d
<1>8. KeepsRecords(mode) => Base(filename, d[1].time)
  <2>1. CASE Len(c) > 0
    BY <1>4, <1>6, <2>1
  <2>2. CASE Len(c) = 0
    <3>1. OnGrid(start) /\ OnGrid(next)
      BY DEF GInv, Timed
    <3>2. QED
      BY <1>1, <1>3, <1>6, <2>2, <3>1, FirstWriteIsBase
  <2>3. QED
    BY <1>2, <2>1, <2>2
<1>9. FilesRegular'
  <2> SUFFICES ASSUME NEW f \in Times, disk'[f] # NoFile
               PROVE  /\ Regular(disk'[f])
                      /\ KeepsRecords(mode) /\ Len(disk'[f]) > 0 => Base(f, disk'[f][1].time)
    BY DEF FilesRegular, Regular, Base, OnGrid, Spacing
  <2>1. CASE f = filename
    BY <1>5, <1>6, <1>8, <2>1
  <2>2. CASE f # filename
    BY <1>5, <2>2 DEF GInv, FilesRegular
  <2>3. QED
    BY <2>1, <2>2
<1>10. record \in 1..Len(d)
  BY <1>2, <1>7
<1>11. QED
  BY <1>5, <1>7, <1>9, <1>10

LEMMA GWrite == ASSUME OneInterval, IInv, GInv, WriteRecord PROVE GInv'
<1>1. /\ start \in Nat /\ next \in Nat /\ Spacing \in Nat /\ interval = Spacing
  BY StateFacts
<1>2. Whole(next) \in Records /\ Whole(next).time = next
  BY DEF WriteRecord, IInv, Started, Whole, Records
<1>3. /\ pc = "writing" /\ pc' = "running" /\ next' = next + Spacing
      /\ disk' = [disk EXCEPT ![filename] = Put(@, record, Whole(next))]
      /\ UNCHANGED <<mode, fileInterval, start, valid, filename, nRecords, max, record>>
  BY <1>1 DEF WriteRecord, config, run, stream
<1>4. /\ FilesRegular'
      /\ record \in 1..Len(disk'[filename]) /\ disk'[filename][record].time = next
  BY <1>2, <1>3, GPut
<1>5. valid
  BY <1>3 DEF IInv, Pending
<1>6. /\ start <= next /\ filename = FileTime(start, next, fileInterval) /\ record = nRecords
  BY <1>3, <1>5 DEF GInv, Aligned, LastTime
<1>7. LastTime' = next
  BY <1>1, <1>3 DEF LastTime, Spacing
<1>8. Aligned'
  BY <1>3, <1>4, <1>6, <1>7 DEF Aligned
<1>9. Timed'
  <2>1. OnGrid(start) /\ OnGrid(next)
    BY DEF GInv, Timed
  <2>2. OnGrid(next + Spacing)
    BY <1>1, <2>1, GridFacts
  <2>3. QED
    BY <1>3, <2>1, <2>2 DEF Timed, OnGrid, Spacing
<1>10. Fresh'
  BY <1>3, <1>5 DEF Fresh
<1>11. QED
  BY <1>4, <1>8, <1>9, <1>10 DEF GInv

LEMMA GDie == ASSUME OneInterval, IInv, GInv, EndRun \/ CrashWriting PROVE GInv'
<1>1. pc' = "down" /\ valid' = FALSE /\ UNCHANGED <<mode, fileInterval, start, next>>
  BY DEF EndRun, CrashWriting, Die, config, run
<1>2. Timed' /\ Fresh' /\ Aligned'
  BY <1>1 DEF GInv, Timed, OnGrid, Fresh, Aligned, Spacing
<1>3. CASE UNCHANGED disk
  <2>1. FilesRegular'
    BY <1>1, <1>3 DEF GInv, FilesRegular, Regular, Base, OnGrid, Spacing
  <2>2. QED
    BY <1>2, <2>1 DEF GInv
<1>4. CASE CrashWriting /\ ~ UNCHANGED disk
  <2>1. Torn(next) \in Records /\ Torn(next).time = next
    BY <1>4 DEF CrashWriting, IInv, Started, Torn, Records
  <2>2. FilesRegular'
    BY <1>1, <1>4, <2>1, GPut DEF CrashWriting
  <2>3. QED
    BY <1>2, <2>2 DEF GInv
<1>5. QED
  BY <1>3, <1>4 DEF EndRun

LEMMA GNext == ASSUME OneInterval, IInv, GInv, [Next]_vars PROVE GInv'
<1>1. CASE UNCHANGED vars
  BY <1>1 DEF vars, config, run, stream, GInv, Timed, OnGrid, FilesRegular, Regular, Base,
              Fresh, FirstTime, Aligned, LastTime, GoesOn, FirstWrite, Spacing
<1>2. QED
  BY <1>1, GStart, GRefuse, GOpen, GContinue, GWrite, GDie DEF Next
LEMMA GInvariance == ASSUME OneInterval PROVE Spec => []GInv
<1>1. Init => GInv
  BY GInitially
<1>2. IInv /\ GInv /\ [Next]_vars => GInv'
  BY GNext
<1>3. QED
  BY <1>1, <1>2, Invariance, PTL DEF Spec

(* Whatever runs left in a file, and wherever later ones went on, its      *)
(* records are in the order of their times and no time occurs twice, as    *)
(* long as all runs write at one interval and resume at multiples of it    *)
(* (the search and the cached length in write_stream and MPAS_io).         *)
THEOREM RecordsAreInOrder == ASSUME OneInterval PROVE Spec => []RecordsAscend
<1>1. IInv /\ GInv => RecordsAscend
  <2> SUFFICES ASSUME IInv, GInv, NEW f \in Times, disk[f] # NoFile,
                      NEW i \in DOMAIN disk[f], NEW j \in DOMAIN disk[f], i < j
               PROVE  disk[f][i].time < disk[f][j].time
    BY DEF RecordsAscend
  <2>1. Regular(disk[f])
    BY DEF GInv, FilesRegular
  <2>2. disk[f] \in Seq(Records)
    BY StateFacts
  <2>3. i \in 1..Len(disk[f]) /\ j \in 1..Len(disk[f])
    BY <2>2, LenProperties
  <2>4. QED
    BY <2>1, <2>3 DEF Regular
<1>2. QED
  BY <1>1, GInvariance, Invariance, PTL
--------------------------------------------------------------------------------
(* What is recorded *)

(* The state of time t in a file; what StateAt says of the file of time f. *)
StateIn(c, t) ==
  IF c = NoFile \/ (\A i \in DOMAIN c : c[i].time # t) THEN "none"
  ELSE IF \E i \in DOMAIN c : c[i] = Whole(t) THEN "whole" ELSE "torn"

LEMMA StateAtIsIn == \A f, t : StateAt(f, t) = StateIn(disk[f], t)
BY DEF StateAt, StateIn

(* Writing a record changes the state of its time only. *)
LEMMA PutState ==
  ASSUME OneInterval, NoFile \notin Seq(Records), NEW c \in Seq(Records), Regular(c),
         NEW n \in 1..(Len(c) + 1), NEW u \in Times, GoesOn(c, n, u), NEW t,
         NEW r \in {Whole(u), Torn(u)}
  PROVE  StateIn(Put(c, n, r), t) =
           IF t = u THEN (IF r = Whole(u) THEN "whole" ELSE "torn") ELSE StateIn(c, t)
<1> DEFINE d == Put(c, n, r)
<1>1. r \in Records /\ r.time = u
  <2>1. Whole(u) \in Records /\ Whole(u).time = u
    BY DEF Whole, Records
  <2>2. Torn(u) \in Records /\ Torn(u).time = u
    BY DEF Torn, Records
  <2>3. QED
    BY <2>1, <2>2
<1>2. /\ d \in Seq(Records) /\ d[n] = r
      /\ Len(d) = IF n <= Len(c) THEN Len(c) ELSE n
      /\ \A i \in 1..Len(c) : i # n => d[i] = c[i]
  BY <1>1, PutSequence
<1>3. Regular(d)
  BY <1>1, PutRegular
<1>4. /\ Len(c) \in Nat /\ DOMAIN c = 1..Len(c) /\ DOMAIN d = 1..Len(d) /\ Len(d) \in Nat
      /\ c # NoFile /\ d # NoFile
  BY <1>2, LenProperties
<1>5. n \in DOMAIN d /\ (\A i \in DOMAIN d : i # n <=> i \in DOMAIN c /\ i # n)
      /\ (\A i \in DOMAIN c : i # n => i \in DOMAIN d /\ d[i] = c[i])
  BY <1>2, <1>4
<1>6. \A v : Whole(v).time = v
  BY DEF Whole
<1>7. CASE t = u
  <2>1. \A i \in DOMAIN d : d[i].time = u => i = n
    <3> SUFFICES ASSUME NEW i \in DOMAIN d, d[i].time = u, i # n PROVE FALSE
      OBVIOUS
    <3>1. d[i].time = d[n].time /\ d[n].time \in Nat /\ (i < n \/ n < i)
      BY <1>1, <1>2, <1>4, <1>5, RecordTime
    <3>2. QED
      BY <1>3, <1>4, <1>5, <3>1 DEF Regular
  <2>2. (\E i \in DOMAIN d : d[i] = Whole(u)) <=> r = Whole(u)
    BY <1>2, <1>5, <1>6, <2>1
  <2> HIDE DEF d
  <2>3. QED
    BY <1>1, <1>2, <1>4, <1>5, <1>7, <2>2 DEF StateIn, d
<1>8. CASE t # u
  <2>1. n \in DOMAIN c => c[n].time = u
    BY <1>4 DEF GoesOn
  <2>2. (\A i \in DOMAIN d : d[i].time # t) <=> (\A i \in DOMAIN c : c[i].time # t)
    <3>1. ASSUME \A i \in DOMAIN d : d[i].time # t, NEW i \in DOMAIN c PROVE c[i].time # t
      BY <1>5, <1>8, <2>1, <3>1
    <3>2. ASSUME \A i \in DOMAIN c : c[i].time # t, NEW i \in DOMAIN d PROVE d[i].time # t
      BY <1>1, <1>2, <1>5, <1>8, <3>2
    <3>3. QED
      BY <3>1, <3>2
  <2>3. (\E i \in DOMAIN d : d[i] = Whole(t)) <=> (\E i \in DOMAIN c : c[i] = Whole(t))
    <3>1. ASSUME NEW i \in DOMAIN d, d[i] = Whole(t) PROVE i \in DOMAIN c /\ c[i] = Whole(t)
      BY <1>1, <1>2, <1>5, <1>6, <1>8, <3>1
    <3>2. ASSUME NEW i \in DOMAIN c, c[i] = Whole(t) PROVE i \in DOMAIN d /\ d[i] = Whole(t)
      BY <1>5, <1>6, <1>8, <2>1, <3>2
    <3>3. QED
      BY <3>1, <3>2
  <2> HIDE DEF d
  <2>4. StateIn(d, t) = StateIn(c, t)
    BY <1>4, <2>2, <2>3 DEF StateIn
  <2>5. QED
    BY <1>8, <2>4 DEF d
<1>9. QED
  BY <1>7, <1>8

(* The times of a run are one interval apart. *)
LEMMA RunTimesApart ==
  ASSUME OneInterval, IInv, GInv, NEW t \in RunTimes
  PROVE  /\ t \in Nat /\ start <= t
         /\ t < next => t <= next - Spacing
         /\ t < next + Spacing => t < next \/ t = next
         /\ next = FirstTime => ~ (t < next)
<1>1. /\ start \in Nat /\ next \in Nat /\ interval = Spacing /\ Spacing \in Nat /\ Spacing > 0
  BY StateFacts
<1>2. t \in Nat /\ start <= t /\ (t > start \/ start = 0) /\ (t - start) % Spacing = 0
  <2>1. Times \subseteq Nat
    BY StreamAssumption DEF Times
  <2>2. QED
    BY <1>1, <2>1 DEF RunTimes
<1>3. OnGrid(start) /\ OnGrid(next)
  BY DEF GInv, Timed
<1>4. OnGrid(t)
  <2>1. PICK k \in Int : start = Spacing * k
    BY <1>1, <1>3, RemainderFree DEF OnGrid
  <2>2. t - start \in Int
    BY <1>1, <1>2
  <2>3. PICK m \in Int : t - start = Spacing * m
    BY <1>1, <1>2, <2>2, RemainderFree
  <2>4. t = Spacing * (k + m) /\ k + m \in Int
    BY <1>1, <1>2, <2>1, <2>3
  <2>5. QED
    BY <1>1, <1>2, <2>4, RemainderFree DEF OnGrid
<1>5. \A y \in Int : OnGrid(y) /\ t < y + Spacing /\ y < t + Spacing => t = y
  BY <1>2, <1>4, GridFacts
<1>6. t < next + Spacing => t < next \/ t = next
  BY <1>1, <1>2, <1>3, <1>5
<1>7. t < next => t <= next - Spacing
  BY <1>1, <1>2, <1>3, <1>5
<1>8. next = FirstTime => ~ (t < next)
  <2>1. SUFFICES ASSUME next = FirstTime, t < next PROVE FALSE
    OBVIOUS
  <2>2. start # 0 /\ next = start + Spacing
    BY <1>1, <1>2, <2>1 DEF FirstTime
  <2>3. t = start
    BY <1>1, <1>2, <1>3, <1>5, <2>1, <2>2
  <2>4. QED
    BY <1>2, <2>2, <2>3
<1>9. QED
  BY <1>2, <1>6, <1>7, <1>8

(* The record that is not written after all is one that append keeps.      *)
LEMMA RefusedIsThere ==
  ASSUME OneInterval, IInv, GInv, OpenFile \/ ContinueFile
  PROVE  /\ pc' # "writing" => /\ pc' = "running" /\ next' = next + Spacing
                               /\ mode # "overwrite" /\ mode # "replace_files"
                               /\ StateIn(disk'[File], next) # "none"
         /\ pc' = "writing" => next' = next
<1>1. /\ next \in Nat /\ Spacing \in Nat /\ Spacing > 0 /\ interval = Spacing /\ max \in Nat
  BY StateFacts
<1>2. IInv' /\ GInv'
  BY OpenKeeps, ContinueKeeps, GOpen, GContinue
<1>3. /\ valid' /\ filename' = File /\ mode' = mode
  BY DEF OpenFile, ContinueFile, config
<1>4. PICK n \in Nat \ {0} : WriteOrRefuse(n, max')
  <2>1. CASE OpenFile
    <3>1. nRecords' \in Nat \ {0}
      BY <1>2, <1>3 DEF IInv, TypeOK, Position
    <3>2. QED
      BY <2>1, <3>1 DEF OpenFile
  <2>2. CASE ContinueFile
    <3> DEFINE found == NextRecord(mode, disk[File], nRecords, max, next)
    <3>1. found.record \in Nat \ {0}
      <4>1. /\ found.nRecords \in Nat \ {0}
            /\ found.nRecords <= max => found.record \in 1..max
            /\ found.nRecords > max => found.record = found.nRecords
        BY <1>1, StateFacts, NextRecordBounds
      <4>2. QED
        BY <1>1, <4>1
    <3>2. WriteOrRefuse(found.record, max) /\ max' = max
      BY <2>2 DEF ContinueFile
    <3>3. QED
      BY <3>1, <3>2
  <2>3. QED
    BY <2>1, <2>2
<1>5. pc' = "writing" => next' = next
  BY <1>4 DEF WriteOrRefuse
<1>6. CASE pc' # "writing"
  <2>1. pc' = "running" /\ next' = next + Spacing /\ RefusesRecord(mode, n, max')
    BY <1>1, <1>4, <1>6 DEF WriteOrRefuse
  <2>2. LastTime' = next
    BY <1>1, <2>1 DEF LastTime, Spacing
  <2>3. /\ nRecords' \in 1..Len(disk'[File])
        /\ disk'[File][nRecords'].time = next
    BY <1>2, <1>3, <2>1, <2>2 DEF GInv, Aligned
  <2>4. disk'[File] # NoFile /\ disk'[File] \in Seq(Records)
    <3>1. disk'[File] # NoFile
      BY <1>2, <1>3 DEF IInv, Position
    <3>2. filename' \in Times /\ disk' \in [Times -> Seq(Records) \cup {NoFile}]
      BY <1>2 DEF IInv, TypeOK
    <3>3. QED
      BY <1>3, <3>1, <3>2
  <2>5. nRecords' \in DOMAIN disk'[File]
    BY <2>3, <2>4, LenProperties
  <2>6. StateIn(disk'[File], next) # "none"
    BY <2>3, <2>4, <2>5 DEF StateIn
  <2>7. mode # "overwrite" /\ mode # "replace_files"
    <3>1. mode # "overwrite" /\ n <= max'
      BY <2>1 DEF RefusesRecord
    <3>2. mode = "replace_files" => max' = 0
      BY <1>2, <1>3 DEF IInv, Position, KeepsRecords
    <3>3. QED
      BY <3>1, <3>2
  <2>8. QED
    BY <1>6, <2>1, <2>6, <2>7
<1>7. QED
  BY <1>5, <1>6

(* What the mode promises of a time that the run has been through. *)
Promised(m, state) ==
  /\ m \in {"overwrite", "replace_files"} => state = "whole"
  /\ m = "append" => state # "none"

LEMMA RecordedStep ==
  ASSUME OneInterval, IInv, GInv, RunIsRecorded, [Next]_vars
  PROVE  RunIsRecorded'
<1>0. /\ start \in Nat /\ next \in Nat /\ start <= next /\ interval = Spacing
      /\ Spacing \in Nat /\ Spacing > 0 /\ fileInterval \in Nat
      /\ disk \in [Times -> Seq(Records) \cup {NoFile}] /\ NoFile \notin Seq(Records)
      /\ mode \in ClobberModes
  BY StateFacts
<1>1. UNCHANGED <<mode, fileInterval>>
  BY DEF Next, StartRun, RefuseFile, OpenFile, ContinueFile, WriteRecord, EndRun,
         CrashWriting, Die, config, vars
<1> SUFFICES ASSUME pc' # "down", NEW t \in RunTimes', t < next'
             PROVE  Promised(mode, StateIn(disk'[FileTime(start', t, fileInterval)], t))
  BY <1>1 DEF RunIsRecorded, StateAt, StateIn, Promised
<1> DEFINE f == FileTime(start, t, fileInterval)
<1>2. ASSUME t \in RunTimes, t < next, pc # "down"
      PROVE  Promised(mode, StateIn(disk[f], t)) /\ f \in Times
  <2>1. t \in Nat /\ t \in Times /\ start <= t
    BY <1>0, <1>2, RunTimesApart DEF RunTimes
  <2>2. f \in start..t
    BY <1>0, <2>1, FileTimeBounded
  <2>3. f \in Times
    BY <1>0, <2>1, <2>2, StreamAssumption DEF Times
  <2>4. QED
    BY <1>2, <2>3 DEF RunIsRecorded, StateAt, StateIn, Promised
<1>3. CASE StartRun
  <2>1. PICK s \in Nat : start' = s /\ interval' = Spacing /\ next' = IF s = 0 THEN 0 ELSE s + Spacing
    BY <1>0, <1>3 DEF StartRun, OneInterval
  <2>2. t \in Nat /\ t >= s /\ (t > s \/ s = 0) /\ (t - s) % Spacing = 0
    <3>1. Times \subseteq Nat
      BY StreamAssumption DEF Times
    <3>2. QED
      BY <2>1, <3>1 DEF RunTimes
  <2>3. s # 0 /\ t - s \in Nat /\ t - s > 0 /\ t - s < Spacing
    BY <1>0, <2>1, <2>2
  <2>4. \A x \in Nat : x < Spacing => x % Spacing = x
    BY <1>0
  <2>5. QED
    BY <2>2, <2>3, <2>4
<1>4. CASE RefuseFile
  BY <1>4 DEF RefuseFile, RefusesFile, Promised
<1>5. CASE OpenFile \/ ContinueFile
  <2>1. UNCHANGED <<start, interval>> /\ pc = "running"
    BY <1>5 DEF OpenFile, ContinueFile, run, Due
  <2>2. t \in RunTimes
    BY <2>1 DEF RunTimes
  <2>3. /\ pc' # "writing" => /\ next' = next + Spacing
                              /\ mode # "overwrite" /\ mode # "replace_files"
                              /\ StateIn(disk'[File], next) # "none"
        /\ pc' = "writing" => next' = next
    BY <1>5, RefusedIsThere
  <2>4. t < next \/ (t = next /\ pc' # "writing")
    BY <1>0, <2>2, <2>3, RunTimesApart
  <2>5. CASE t = next /\ pc' # "writing"
    BY <2>1, <2>3, <2>5 DEF File, Promised
  <2>6. CASE t < next /\ ContinueFile
    BY <1>2, <2>1, <2>2, <2>6 DEF ContinueFile
  <2>7. CASE t < next /\ OpenFile
    <3>1. Promised(mode, StateIn(disk[f], t)) /\ f \in Times
      BY <1>2, <2>1, <2>2, <2>7
    <3>2. disk' = [disk EXCEPT ![File] = Opened(mode, disk[File])] /\ Due
          /\ (~ valid \/ filename # File)
      BY <2>7 DEF OpenFile
    <3>3. CASE mode = "never_modify"
      BY <3>3 DEF Promised
    <3>4. CASE f # File
      BY <1>0, <2>1, <3>1, <3>2, <3>4
    <3>5. CASE f = File /\ KeepsRecords(mode)
      <4>1. disk'[f] = IF disk[f] = NoFile THEN << >> ELSE disk[f]
        BY <1>0, <3>1, <3>2, <3>5 DEF Opened
      <4>2. StateIn(disk'[f], t) = StateIn(disk[f], t)
        BY <4>1 DEF StateIn
      <4>3. QED
        BY <2>1, <3>1, <4>2
    <3>6. CASE f = File /\ mode # "never_modify"
      <4>1. t \in Nat /\ start <= t /\ t <= next - Spacing /\ next # FirstTime
        BY <2>2, <2>7, RunTimesApart
      <4>2. ~ valid
        BY <3>2, <3>6, <4>1, OpeningIsFirst
      <4>3. next = FirstTime
        BY <2>1, <3>6, <4>2 DEF GInv, Fresh
      <4>4. QED
        BY <4>1, <4>3
    <3>7. QED
      BY <3>3, <3>4, <3>6
  <2>8. QED
    BY <1>5, <2>4, <2>5, <2>6, <2>7
<1>6. CASE WriteRecord
  <2>1. /\ UNCHANGED <<start, interval>> /\ pc = "writing" /\ next' = next + Spacing
        /\ disk' = [disk EXCEPT ![filename] = Put(@, record, Whole(next))]
    BY <1>0, <1>6 DEF WriteRecord, run
  <2>2. t \in RunTimes
    BY <2>1 DEF RunTimes
  <2>3. t < next \/ t = next
    BY <2>1, <2>2, RunTimesApart
  <2>4. /\ disk[filename] \in Seq(Records) /\ record \in 1..(Len(disk[filename]) + 1)
        /\ next \in Times /\ filename \in Times
    BY <2>1, WrittenFile DEF IInv, TypeOK, Started
  <2>5. valid
    BY <2>1 DEF IInv, Pending
  <2>6. /\ Regular(disk[filename]) /\ GoesOn(disk[filename], record, next)
        /\ filename = FileTime(start, next, fileInterval)
    BY <1>0, <2>1, <2>4, <2>5 DEF GInv, FilesRegular, Aligned, LastTime
  <2>7. StateIn(disk'[filename], t) = IF t = next THEN "whole" ELSE StateIn(disk[filename], t)
    <3>1. disk'[filename] = Put(disk[filename], record, Whole(next))
      BY <1>0, <2>1, <2>4
    <3>2. QED
      BY <1>0, <2>4, <2>6, <3>1, PutState
  <2>8. CASE t = next
    BY <2>1, <2>6, <2>7, <2>8 DEF Promised
  <2>9. CASE t < next
    <3>1. Promised(mode, StateIn(disk[f], t)) /\ f \in Times
      BY <1>2, <2>1, <2>2, <2>9
    <3>2. f # filename => disk'[f] = disk[f]
      BY <1>0, <2>1, <3>1
    <3>3. StateIn(disk'[f], t) = StateIn(disk[f], t)
      BY <1>0, <2>7, <2>9, <3>2
    <3>4. QED
      BY <2>1, <3>1, <3>3
  <2>10. QED
    BY <2>3, <2>8, <2>9
<1>7. CASE EndRun \/ CrashWriting
  BY <1>7 DEF EndRun, CrashWriting, Die
<1>8. CASE UNCHANGED vars
  BY <1>2, <1>8 DEF vars, run, RunTimes
<1>9. QED
  BY <1>3, <1>4, <1>5, <1>6, <1>7, <1>8 DEF Next

(* Every time that a run has been through is in its file: whole, or under  *)
(* append at least there, whatever earlier runs left and wherever they     *)
(* died (write_stream of mpas_stream_manager.F).                           *)
THEOREM RunsAreRecorded == ASSUME OneInterval PROVE Spec => []RunIsRecorded
<1>1. Init => RunIsRecorded
  BY DEF Init, RunIsRecorded
<1>2. IInv /\ GInv /\ RunIsRecorded /\ [Next]_vars => RunIsRecorded'
  BY RecordedStep
<1>3. QED
  BY <1>1, <1>2, GInvariance, Invariance, PTL DEF Spec
--------------------------------------------------------------------------------
(* The files implement RecordStore *)

(* The variables of RecordStore, as StreamFile's Store gives them. *)
Exists  == {f \in Times : disk[f] # NoFile}
Stored  == [f \in Times |-> [t \in Times |-> StateAt(f, t)]]
Created == IF valid /\ ~ KeepsRecords(mode) THEN {filename} ELSE {}

LEMMA StoredIs == Stored = [f \in Times |-> [t \in Times |-> StateIn(disk[f], t)]]
BY StateAtIsIn DEF Stored

LEMMA StoredWillBe == Stored' = [f \in Times |-> [t \in Times |-> StateIn(disk'[f], t)]]
<1>1. \A f, t : StateAt(f, t)' = StateIn(disk'[f], t)
  BY DEF StateAt, StateIn
<1>2. Stored' = [f \in Times |-> [t \in Times |-> StateAt(f, t)']]
  BY DEF Stored, Times
<1>3. QED
  BY <1>1, <1>2

LEMMA SameFiles == UNCHANGED disk => Exists' = Exists /\ Stored' = Stored
BY StoredIs, StoredWillBe DEF Exists, Times

(* A file that appears, or is emptied, has no records. *)
LEMMA CreatingFile ==
  ASSUME OneInterval, IInv, OpenFile, ~ (KeepsRecords(mode) /\ disk[File] # NoFile)
  PROVE  /\ File \in Times /\ (File \in Exists => mode = "replace_files")
         /\ Exists' = Exists \cup {File}
         /\ Stored' = [Stored EXCEPT ![File] = [t \in Times |-> "none"]]
<1>0. disk \in [Times -> Seq(Records) \cup {NoFile}] /\ NoFile \notin Seq(Records)
      /\ mode \in ClobberModes
  BY StateFacts
<1>1. File \in Times
  BY FileIsTime DEF OpenFile
<1>2. disk' = [disk EXCEPT ![File] = << >>] /\ ~ RefusesFile(mode, disk[File])
  BY DEF OpenFile, Opened
<1>3. disk[File] # NoFile => mode = "replace_files"
  BY <1>0, <1>2 DEF RefusesFile, KeepsRecords, ClobberModes
<1>4. << >> # NoFile
  <2>1. << >> \in Seq(Records)
    OBVIOUS
  <2>2. QED
    BY <1>0, <2>1
<1>5. Exists' = Exists \cup {File}
  <2>1. \A f \in Times : disk'[f] = IF f = File THEN << >> ELSE disk[f]
    BY <1>0, <1>1, <1>2
  <2>2. Exists' = {f \in Times : disk'[f] # NoFile}
    BY DEF Exists, Times
  <2>3. QED
    BY <1>1, <1>4, <2>1, <2>2 DEF Exists
<1>6. Stored' = [Stored EXCEPT ![File] = [t \in Times |-> "none"]]
  <2>1. \A t : StateIn(<< >>, t) = "none"
    BY DEF StateIn
  <2>2. \A f \in Times : disk'[f] = IF f = File THEN << >> ELSE disk[f]
    BY <1>0, <1>1, <1>2
  <2>3. QED
    BY <1>1, <2>1, <2>2, StoredIs, StoredWillBe
<1>7. QED
  BY <1>1, <1>3, <1>5, <1>6 DEF Exists

(* A record that is written changes the state of its time, where the mode  *)
(* allows it.                                                              *)
LEMMA WritingTime ==
  ASSUME OneInterval, IInv, GInv, pc = "writing", NEW r \in {Whole(next), Torn(next)},
         disk' = [disk EXCEPT ![filename] = Put(@, record, r)]
  PROVE  /\ filename \in Times /\ next \in Times
         /\ filename \in Exists /\ Exists' = Exists
         /\ mode = "append" => Stored[filename][next] = "none"
         /\ ~ KeepsRecords(mode) => filename \in Created
         /\ Stored' = [Stored EXCEPT ![filename][next] =
                                       IF r = Whole(next) THEN "whole" ELSE "torn"]
<1> DEFINE c == disk[filename]
           d == Put(c, record, r)
           s == IF r = Whole(next) THEN "whole" ELSE "torn"
<1>0. /\ disk \in [Times -> Seq(Records) \cup {NoFile}] /\ NoFile \notin Seq(Records)
      /\ filename \in Times /\ next \in Times /\ next \in Nat /\ Spacing \in Nat /\ Spacing > 0
  BY StateFacts DEF IInv, Started
<1>1. /\ c \in Seq(Records) /\ record \in 1..(Len(c) + 1) /\ Len(c) \in Nat
      /\ mode = "append" => record = Len(c) + 1
  BY WrittenFile, LenProperties
<1>2. valid /\ GoesOn(c, record, next) /\ Regular(c)
  BY <1>0, <1>1 DEF IInv, Pending, GInv, Aligned, FilesRegular
<1>3. \A f \in Times : disk'[f] = IF f = filename THEN d ELSE disk[f]
  BY <1>0
<1>4. r \in Records
  <2>1. Whole(next) \in Records /\ Torn(next) \in Records
    BY <1>0 DEF Whole, Torn, Records
  <2>2. QED
    BY <2>1
<1>5. d # NoFile /\ c # NoFile
  BY <1>0, <1>1, <1>4, PutSequence
<1>6. \A t : StateIn(d, t) = IF t = next THEN s ELSE StateIn(c, t)
  <2> HIDE DEF c
  <2>1. QED
    BY <1>0, <1>1, <1>2, PutState
<1>7. Exists' = Exists /\ filename \in Exists
  <2>1. Exists' = {f \in Times : disk'[f] # NoFile}
    BY DEF Exists, Times
  <2> HIDE DEF d
  <2>2. QED
    BY <1>0, <1>3, <1>5, <2>1 DEF Exists
<1>8. Stored' = [Stored EXCEPT ![filename][next] = s]
  <2> HIDE DEF c, d, s
  <2>1. \A f \in Times, t \in Times :
          StateIn(disk'[f], t) = IF f = filename /\ t = next THEN s ELSE StateIn(disk[f], t)
    BY <1>3, <1>6 DEF c
  <2>2. QED
    BY <1>0, <2>1, StoredIs, StoredWillBe
<1>9. mode = "append" => Stored[filename][next] = "none"
  <2> SUFFICES ASSUME mode = "append" PROVE StateIn(c, next) = "none"
    BY <1>0, StoredIs
  <2>1. Len(c) > 0 => c[Len(c)].time = next - Spacing
    BY <1>1, <1>2 DEF GoesOn
  <2>2. ASSUME NEW i \in DOMAIN c PROVE c[i].time # next
    <3>1. i \in 1..Len(c) /\ Len(c) \in 1..Len(c) /\ Len(c) > 0
      BY <1>1, <2>2, LenProperties
    <3>2. c[i].time \in Nat /\ c[Len(c)].time \in Nat
      BY <1>1, <3>1, RecordTime
    <3>3. c[i].time <= c[Len(c)].time
      BY <1>1, <1>2, <3>1, <3>2 DEF Regular
    <3>4. QED
      BY <1>0, <2>1, <3>1, <3>2, <3>3
  <2>3. QED
    BY <2>2 DEF StateIn
<1>10. QED
  BY <1>0, <1>2, <1>7, <1>8, <1>9 DEF Created

LEMMA StepMaps ==
  ASSUME OneInterval, IInv, GInv, [Next]_vars
  PROVE  [Store!Next]_(Store!vars)
<1> DEFINE Same == UNCHANGED <<mode, Exists, Stored, Created>>
<1>1. Same => UNCHANGED Store!vars
  BY DEF Store!vars, Exists, Stored, Created
<1>2. UNCHANGED <<mode, Exists, Stored>> /\ Created' = {} => Store!Next
  BY DEF Store!Next, Store!Release, Exists, Stored, Created
<1>3. mode \in ClobberModes
  BY StateFacts
<1>4. CASE StartRun \/ ContinueFile
  <2>1. UNCHANGED <<mode, disk, valid, filename>>
    BY <1>4 DEF StartRun, ContinueFile, config, stream
  <2>2. QED
    BY <1>1, <2>1, SameFiles DEF Created, KeepsRecords
<1>5. CASE RefuseFile
  BY <1>2, <1>5, SameFiles DEF RefuseFile, config, Created
<1>6. CASE OpenFile /\ KeepsRecords(mode) /\ disk[File] # NoFile
  <2>1. UNCHANGED <<mode, disk>>
    <3>1. File \in Times
      BY <1>6, FileIsTime DEF OpenFile
    <3>2. QED
      BY <1>6, <3>1, StateFacts DEF OpenFile, Opened, config
  <2>2. Created' = {}
    BY <1>6, <2>1 DEF Created, KeepsRecords
  <2>3. QED
    BY <1>2, <2>1, <2>2, SameFiles
<1>7. CASE OpenFile /\ ~ (KeepsRecords(mode) /\ disk[File] # NoFile)
  <2>1. /\ File \in Times /\ (File \in Exists => mode = "replace_files")
        /\ Exists' = Exists \cup {File}
        /\ Stored' = [Stored EXCEPT ![File] = [t \in Times |-> "none"]]
    BY <1>7, CreatingFile
  <2>2. mode' = mode /\ Created' = IF Store!OwnFilesOnly THEN {File} ELSE {}
    BY <1>3, <1>7 DEF OpenFile, config, Created, KeepsRecords, Store!OwnFilesOnly, ClobberModes
  <2>3. PICK f \in Times : f = File
    BY <2>1
  <2>4. Store!Create(f)
    BY <2>1, <2>2, <2>3 DEF Store!Create, Exists, Stored, Created
  <2>5. QED
    BY <2>4 DEF Store!Next
<1>8. ASSUME pc = "writing", NEW r \in {Whole(next), Torn(next)},
             disk' = [disk EXCEPT ![filename] = Put(@, record, r)]
      PROVE  /\ Store!MayWrite(filename, next) /\ filename \in Times /\ next \in Times
             /\ Exists' = Exists
             /\ Stored' = [Stored EXCEPT ![filename][next] =
                                           IF r = Whole(next) THEN "whole" ELSE "torn"]
  <2>1. /\ filename \in Times /\ next \in Times
        /\ filename \in Exists /\ Exists' = Exists
        /\ mode = "append" => Stored[filename][next] = "none"
        /\ ~ KeepsRecords(mode) => filename \in Created
        /\ Stored' = [Stored EXCEPT ![filename][next] =
                                      IF r = Whole(next) THEN "whole" ELSE "torn"]
    BY <1>8, WritingTime
  <2>2. Store!OwnFilesOnly => ~ KeepsRecords(mode)
    BY DEF Store!OwnFilesOnly, KeepsRecords
  <2>3. Store!MayWrite(filename, next)
    BY <2>1, <2>2 DEF Store!MayWrite, Exists, Stored, Created
  <2>4. QED
    BY <2>1, <2>3
<1>9. CASE WriteRecord
  <2>1. /\ pc = "writing" /\ UNCHANGED <<mode, valid, filename>>
        /\ disk' = [disk EXCEPT ![filename] = Put(@, record, Whole(next))]
    BY <1>9 DEF WriteRecord, config, stream
  <2>2. /\ Store!MayWrite(filename, next) /\ filename \in Times /\ next \in Times
        /\ Exists' = Exists /\ Stored' = [Stored EXCEPT ![filename][next] = "whole"]
    BY <1>8, <2>1
  <2>3. Created' = Created
    BY <2>1 DEF Created, KeepsRecords
  <2>4. Store!Write(filename, next)
    BY <2>1, <2>2, <2>3 DEF Store!Write, Exists, Stored, Created
  <2>5. QED
    BY <2>2, <2>4 DEF Store!Next
<1>10. CASE (EndRun \/ CrashWriting) /\ UNCHANGED disk
  <2>1. UNCHANGED mode /\ Created' = {}
    BY <1>10 DEF EndRun, CrashWriting, Die, config, Created
  <2>2. QED
    BY <1>2, <1>10, <2>1, SameFiles
<1>11. CASE CrashWriting /\ ~ UNCHANGED disk
  <2>1. /\ pc = "writing" /\ UNCHANGED mode /\ Created' = {}
        /\ disk' = [disk EXCEPT ![filename] = Put(@, record, Torn(next))]
    BY <1>11 DEF CrashWriting, Die, config, Created
  <2>2. Torn(next) # Whole(next)
    <3>1. Torn(next).whole = FALSE /\ Whole(next).whole = TRUE
      BY DEF Torn, Whole
    <3>2. QED
      BY <3>1
  <2>3. /\ Store!MayWrite(filename, next) /\ filename \in Times /\ next \in Times
        /\ Exists' = Exists /\ Stored' = [Stored EXCEPT ![filename][next] = "torn"]
    BY <1>8, <2>1, <2>2
  <2>4. Store!Damage(filename, next)
    BY <2>1, <2>3 DEF Store!Damage, Exists, Stored, Created
  <2>5. QED
    BY <2>3, <2>4 DEF Store!Next
<1>12. CASE UNCHANGED vars
  <2>1. UNCHANGED <<mode, disk, valid, filename>>
    BY <1>12 DEF vars, config, stream
  <2>2. QED
    BY <1>1, <2>1, SameFiles DEF Created, KeepsRecords
<1>13. QED
  BY <1>4, <1>5, <1>6, <1>7, <1>9, <1>10, <1>11, <1>12 DEF Next, EndRun

(* The files of a stream are a map from times to records: a write affects  *)
(* the record of its own time, in a way that the clobber mode allows, and  *)
(* no other, whatever the record pointer, the search and the cached length *)
(* of the Time dimension do to find its place.                             *)
THEOREM RefinesRecordStore == ASSUME OneInterval PROVE Spec => ImplementsRecordStore
<1>1. Init => Store!Init
  <2> SUFFICES ASSUME Init PROVE Store!Init
    OBVIOUS
  <2>1. mode \in {"never_modify", "append", "replace_files", "overwrite"}
    BY StreamAssumption DEF Init, ClobberModes
  <2>2. Exists = {} /\ Created = {}
    BY DEF Init, Exists, Created
  <2>3. Stored = [f \in Times |-> [t \in Times |-> "none"]]
    BY StoredIs DEF Init, StateIn
  <2>4. QED
    BY <2>1, <2>2, <2>3 DEF Store!Init, Exists, Stored, Created
<1>2. IInv /\ GInv /\ [Next]_vars => [Store!Next]_(Store!vars)
  BY StepMaps
<1>3. QED
  BY <1>1, <1>2, GInvariance, Invariance, PTL DEF Spec, ImplementsRecordStore, Store!Spec
================================================================================
