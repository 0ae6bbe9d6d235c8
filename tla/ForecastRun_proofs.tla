--------------------------- MODULE ForecastRun_proofs --------------------------
(***************************************************************************)
(* Proofs about ForecastRun, for every horizon, restart interval, number   *)
(* of jobs and number of failures that satisfy the module's assumptions.   *)
(***************************************************************************)
EXTENDS ForecastRun, TLAPS

LEMMA ConstantFacts ==
  /\ Horizon \in Nat /\ NumJobs \in Nat /\ NumJobs >= 1 /\ MaxFailures \in Nat
  /\ RestartInterval \in RestartHours
  /\ FgatHour \in RestartHours
  /\ Horizon \in RestartHours
  /\ RestartInterval < FgatHour /\ FgatHour < Horizon
  /\ \A h \in RestartHours : h \in Nat /\ 1 <= h /\ h <= Horizon /\ RestartInterval <= h
<1>1. RestartHours \subseteq 1..Horizon
  BY DEF RestartHours
<1>2. QED
  BY <1>1, ParameterAssumption, RestartHoursAssumption

(* The shell's integer arithmetic is exact at a restart hour: a warm start *)
(* integrates to the horizon.                                              *)
LEMMA WarmStartReachesHorizon ==
  ASSUME NEW h \in RestartHours
  PROVE  h + RunLength(h) = Horizon
<1>1. (h \div RangeUnit) * RangeUnit = h
  BY RestartHoursAssumption
<1>2. h \in Nat /\ Horizon \in Nat
  BY ConstantFacts
<1>3. QED
  BY <1>1, <1>2 DEF RunLength

LEMMA EndJobType ==
  ASSUME job \in 1..NumJobs, EndJob
  PROVE  job' \in 1..NumJobs /\ pc' \in {"pending", "ended"}
BY ConstantFacts DEF EndJob

(* Every variable keeps its type; in particular every attempt, cold or     *)
(* warm, integrates to the horizon and never beyond it.                    *)
LEMMA TypeInductive ==
  (Init => TypeOK) /\ (TypeOK /\ [Next]_vars => TypeOK')
<1>1. Init => TypeOK
  <2> SUFFICES ASSUME Init PROVE TypeOK
    OBVIOUS
  <2>1. init \in BOOLEAN /\ ok \in BOOLEAN /\ log \in BOOLEAN /\ tainted \in BOOLEAN
    BY Zenon DEF Init
  <2>2. clock \in Hours /\ job \in 1..NumJobs /\ failures \in 0..MaxFailures
    BY ConstantFacts DEF Init, Hours
  <2>3. QED
    BY <2>1, <2>2 DEF Init, TypeOK, FileStates
<1>2. TypeOK /\ [Next]_vars => TypeOK'
  <2> SUFFICES ASSUME TypeOK, [Next]_vars PROVE TypeOK'
    OBVIOUS
  <2> USE DEF TypeOK, files, model
  <2>1. CASE AlreadyDone
    BY <2>1, EndJobType DEF AlreadyDone
  <2>2. CASE NoInitFile
    BY <2>2, EndJobType DEF NoInitFile
  <2>3. CASE ColdStart
    <3>1. log' \in BOOLEAN /\ tainted' \in BOOLEAN
      BY <2>3, Zenon DEF ColdStart
    <3>2. clock' \in Hours /\ stop' = Horizon
      BY <2>3, ConstantFacts DEF ColdStart, Hours
    <3>3. QED
      BY <2>3, <3>1, <3>2 DEF ColdStart, FileStates, ModelPhases
  <2>4. CASE WarmStart
    <3>1. PICK h \in OnDisk : /\ clock' = h /\ stop' = h + RunLength(h)
                              /\ tainted' = (rstr[h] # "good")
                              /\ resumed' = resumed \cup {h}
      BY <2>4 DEF WarmStart
    <3>2. h \in RestartHours
      BY DEF OnDisk
    <3>3. stop' = Horizon /\ clock' \in Hours /\ resumed' \subseteq RestartHours
      BY <3>1, <3>2, WarmStartReachesHorizon, ConstantFacts DEF Hours
    <3>4. tainted' \in BOOLEAN
      BY <3>1
    <3>5. QED
      BY <2>4, <3>3, <3>4 DEF WarmStart, ModelPhases
  <2>5. CASE IntegrateHour
    <3>1. clock' \in Hours
      BY <2>5, ConstantFacts DEF IntegrateHour, Hours
    <3>2. rstr' \in [RestartHours -> FileStates] /\ mpas' \in [Hours -> FileStates]
      BY <2>5 DEF IntegrateHour, FileStates
    <3>3. now' \in Nat /\ mtime' \in [RestartHours -> Nat]
      BY <2>5 DEF IntegrateHour
    <3>4. pc' \in ModelPhases
      BY <2>5 DEF IntegrateHour, ModelPhases
    <3>5. QED
      BY <2>5, <3>1, <3>2, <3>3, <3>4 DEF IntegrateHour
  <2>6. CASE SyncRestart
    BY <2>6 DEF SyncRestart, Synced, FileStates, ModelPhases
  <2>7. CASE CreateOutput
    BY <2>7 DEF CreateOutput, FileStates, ModelPhases
  <2>8. CASE SyncOutput
    BY <2>8 DEF SyncOutput, Synced, FileStates, ModelPhases
  <2>9. CASE ModelFinishes
    BY <2>9 DEF ModelFinishes
  <2>10. CASE HandOver
    BY <2>10, ConstantFacts DEF HandOver, MoveRestart, FileStates
  <2>11. CASE ReportFailure
    BY <2>11, EndJobType DEF ReportFailure
  <2>12. CASE TouchOK
    BY <2>12, EndJobType DEF TouchOK
  <2>13. CASE ModelAborts
    BY <2>13, ConstantFacts DEF ModelAborts
  <2>14. CASE TimeLimit
    BY <2>14, EndJobType, ConstantFacts DEF TimeLimit
  <2>15. CASE NodeFails
    BY <2>15, ConstantFacts DEF NodeFails
  <2>16. CASE UNCHANGED vars
    BY <2>16 DEF vars
  <2>17. QED
    BY <2>1, <2>2, <2>3, <2>4, <2>5, <2>6, <2>7, <2>8, <2>9, <2>10, <2>11,
       <2>12, <2>13, <2>14, <2>15, <2>16 DEF Next, Step
<1>3. QED
  BY <1>1, <1>2

\* The variables keep their types; in particular a forecast always runs to the
\* horizon (stop), whatever restart file it starts from.
THEOREM TypeCorrect == Spec => []TypeOK
BY TypeInductive, PTL DEF Spec
--------------------------------------------------------------------------------
(* Why the newest restart file is the latest: modification times never     *)
(* exceed the clock they come from; the first restart file outlives the    *)
(* others; and an attempt has every restart file behind it, unless it is a *)
(* cold start on its way to rewriting the first one.                       *)
MtimeBounded == \A h \in RestartHours : mtime[h] <= now

FirstOnDisk == OnDisk # {} => RestartInterval \in OnDisk

FilesBehind ==
  Running => \/ \A h \in OnDisk : h <= clock
             \/ OnDisk \subseteq {RestartInterval} /\ clock < RestartInterval

FirstBehind == Running /\ clock >= RestartInterval => RestartInterval \in OnDisk

RestartBeingWritten ==
  pc = "writingRestart" => clock \in RestartHours /\ rstr[clock] = "partial"

CheckpointInv ==
  /\ NewestIsLatest
  /\ MtimeBounded
  /\ FirstOnDisk
  /\ FilesBehind
  /\ FirstBehind
  /\ RestartBeingWritten

(* The newest restart file is the one of the latest hour, and only one is. *)
LEMMA NewestIsGreatest ==
  ASSUME TypeOK, NewestIsLatest, NEW h \in OnDisk, IsNewest(h)
  PROVE  /\ \A g \in OnDisk : g <= h
         /\ \A g \in OnDisk : IsNewest(g) => g = h
<1>1. \A g \in OnDisk : g \in Nat /\ mtime[g] \in Nat
  BY ConstantFacts DEF OnDisk, TypeOK
<1>2. \A g \in OnDisk : g <= h
  BY <1>1 DEF IsNewest, NewestIsLatest
<1>3. \A g \in OnDisk : IsNewest(g) => h <= g
  BY <1>1 DEF IsNewest, NewestIsLatest
<1>4. QED
  BY <1>1, <1>2, <1>3

(* Steps that leave the restart files and the model's hour alone.          *)
LEMMA CheckpointFrame ==
  ASSUME TypeOK, CheckpointInv, UNCHANGED <<rstr, mtime, now, clock>>,
         Running' => Running,
         pc' = "writingRestart" => pc = "writingRestart"
  PROVE  CheckpointInv'
<1>1. OnDisk' = OnDisk
  BY DEF OnDisk
<1>2. QED
  BY <1>1 DEF CheckpointInv, NewestIsLatest, MtimeBounded, FirstOnDisk, FilesBehind,
              FirstBehind, RestartBeingWritten

LEMMA EndJobNotRunning ==
  ASSUME EndJob
  PROVE  pc' \in {"pending", "ended"} /\ ~ Running'
BY DEF EndJob, Running, ModelPhases

LEMMA CheckpointInductive ==
  (Init => CheckpointInv) /\ (TypeOK /\ CheckpointInv /\ [Next]_vars => CheckpointInv')
<1>1. Init => CheckpointInv
  <2> SUFFICES ASSUME Init PROVE CheckpointInv
    OBVIOUS
  <2>1. OnDisk = {}
    BY DEF Init, OnDisk
  <2>2. ~ Running /\ pc # "writingRestart"
    BY DEF Init, Running, ModelPhases
  <2>3. MtimeBounded
    BY DEF Init, MtimeBounded
  <2>4. QED
    BY <2>1, <2>2, <2>3 DEF CheckpointInv, NewestIsLatest, FirstOnDisk, FilesBehind,
                            FirstBehind, RestartBeingWritten
<1>2. TypeOK /\ CheckpointInv /\ [Next]_vars => CheckpointInv'
  <2> SUFFICES ASSUME TypeOK, CheckpointInv, [Next]_vars PROVE CheckpointInv'
    OBVIOUS
  <2>1. CASE AlreadyDone
    BY <2>1, EndJobNotRunning, CheckpointFrame DEF AlreadyDone, files, model
  <2>2. CASE NoInitFile
    BY <2>2, EndJobNotRunning, CheckpointFrame DEF NoInitFile, files, model
  <2>3. CASE ColdStart
    <3>1. UNCHANGED <<rstr, mtime, now>> /\ clock' = 0 /\ pc' = "writingOutput"
      BY <2>3 DEF ColdStart
    <3>2. OnDisk' = OnDisk
      BY <3>1 DEF OnDisk
    <3>3. OnDisk \subseteq {RestartInterval}
      BY <2>3 DEF ColdStart, MayColdStart, SeveralOnDisk, CheckpointInv, FirstOnDisk
    <3>4. clock' < RestartInterval
      BY <3>1, ConstantFacts
    <3>5. QED
      BY <3>1, <3>2, <3>3, <3>4, ConstantFacts
         DEF CheckpointInv, NewestIsLatest, MtimeBounded, FirstOnDisk, FilesBehind,
             FirstBehind, RestartBeingWritten
  <2>4. CASE WarmStart
    <3>1. PICK h \in OnDisk : IsNewest(h) /\ clock' = h
      BY <2>4 DEF WarmStart
    <3>2. UNCHANGED <<rstr, mtime, now>> /\ pc' = "integrating"
      BY <2>4 DEF WarmStart
    <3>3. OnDisk' = OnDisk
      BY <3>2 DEF OnDisk
    <3>4. \A g \in OnDisk : g <= clock'
      BY <3>1, NewestIsGreatest DEF CheckpointInv
    <3>5. QED
      BY <3>1, <3>2, <3>3, <3>4
         DEF CheckpointInv, NewestIsLatest, MtimeBounded, FirstOnDisk, FilesBehind,
             FirstBehind, RestartBeingWritten
  <2>5. CASE IntegrateHour
    <3>1. pc = "integrating" /\ clock' = clock + 1 /\ clock \in Nat /\ Running
      BY <2>5, ConstantFacts DEF IntegrateHour, TypeOK, Hours, Running, ModelPhases
    <3>2. CASE clock' \in RestartHours
      <4>1. /\ rstr' = [rstr EXCEPT ![clock'] = "partial"]
            /\ mtime' = [mtime EXCEPT ![clock'] = now + 1]
            /\ now' = now + 1
            /\ pc' = "writingRestart"
        BY <2>5, <3>2 DEF IntegrateHour
      <4>2. OnDisk' = OnDisk \cup {clock'}
        BY <4>1, <3>2 DEF OnDisk, TypeOK
      <4>3. rstr'[clock'] = "partial"
        BY <4>1, <3>2 DEF TypeOK
      <4>4. \A h \in OnDisk : h < clock' \/ h = clock'
        <5>1. ASSUME OnDisk \subseteq {RestartInterval}, clock < RestartInterval
              PROVE  \A h \in OnDisk : h = clock'
          BY <5>1, <3>1, <3>2, ConstantFacts
        <5>2. \A h \in OnDisk : h \in Nat
          BY ConstantFacts DEF OnDisk
        <5>3. QED
          BY <5>1, <5>2, <3>1 DEF CheckpointInv, FilesBehind
      <4>5. NewestIsLatest'
        <5> SUFFICES ASSUME NEW g \in OnDisk', NEW h \in OnDisk', g < h
                     PROVE  mtime'[g] < mtime'[h]
          BY DEF NewestIsLatest
        <5>1. g \in RestartHours /\ h \in RestartHours /\ g \in Nat /\ h \in Nat
          BY ConstantFacts DEF OnDisk
        <5>2. mtime[g] \in Nat /\ now \in Nat /\ mtime[g] <= now
          BY <5>1 DEF TypeOK, CheckpointInv, MtimeBounded
        <5>3. g # clock'
          BY <4>2, <4>4, <5>1, <3>1
        <5>4. CASE h = clock'
          BY <5>4, <5>3, <5>2, <5>1, <4>1 DEF TypeOK
        <5>5. CASE h # clock'
          BY <5>5, <5>3, <5>1, <4>1, <4>2 DEF TypeOK, CheckpointInv, NewestIsLatest
        <5>6. QED
          BY <5>4, <5>5
      <4>6. MtimeBounded'
        BY <4>1, <3>2 DEF TypeOK, CheckpointInv, MtimeBounded
      <4>7. RestartInterval \in OnDisk'
        BY <4>2, <3>1, <3>2, ConstantFacts DEF CheckpointInv, FirstBehind
      <4>8. FilesBehind'
        BY <4>2, <4>4, <3>1, ConstantFacts DEF FilesBehind, OnDisk
      <4>9. QED
        BY <4>3, <4>5, <4>6, <4>7, <4>8, <3>2
           DEF CheckpointInv, FirstOnDisk, FirstBehind, RestartBeingWritten
    <3>3. CASE clock' \notin RestartHours
      <4>1. UNCHANGED <<rstr, mtime, now>> /\ pc' = "writingOutput"
        BY <2>5, <3>3 DEF IntegrateHour
      <4>2. OnDisk' = OnDisk
        BY <4>1 DEF OnDisk
      <4>3. clock' >= RestartInterval => clock >= RestartInterval
        BY <3>1, <3>3, ConstantFacts
      <4>4. clock < RestartInterval => clock' < RestartInterval
        BY <3>1, <3>3, ConstantFacts
      <4>5. FilesBehind'
        BY <4>2, <4>4, <3>1, ConstantFacts DEF CheckpointInv, FilesBehind, OnDisk
      <4>6. QED
        BY <4>1, <4>2, <4>3, <4>5, <3>1
           DEF CheckpointInv, NewestIsLatest, MtimeBounded, FirstOnDisk, FirstBehind,
               RestartBeingWritten
    <3>4. QED
      BY <3>2, <3>3
  <2>6. CASE SyncRestart
    <3>1. /\ clock \in RestartHours /\ rstr[clock] = "partial" /\ Running
          /\ pc' = "restartWritten" /\ UNCHANGED <<mtime, now, clock>>
          /\ rstr' = [rstr EXCEPT ![clock] = Synced]
      BY <2>6 DEF SyncRestart, model, CheckpointInv, RestartBeingWritten, Running, ModelPhases
    <3>2. OnDisk' = OnDisk
      BY <3>1 DEF OnDisk, TypeOK, Synced
    <3>3. QED
      BY <3>1, <3>2 DEF CheckpointInv, NewestIsLatest, MtimeBounded, FirstOnDisk,
                        FilesBehind, FirstBehind, RestartBeingWritten
  <2>7. CASE CreateOutput
    BY <2>7, CheckpointFrame DEF CreateOutput, model, Running, ModelPhases
  <2>8. CASE SyncOutput
    BY <2>8, CheckpointFrame DEF SyncOutput, model, Running, ModelPhases
  <2>9. CASE ModelFinishes
    BY <2>9, CheckpointFrame DEF ModelFinishes, model, Running, ModelPhases
  <2>10. CASE HandOver
    <3>1. /\ pc = "returned" /\ pc' = "moved" /\ Running
          /\ UNCHANGED <<mtime, now, clock>>
      BY <2>10 DEF HandOver, model, Running
    <3>2. OnDisk' = OnDisk \ {FgatHour}
      BY <2>10, ConstantFacts DEF HandOver, MoveRestart, OnDisk, TypeOK
    <3>3. RestartInterval # FgatHour
      BY ConstantFacts
    <3>4. QED
      BY <3>1, <3>2, <3>3 DEF CheckpointInv, NewestIsLatest, MtimeBounded, FirstOnDisk,
                              FilesBehind, FirstBehind, RestartBeingWritten
  <2>11. CASE ReportFailure
    BY <2>11, EndJobNotRunning, CheckpointFrame DEF ReportFailure, files, model
  <2>12. CASE TouchOK
    BY <2>12, EndJobNotRunning, CheckpointFrame DEF TouchOK, model
  <2>13. CASE ModelAborts
    BY <2>13, CheckpointFrame DEF ModelAborts, files, model, Running
  <2>14. CASE TimeLimit
    BY <2>14, EndJobNotRunning, CheckpointFrame DEF TimeLimit, files, model
  <2>15. CASE NodeFails
    BY <2>15, CheckpointFrame DEF NodeFails, files, model, Running, ModelPhases
  <2>16. CASE UNCHANGED vars
    BY <2>16, CheckpointFrame DEF vars, files, model, Running
  <2>17. QED
    BY <2>1, <2>2, <2>3, <2>4, <2>5, <2>6, <2>7, <2>8, <2>9, <2>10, <2>11,
       <2>12, <2>13, <2>14, <2>15, <2>16 DEF Next, Step
<1>3. QED
  BY <1>1, <1>2

(* The file ls -rt1 puts last, which a warm start resumes from, is always  *)
(* the restart file of the latest forecast hour.                           *)
THEOREM NewestRestartIsLatest == Spec => []NewestIsLatest
<1>1. TypeOK /\ CheckpointInv => NewestIsLatest
  BY DEF CheckpointInv
<1>2. QED
  BY <1>1, TypeInductive, CheckpointInductive, PTL DEF Spec

(* Once there are two restart files, no good one is truncated again: the   *)
(* only files ever opened for writing are beyond every file there is.      *)
THEOREM GoodCheckpointsSurvive == Spec => CheckpointsSurvive
<1> DEFINE Kept == SeveralOnDisk =>
             \A h \in RestartHours : rstr[h] = "good" =>
               \/ rstr'[h] = "good"
               \/ h = FgatHour /\ fgat' = "good"
<1>1. TypeOK /\ CheckpointInv /\ [Next]_vars => [Kept]_vars
  <2> SUFFICES ASSUME TypeOK, CheckpointInv, Next,
                      SeveralOnDisk, NEW h \in RestartHours, rstr[h] = "good"
               PROVE  rstr'[h] = "good" \/ (h = FgatHour /\ fgat' = "good")
    OBVIOUS
  <2>1. h \in OnDisk /\ h \in Nat
    BY ConstantFacts DEF OnDisk
  <2>2. CASE IntegrateHour
    <3>1. h <= clock /\ clock \in Nat /\ clock' = clock + 1
      BY <2>1, <2>2, ConstantFacts DEF IntegrateHour, CheckpointInv, FilesBehind, Running,
                        ModelPhases, SeveralOnDisk, TypeOK, Hours
    <3>2. h # clock'
      BY <2>1, <3>1
    <3>3. QED
      BY <2>2, <3>2 DEF IntegrateHour, TypeOK
  <2>3. CASE SyncRestart
    BY <2>3 DEF SyncRestart, CheckpointInv, RestartBeingWritten, TypeOK
  <2>4. CASE HandOver
    BY <2>4, ConstantFacts DEF HandOver, MoveRestart, TypeOK
  <2>5. CASE ~ (IntegrateHour \/ SyncRestart \/ HandOver)
    <3>1. UNCHANGED rstr
      BY <2>5 DEF Next, Step, AlreadyDone, NoInitFile, ColdStart, WarmStart, CreateOutput,
                  SyncOutput, ModelFinishes, ReportFailure, TouchOK, ModelAborts, TimeLimit,
                  NodeFails, files
    <3>2. QED
      BY <3>1
  <2>6. QED
    BY <2>2, <2>3, <2>4, <2>5
<1>2. QED
  BY <1>1, TypeInductive, CheckpointInductive, PTL DEF Spec, CheckpointsSurvive
--------------------------------------------------------------------------------
(* Why data assimilation gets its restart file once: the log line means    *)
(* the horizon, and once the file has left the run directory the last and  *)
(* the first restart files are there, so no attempt starts below them.     *)
LogMeansEnd ==
  /\ Running /\ log => clock = Horizon
  /\ pc = "moved" => log
  /\ pc \in ModelPhases => ~ log

LastBehind == Running /\ clock = Horizon => Horizon \in OnDisk

HandedOver ==
  fgat # "absent" => /\ rstr[FgatHour] = "absent"
                     /\ RestartInterval \in OnDisk /\ Horizon \in OnDisk
                     /\ Running => clock = Horizon

HandOverInv == LogMeansEnd /\ LastBehind /\ HandedOver

LEMMA HandOverFrame ==
  ASSUME TypeOK, HandOverInv, UNCHANGED <<rstr, fgat, log, clock>>,
         Running' => Running,
         pc' = "moved" => pc = "moved",
         pc' \in ModelPhases => pc \in ModelPhases
  PROVE  HandOverInv'
<1>1. OnDisk' = OnDisk
  BY DEF OnDisk
<1>2. QED
  BY <1>1 DEF HandOverInv, LogMeansEnd, LastBehind, HandedOver

LEMMA HandOverInductive ==
  /\ Init => HandOverInv
  /\ TypeOK /\ CheckpointInv /\ HandOverInv /\ [Next]_vars => HandOverInv'
<1>1. Init => HandOverInv
  BY DEF Init, HandOverInv, LogMeansEnd, LastBehind, HandedOver, Running, ModelPhases
<1>2. TypeOK /\ CheckpointInv /\ HandOverInv /\ [Next]_vars => HandOverInv'
  <2> SUFFICES ASSUME TypeOK, CheckpointInv, HandOverInv, [Next]_vars PROVE HandOverInv'
    OBVIOUS
  <2>1. CASE AlreadyDone
    BY <2>1, EndJobNotRunning, HandOverFrame DEF AlreadyDone, files, model, ModelPhases
  <2>2. CASE NoInitFile
    BY <2>2, EndJobNotRunning, HandOverFrame DEF NoInitFile, files, model, ModelPhases
  <2>3. CASE ColdStart
    <3>1. fgat = "absent"
      BY <2>3, ConstantFacts
         DEF ColdStart, MayColdStart, SeveralOnDisk, HandOverInv, HandedOver
    <3>2. log' = FALSE /\ fgat' = fgat /\ clock' = 0 /\ pc' = "writingOutput"
      BY <2>3 DEF ColdStart
    <3>3. clock' # Horizon
      BY <3>2, ConstantFacts
    <3>4. QED
      BY <3>1, <3>2, <3>3 DEF HandOverInv, LogMeansEnd, LastBehind, HandedOver
  <2>4. CASE WarmStart
    <3>1. PICK h \in OnDisk : IsNewest(h) /\ clock' = h
      BY <2>4 DEF WarmStart
    <3>2. UNCHANGED <<rstr, fgat>> /\ pc' = "integrating" /\ log' = FALSE
      BY <2>4 DEF WarmStart
    <3>3. OnDisk' = OnDisk
      BY <3>2 DEF OnDisk
    <3>4. Horizon \in OnDisk => clock' = Horizon
      <4>1. h \in Nat /\ h <= Horizon /\ Horizon \in Nat
        BY ConstantFacts DEF OnDisk
      <4>2. QED
        BY <3>1, <4>1, NewestIsGreatest DEF CheckpointInv
    <3>5. QED
      BY <3>1, <3>2, <3>3, <3>4
         DEF HandOverInv, LogMeansEnd, LastBehind, HandedOver
  <2>5. CASE IntegrateHour
    <3>1. /\ Running /\ clock \in Nat /\ clock < Horizon /\ clock' = clock + 1
          /\ UNCHANGED <<fgat, log>> /\ ~ log
      BY <2>5, ConstantFacts DEF IntegrateHour, TypeOK, Hours, Running, ModelPhases,
                                 HandOverInv, LogMeansEnd
    <3>2. fgat = "absent"
      BY <3>1, ConstantFacts DEF HandOverInv, HandedOver
    <3>3. pc' \in {"writingRestart", "writingOutput"}
      BY <2>5 DEF IntegrateHour
    <3>4. clock' = Horizon => Horizon \in OnDisk'
      BY <2>5, ConstantFacts DEF IntegrateHour, OnDisk, TypeOK
    <3>5. QED
      BY <3>1, <3>2, <3>3, <3>4 DEF HandOverInv, LogMeansEnd, LastBehind, HandedOver
  <2>6. CASE SyncRestart
    <3>1. /\ clock \in RestartHours /\ rstr[clock] = "partial" /\ Running
          /\ pc' = "restartWritten" /\ UNCHANGED <<fgat, log, clock>> /\ ~ log
          /\ rstr' = [rstr EXCEPT ![clock] = Synced]
      BY <2>6 DEF SyncRestart, model, CheckpointInv, RestartBeingWritten, Running,
                  ModelPhases, HandOverInv, LogMeansEnd
    <3>2. OnDisk' = OnDisk
      BY <3>1 DEF OnDisk, TypeOK, Synced
    <3>3. fgat # "absent" => rstr'[FgatHour] = "absent"
      BY <3>1, ConstantFacts DEF HandOverInv, HandedOver, TypeOK
    <3>4. QED
      BY <3>1, <3>2, <3>3 DEF HandOverInv, LogMeansEnd, LastBehind, HandedOver
  <2>7. CASE CreateOutput
    BY <2>7, HandOverFrame DEF CreateOutput, model, Running, ModelPhases
  <2>8. CASE SyncOutput
    BY <2>8, HandOverFrame DEF SyncOutput, model, Running, ModelPhases
  <2>9. CASE ModelFinishes
    <3>1. clock = Horizon /\ clock' = clock /\ pc' = "returned" /\ Running
      BY <2>9, ConstantFacts DEF ModelFinishes, model, TypeOK, Hours, Running, ModelPhases
    <3>2. UNCHANGED <<rstr, fgat>>
      BY <2>9 DEF ModelFinishes
    <3>3. OnDisk' = OnDisk
      BY <3>2 DEF OnDisk
    <3>4. QED
      BY <3>1, <3>2, <3>3 DEF HandOverInv, LogMeansEnd, LastBehind, HandedOver, ModelPhases
  <2>10. CASE HandOver
    <3>1. /\ pc = "returned" /\ pc' = "moved" /\ Running /\ log /\ log' = log
          /\ clock' = clock /\ clock = Horizon
      BY <2>10 DEF HandOver, Finished, model, Running, HandOverInv, LogMeansEnd
    <3>2. OnDisk' = OnDisk \ {FgatHour}
      BY <2>10, ConstantFacts DEF HandOver, MoveRestart, OnDisk, TypeOK
    <3>3. rstr'[FgatHour] = "absent"
      BY <2>10, ConstantFacts DEF HandOver, MoveRestart, TypeOK
    <3>4. RestartInterval \in OnDisk' /\ Horizon \in OnDisk'
      BY <3>1, <3>2, ConstantFacts DEF CheckpointInv, FirstBehind, HandOverInv, LastBehind
    <3>5. QED
      BY <3>1, <3>3, <3>4 DEF HandOverInv, LogMeansEnd, LastBehind, HandedOver, ModelPhases
  <2>11. CASE ReportFailure
    BY <2>11, EndJobNotRunning, HandOverFrame DEF ReportFailure, files, model, ModelPhases
  <2>12. CASE TouchOK
    BY <2>12, EndJobNotRunning, HandOverFrame DEF TouchOK, model, ModelPhases
  <2>13. CASE ModelAborts
    BY <2>13, HandOverFrame DEF ModelAborts, files, model, Running, ModelPhases
  <2>14. CASE TimeLimit
    BY <2>14, EndJobNotRunning, HandOverFrame DEF TimeLimit, files, model, ModelPhases
  <2>15. CASE NodeFails
    BY <2>15, HandOverFrame DEF NodeFails, files, model, Running, ModelPhases
  <2>16. CASE UNCHANGED vars
    BY <2>16, HandOverFrame DEF vars, files, model, Running
  <2>17. QED
    BY <2>1, <2>2, <2>3, <2>4, <2>5, <2>6, <2>7, <2>8, <2>9, <2>10, <2>11,
       <2>12, <2>13, <2>14, <2>15, <2>16 DEF Next, Step
<1>3. QED
  BY <1>1, <1>2

(* The file handed to data assimilation is never replaced or removed by a  *)
(* later attempt, job or requeue of the same cycle.                        *)
THEOREM HandOverStays == Spec => HandOverIsFinal
<1>1. TypeOK /\ CheckpointInv /\ HandOverInv /\ [Next]_vars
        => [fgat # "absent" => fgat' = fgat]_vars
  <2> SUFFICES ASSUME HandOverInv, Next, fgat # "absent" PROVE fgat' = fgat
    OBVIOUS
  <2>1. CASE HandOver
    BY <2>1 DEF HandOver, MoveRestart, HandOverInv, HandedOver
  <2>2. CASE ~ HandOver
    BY <2>2 DEF Next, Step, AlreadyDone, NoInitFile, ColdStart, WarmStart, IntegrateHour,
                SyncRestart, CreateOutput, SyncOutput, ModelFinishes, ReportFailure, TouchOK,
                ModelAborts, TimeLimit, NodeFails, files
  <2>3. QED
    BY <2>1, <2>2
<1>2. QED
  BY <1>1, TypeInductive, CheckpointInductive, HandOverInductive, PTL
     DEF Spec, HandOverIsFinal

--------------------------------------------------------------------------------
(* What a forecast that was declared complete has produced, and that the   *)
(* chain of jobs implements the restartable forecast of CheckpointRestart. *)

(* An output file is as sound as the attempt or the restart file that      *)
(* vouches for it.                                                         *)
Sound(t, clean) == Complete(mpas[t]) /\ (clean => mpas[t] = "good")

OutputDone == pc = "integrating" \/ log

OutputsBehind ==
  Running => \A t \in Hours \ resumed :
               t < clock \/ (t = clock /\ OutputDone) => Sound(t, ~ tainted)

OutputsBelow ==
  SeveralOnDisk => \A h \in OnDisk, t \in Hours \ resumed :
                     t < h => Sound(t, rstr[h] = "good")

(* Only a warm start, from one of several files, can start from bad data.  *)
TaintedHasSeveral == Running /\ tainted => SeveralOnDisk

RestartDone == pc \in ModelPhases \ {"writingRestart"}

(* The restart file of FgatHour is good where it is, or was handed over.   *)
FgatSafe == rstr[FgatHour] = "good" \/ fgat = "good"

FgatBelow ==
  SeveralOnDisk => \A h \in OnDisk : FgatHour < h /\ rstr[h] = "good" => FgatSafe

FgatBehind ==
  Running /\ ~ tainted
    => (FgatHour < clock \/ (FgatHour = clock /\ RestartDone) => FgatSafe)

FgatMoved == pc = "moved" /\ ~ tainted => fgat = "good"

OkStops == ok => ~ Running

CompletionInv ==
  /\ OutputsBehind
  /\ OutputsBelow
  /\ TaintedHasSeveral
  /\ FgatBelow
  /\ FgatBehind
  /\ FgatMoved
  /\ OkStops
  /\ HolesOnlyWhereResumed
  /\ CleanCompletion

BaseInv == TypeOK /\ CheckpointInv /\ HandOverInv

LEMMA BaseInductive == (Init => BaseInv) /\ (BaseInv /\ [Next]_vars => BaseInv')
BY TypeInductive, CheckpointInductive, HandOverInductive DEF BaseInv

(* A step that leaves the files alone and does not start an attempt.       *)
LEMMA CompletionFrame ==
  ASSUME CompletionInv, UNCHANGED <<mpas, rstr, fgat, ok, clock, tainted, resumed>>,
         Running' => Running,
         Running' /\ OutputDone' => OutputDone,
         RestartDone' => RestartDone,
         pc' = "moved" => pc = "moved"
  PROVE  CompletionInv'
<1>1. OnDisk' = OnDisk
  BY DEF OnDisk
<1>2. SeveralOnDisk' = SeveralOnDisk
  BY <1>1 DEF SeveralOnDisk
<1>3. OutputsBehind'
  BY DEF CompletionInv, OutputsBehind, Sound, Complete
<1>4. OutputsBelow'
  BY <1>1, <1>2 DEF CompletionInv, OutputsBelow, Sound, Complete
<1>5. TaintedHasSeveral' /\ OkStops'
  BY <1>2 DEF CompletionInv, TaintedHasSeveral, OkStops
<1>6. FgatBelow' /\ FgatMoved'
  BY <1>1, <1>2 DEF CompletionInv, FgatBelow, FgatMoved, FgatSafe
<1>7. FgatBehind'
  BY DEF CompletionInv, FgatBehind, RestartDone, FgatSafe
<1>8. HolesOnlyWhereResumed' /\ CleanCompletion'
  BY DEF CompletionInv, HolesOnlyWhereResumed, CleanCompletion, Complete
<1>9. QED
  BY <1>3, <1>4, <1>5, <1>6, <1>7, <1>8 DEF CompletionInv

LEMMA CompletionInductive ==
  (Init => CompletionInv) /\ (BaseInv /\ CompletionInv /\ [Next]_vars => CompletionInv')
<1>1. Init => CompletionInv
  <2> SUFFICES ASSUME Init PROVE CompletionInv
    OBVIOUS
  <2>1. ~ Running /\ ~ ok /\ pc # "moved"
    BY DEF Init, Running, ModelPhases
  <2>2. ~ SeveralOnDisk
    BY DEF Init, SeveralOnDisk, OnDisk
  <2>3. QED
    BY <2>1, <2>2 DEF CompletionInv, OutputsBehind, OutputsBelow, TaintedHasSeveral, FgatBelow,
       FgatBehind, RestartDone, FgatMoved, OkStops, HolesOnlyWhereResumed, CleanCompletion
<1>2. BaseInv /\ CompletionInv /\ [Next]_vars => CompletionInv'
  <2> SUFFICES ASSUME BaseInv, CompletionInv, [Next]_vars PROVE CompletionInv'
    OBVIOUS
  <2>0. TypeOK /\ CheckpointInv /\ HandOverInv
    BY DEF BaseInv
  <2>00. Running => ~ ok
    BY DEF CompletionInv, OkStops
  <2>1. CASE AlreadyDone
    BY <2>1, EndJobNotRunning, CompletionFrame
       DEF AlreadyDone, files, model, RestartDone, ModelPhases
  <2>2. CASE NoInitFile
    BY <2>2, EndJobNotRunning, CompletionFrame
       DEF NoInitFile, files, model, RestartDone, ModelPhases
  <2>3. CASE ColdStart
    <3>1. /\ UNCHANGED <<rstr, fgat, ok, resumed>> /\ ~ ok /\ ~ ok' /\ ~ log' /\ clock' = 0
          /\ pc' = "writingOutput" /\ ~ tainted' /\ ~ SeveralOnDisk
      BY <2>3 DEF ColdStart, MayColdStart
    <3>2. ~ SeveralOnDisk'
      BY <3>1 DEF SeveralOnDisk, OnDisk
    <3>3. OutputsBehind'
      BY <3>1, ConstantFacts DEF OutputsBehind, OutputDone, Hours
    <3>4. FgatBehind'
      BY <3>1, ConstantFacts DEF FgatBehind, RestartDone
    <3>5. QED
      BY <3>1, <3>2, <3>3, <3>4 DEF CompletionInv, OutputsBelow, TaintedHasSeveral,
         FgatBelow, FgatMoved, OkStops, HolesOnlyWhereResumed, CleanCompletion
  <2>4. CASE WarmStart
    <3>1. PICK h \in OnDisk : /\ IsNewest(h) /\ clock' = h /\ tainted' = (rstr[h] # "good")
                              /\ resumed' = resumed \cup {h}
      BY <2>4 DEF WarmStart
    <3>2. /\ UNCHANGED <<mpas, rstr, fgat, ok>> /\ ~ ok /\ ~ ok' /\ SeveralOnDisk
          /\ pc' = "integrating"
      BY <2>4 DEF WarmStart
    <3>3. OnDisk' = OnDisk
      BY <3>2 DEF OnDisk
    <3>4. SeveralOnDisk' = SeveralOnDisk
      BY <3>3 DEF SeveralOnDisk
    <3>5. \A t \in Hours \ resumed' : t < h => Sound(t, ~ tainted')
      BY <3>1, <3>2 DEF CompletionInv, OutputsBelow, Sound
    <3>6. OutputsBehind'
      BY <3>1, <3>2, <3>5 DEF OutputsBehind, Sound, Complete
    <3>7. OutputsBelow'
      BY <3>1, <3>2, <3>3, <3>4 DEF CompletionInv, OutputsBelow, Sound, Complete
    <3>8. FgatBehind'
      BY <3>1, <3>2 DEF CompletionInv, FgatBelow, FgatBehind, RestartDone, FgatSafe, OnDisk
    <3>9. FgatBelow'
      BY <3>2, <3>3, <3>4 DEF CompletionInv, FgatBelow, FgatSafe
    <3>10. QED
      BY <3>2, <3>4, <3>6, <3>7, <3>8, <3>9 DEF CompletionInv, TaintedHasSeveral,
         FgatMoved, OkStops, HolesOnlyWhereResumed, CleanCompletion
  <2>5. CASE IntegrateHour
    <3>1. /\ pc = "integrating" /\ clock' = clock + 1 /\ clock \in Nat /\ Running
          /\ UNCHANGED <<fgat, ok, log, tainted, resumed>> /\ ~ ok /\ ~ log
      BY <2>0, <2>00, <2>5, ConstantFacts DEF IntegrateHour, TypeOK, Hours, Running,
         ModelPhases, HandOverInv, LogMeansEnd
    <3>2. pc' \in {"writingRestart", "writingOutput"} /\ ~ OutputDone'
      BY <2>5, <3>1 DEF IntegrateHour, OutputDone
    <3>3. \A t \in Hours : t # clock' => mpas'[t] = mpas[t]
      BY <2>0, <2>5 DEF IntegrateHour, TypeOK
    <3>4. \A t \in Hours \ resumed : t < clock' => Sound(t, ~ tainted) /\ t # clock'
      BY <3>1, ConstantFacts DEF CompletionInv, OutputsBehind, OutputDone, Hours
    <3>5. OutputsBehind'
      BY <3>1, <3>2, <3>3, <3>4 DEF OutputsBehind, Sound, Complete
    <3>6. SeveralOnDisk => \A h \in OnDisk : h \in Nat /\ h < clock'
      <4>1. \A h \in OnDisk : h \in Nat
        BY ConstantFacts DEF OnDisk
      <4>2. SeveralOnDisk => \A h \in OnDisk : h <= clock
        BY <2>0, <3>1 DEF CheckpointInv, FilesBehind, SeveralOnDisk
      <4>3. QED
        BY <4>1, <4>2, <3>1
    <3>7. CASE clock' \in RestartHours
      <4>1. /\ rstr' = [rstr EXCEPT ![clock'] = "partial"]
            /\ mpas' = mpas /\ pc' = "writingRestart"
        BY <2>5, <3>7 DEF IntegrateHour
      <4>2. OnDisk' = OnDisk \cup {clock'}
        BY <2>0, <4>1, <3>7 DEF OnDisk, TypeOK
      <4>3. rstr'[clock'] = "partial" /\ \A h \in RestartHours : h # clock' => rstr'[h] = rstr[h]
        BY <2>0, <4>1, <3>7 DEF TypeOK
      <4>4. SeveralOnDisk => SeveralOnDisk'
        BY <4>2 DEF SeveralOnDisk
      <4>5. ASSUME ~ SeveralOnDisk, NEW g \in OnDisk, g # clock'
            PROVE  g = RestartInterval /\ g < clock' /\ ~ tainted
        <5>1. g = RestartInterval
          BY <4>5, <2>0 DEF CheckpointInv, FirstOnDisk, SeveralOnDisk
        <5>2. QED
          BY <5>1, <4>5, <3>1, <3>7, ConstantFacts DEF CompletionInv, TaintedHasSeveral
      <4>6. OutputsBelow'
        <5> SUFFICES ASSUME SeveralOnDisk', NEW h \in OnDisk', NEW t \in Hours \ resumed, t < h
                     PROVE  Sound(t, rstr'[h] = "good")
          BY <3>1, <4>1 DEF OutputsBelow, Sound, Complete
        <5>1. CASE h = clock'
          BY <5>1, <4>3, <3>4 DEF Sound
        <5>2. CASE h # clock' /\ SeveralOnDisk
          <6>1. h \in OnDisk /\ h \in RestartHours
            BY <5>2, <4>2 DEF OnDisk
          <6>2. QED
            BY <6>1, <5>2, <4>3 DEF CompletionInv, OutputsBelow
        <5>3. CASE h # clock' /\ ~ SeveralOnDisk
          <6>1. h \in OnDisk
            BY <5>3, <4>2
          <6>2. h < clock' /\ ~ tainted /\ h \in Nat /\ t \in Nat
            BY <6>1, <5>3, <4>5, ConstantFacts DEF Hours
          <6>3. QED
            BY <6>2, <3>1, <3>4 DEF Sound
        <5>4. QED
          BY <5>1, <5>2, <5>3
      <4>7. clock' <= FgatHour => \A h \in OnDisk' : h <= FgatHour
        BY <4>2, <4>5, <3>1, <3>6, ConstantFacts
      <4>8. FgatHour < clock' => (FgatSafe => FgatSafe')
        BY <4>3, <3>1, <3>7, ConstantFacts DEF FgatSafe
      <4>9. FgatBelow'
        <5> SUFFICES ASSUME SeveralOnDisk', NEW h \in OnDisk', FgatHour < h, rstr'[h] = "good"
                     PROVE  FgatSafe'
          BY DEF FgatBelow
        <5>1. FgatHour < clock'
          BY <4>7, <3>1, ConstantFacts DEF OnDisk
        <5>2. h # clock' /\ h \in OnDisk /\ h \in RestartHours
          BY <4>2, <4>3 DEF OnDisk
        <5>3. SeveralOnDisk
          BY <5>2, <4>5, ConstantFacts
        <5>4. FgatSafe
          BY <5>2, <5>3, <4>3 DEF CompletionInv, FgatBelow
        <5>5. QED
          BY <5>1, <5>4, <4>8
      <4>10. FgatBehind'
        <5> SUFFICES ASSUME ~ tainted, FgatHour < clock' PROVE FgatSafe'
          BY <4>1, <3>1 DEF FgatBehind, RestartDone
        <5>1. FgatHour < clock \/ FgatHour = clock
          BY <3>1, ConstantFacts
        <5>2. FgatSafe
          BY <5>1, <3>1 DEF CompletionInv, FgatBehind, RestartDone, ModelPhases
        <5>3. QED
          BY <5>2, <4>8
      <4>11. QED
        BY <3>1, <3>2, <3>5, <4>4, <4>6, <4>9, <4>10, <4>1 DEF CompletionInv, TaintedHasSeveral,
           FgatMoved, OkStops, HolesOnlyWhereResumed, CleanCompletion
    <3>8. CASE clock' \notin RestartHours
      <4>1. UNCHANGED rstr /\ pc' = "writingOutput"
        BY <2>5, <3>8 DEF IntegrateHour
      <4>2. OnDisk' = OnDisk
        BY <4>1 DEF OnDisk
      <4>3. SeveralOnDisk' = SeveralOnDisk
        BY <4>2 DEF SeveralOnDisk
      <4>4. OutputsBelow'
        <5> SUFFICES ASSUME SeveralOnDisk, NEW h \in OnDisk, NEW t \in Hours \ resumed, t < h
                     PROVE  Sound(t, rstr[h] = "good")'
          BY <3>1, <4>1, <4>2, <4>3 DEF OutputsBelow
        <5>1. Sound(t, rstr[h] = "good")
          BY DEF CompletionInv, OutputsBelow
        <5>2. t # clock'
          BY <3>1, <3>6 DEF Hours
        <5>3. QED
          BY <5>1, <5>2, <3>3, <4>1 DEF Sound, Complete
      <4>5. FgatBelow'
        BY <4>1, <4>2, <4>3, <3>1 DEF CompletionInv, FgatBelow, FgatSafe
      <4>6. FgatBehind'
        BY <4>1, <3>1, <3>8, ConstantFacts DEF CompletionInv, FgatBehind, RestartDone, ModelPhases, FgatSafe
      <4>7. QED
        BY <3>1, <3>2, <3>5, <4>3, <4>4, <4>5, <4>6, <4>1 DEF CompletionInv, TaintedHasSeveral,
           FgatMoved, OkStops, HolesOnlyWhereResumed, CleanCompletion
    <3>9. QED
      BY <3>7, <3>8
  <2>6. CASE SyncRestart
    <3>1. /\ clock \in RestartHours /\ rstr[clock] = "partial" /\ Running /\ ~ ok /\ ~ log
          /\ pc' = "restartWritten"
          /\ UNCHANGED <<mpas, fgat, ok, log, clock, tainted, resumed>>
          /\ rstr' = [rstr EXCEPT ![clock] = Synced]
      BY <2>0, <2>00, <2>6 DEF SyncRestart, model, CheckpointInv, RestartBeingWritten, Running,
                  ModelPhases, HandOverInv, LogMeansEnd
    <3>2. OnDisk' = OnDisk
      BY <2>0, <3>1 DEF OnDisk, TypeOK, Synced
    <3>3. SeveralOnDisk' = SeveralOnDisk
      BY <3>2 DEF SeveralOnDisk
    <3>4. /\ \A h \in RestartHours : h # clock => rstr'[h] = rstr[h]
          /\ rstr'[clock] = "good" <=> ~ tainted
      BY <2>0, <3>1 DEF TypeOK, Synced
    <3>5. OutputsBehind'
      BY <3>1 DEF CompletionInv, OutputsBehind, OutputDone, Sound, Complete
    <3>6. OutputsBelow'
      <4> SUFFICES ASSUME SeveralOnDisk, NEW h \in OnDisk, NEW t \in Hours \ resumed, t < h
                   PROVE  Sound(t, rstr'[h] = "good")
        BY <3>1, <3>2, <3>3 DEF OutputsBelow, Sound, Complete
      <4>1. CASE h = clock
        BY <4>1, <3>1, <3>4 DEF CompletionInv, OutputsBehind, Sound
      <4>2. CASE h # clock
        BY <4>2, <3>4 DEF CompletionInv, OutputsBelow, OnDisk
      <4>3. QED
        BY <4>1, <4>2
    <3>7. FgatSafe => FgatSafe'
      BY <3>1, <3>4, ConstantFacts DEF FgatSafe
    <3>8. FgatBehind'
      BY <3>1, <3>4, <3>7, ConstantFacts DEF CompletionInv, FgatBehind, RestartDone, FgatSafe
    <3>9. FgatBelow'
      <4> SUFFICES ASSUME SeveralOnDisk, NEW h \in OnDisk, FgatHour < h, rstr'[h] = "good"
                   PROVE  FgatSafe
        BY <3>2, <3>3, <3>7 DEF FgatBelow
      <4>1. CASE h = clock
        BY <4>1, <3>1, <3>4 DEF CompletionInv, FgatBehind, RestartDone
      <4>2. CASE h # clock
        BY <4>2, <3>4 DEF CompletionInv, FgatBelow, OnDisk
      <4>3. QED
        BY <4>1, <4>2
    <3>10. QED
      BY <3>1, <3>3, <3>5, <3>6, <3>8, <3>9 DEF CompletionInv, TaintedHasSeveral,
         FgatMoved, OkStops, HolesOnlyWhereResumed, CleanCompletion
  <2>7. CASE CreateOutput \/ SyncOutput
    <3>1. /\ Running /\ ~ ok /\ ~ log /\ RestartDone
          /\ pc' \in {"writingOutput", "integrating"}
          /\ UNCHANGED <<rstr, fgat, ok, log, clock, tainted, resumed>>
      BY <2>0, <2>00, <2>7 DEF CreateOutput, SyncOutput, model, Running, ModelPhases, RestartDone,
         HandOverInv, LogMeansEnd
    <3>2. \A t \in Hours : t # clock => mpas'[t] = mpas[t]
      BY <2>0, <2>7 DEF CreateOutput, SyncOutput, TypeOK
    <3>3. OutputDone' => Sound(clock, ~ tainted)'
      BY <2>0, <2>7, <3>1 DEF CreateOutput, SyncOutput, OutputDone, Sound, Complete, Synced,
         TypeOK
    <3>4. OnDisk' = OnDisk
      BY <3>1 DEF OnDisk
    <3>5. SeveralOnDisk' = SeveralOnDisk
      BY <3>4 DEF SeveralOnDisk
    <3>6. OutputsBehind'
      BY <2>0, <3>1, <3>2, <3>3, ConstantFacts
         DEF CompletionInv, OutputsBehind, Sound, Complete, TypeOK, Hours
    <3>7. OutputsBelow'
      <4> SUFFICES ASSUME SeveralOnDisk, NEW h \in OnDisk, NEW t \in Hours \ resumed, t < h
                   PROVE  Sound(t, rstr[h] = "good")'
        BY <3>1, <3>4, <3>5 DEF OutputsBelow
      <4>1. h <= clock
        BY <2>0, <3>1 DEF CheckpointInv, FilesBehind, SeveralOnDisk
      <4>2. t # clock
        BY <2>0, <4>1, ConstantFacts DEF OnDisk, TypeOK, Hours
      <4>3. Sound(t, rstr[h] = "good")
        BY DEF CompletionInv, OutputsBelow
      <4>4. QED
        BY <4>2, <4>3, <3>1, <3>2 DEF Sound, Complete
    <3>8. FgatBelow' /\ FgatBehind'
      BY <3>1, <3>4, <3>5 DEF CompletionInv, FgatBelow, FgatBehind, RestartDone, ModelPhases, FgatSafe
    <3>9. QED
      BY <3>1, <3>5, <3>6, <3>7, <3>8 DEF CompletionInv, TaintedHasSeveral,
         FgatMoved, OkStops, HolesOnlyWhereResumed, CleanCompletion
  <2>9. CASE ModelFinishes
    BY <2>9, CompletionFrame
       DEF ModelFinishes, model, Running, ModelPhases, OutputDone, RestartDone
  <2>10. CASE HandOver
    <3>1. /\ pc = "returned" /\ pc' = "moved" /\ Running /\ log /\ log' = log /\ ~ ok
          /\ UNCHANGED <<mpas, ok, clock, tainted, resumed>> /\ clock = Horizon
      BY <2>0, <2>00, <2>10 DEF HandOver, Finished, model, Running, HandOverInv, LogMeansEnd
    <3>2. OnDisk' = OnDisk \ {FgatHour} /\ \A h \in OnDisk' : rstr'[h] = rstr[h]
      BY <2>0, <2>10, ConstantFacts DEF HandOver, MoveRestart, OnDisk, TypeOK
    <3>3. RestartInterval \in OnDisk' /\ Horizon \in OnDisk'
      BY <2>0, <3>1, <3>2, ConstantFacts DEF CheckpointInv, FirstBehind, HandOverInv, LastBehind
    <3>4. SeveralOnDisk /\ SeveralOnDisk'
      <4>1. RestartInterval # Horizon
        BY ConstantFacts
      <4>2. OnDisk' \subseteq OnDisk
        BY <3>2
      <4>3. SeveralOnDisk'
        BY <3>3, <4>1 DEF SeveralOnDisk
      <4>4. QED
        BY <4>2, <4>3 DEF SeveralOnDisk
    <3>5. OutputsBehind'
      BY <3>1 DEF CompletionInv, OutputsBehind, OutputDone, Sound, Complete
    <3>6. OutputsBelow'
      BY <3>1, <3>2, <3>4 DEF CompletionInv, OutputsBelow, Sound, Complete
    <3>7. FgatSafe => fgat' = "good"
      BY <2>0, <2>10 DEF HandOver, MoveRestart, FgatSafe, HandOverInv, HandedOver
    <3>8. ~ tainted => FgatSafe
      BY <3>1, ConstantFacts DEF CompletionInv, FgatBehind, RestartDone
    <3>9. FgatBelow'
      BY <3>2, <3>4, <3>7 DEF CompletionInv, FgatBelow, FgatSafe
    <3>10. QED
      BY <3>1, <3>4, <3>5, <3>6, <3>7, <3>8, <3>9 DEF CompletionInv, TaintedHasSeveral,
         FgatMoved, FgatBehind, RestartDone, FgatSafe, OkStops, HolesOnlyWhereResumed, CleanCompletion
  <2>11. CASE ReportFailure
    BY <2>11, EndJobNotRunning, CompletionFrame
       DEF ReportFailure, files, model, RestartDone, ModelPhases
  <2>12. CASE TouchOK
    <3>1. /\ pc = "moved" /\ Running /\ log /\ clock = Horizon /\ ok' /\ ~ Running'
          /\ UNCHANGED <<mpas, rstr, fgat, clock, tainted, resumed>>
          /\ pc' # "moved"
      BY <2>0, <2>12, EndJobNotRunning DEF TouchOK, model, Running, HandOverInv, LogMeansEnd
    <3>2. OnDisk' = OnDisk
      BY <3>1 DEF OnDisk
    <3>3. SeveralOnDisk' = SeveralOnDisk
      BY <3>2 DEF SeveralOnDisk
    <3>4. \A t \in Hours \ resumed : Sound(t, ~ tainted)
      BY <3>1, ConstantFacts DEF CompletionInv, OutputsBehind, OutputDone, Hours
    <3>5. HolesOnlyWhereResumed' /\ CleanCompletion'
      BY <3>1, <3>4 DEF HolesOnlyWhereResumed, CleanCompletion, CompletionInv, FgatMoved,
         Sound, Complete
    <3>6. OutputsBelow' /\ FgatBelow'
      BY <3>1, <3>2, <3>3 DEF CompletionInv, OutputsBelow, FgatBelow, Sound, Complete, FgatSafe
    <3>7. QED
      BY <3>1, <3>5, <3>6 DEF CompletionInv, OutputsBehind, TaintedHasSeveral, FgatBehind, RestartDone,
         FgatMoved, OkStops
  <2>13. CASE ModelAborts
    BY <2>0, <2>13, CompletionFrame DEF ModelAborts, files, model, Running, ModelPhases,
       OutputDone, RestartDone, HandOverInv, LogMeansEnd
  <2>14. CASE TimeLimit
    BY <2>14, EndJobNotRunning, CompletionFrame
       DEF TimeLimit, files, model, RestartDone, ModelPhases
  <2>15. CASE NodeFails
    BY <2>15, CompletionFrame DEF NodeFails, files, model, Running, ModelPhases, RestartDone
  <2>16. CASE UNCHANGED vars
    BY <2>16, CompletionFrame DEF vars, files, model, Running, OutputDone, RestartDone
  <2>17. QED
    BY <2>1, <2>2, <2>3, <2>4, <2>5, <2>6, <2>7, <2>9, <2>10, <2>11,
       <2>12, <2>13, <2>14, <2>15, <2>16 DEF Next, Step
<1>3. QED
  BY <1>1, <1>2

(* A run declared complete has its output of every hour, truncated         *)
(* nowhere, but for the hours at which an attempt was resumed.             *)
THEOREM OkOutputsComplete == Spec => []HolesOnlyWhereResumed
<1>1. CompletionInv => HolesOnlyWhereResumed
  BY DEF CompletionInv
<1>2. QED
  BY <1>1, BaseInductive, CompletionInductive, PTL DEF Spec

(* When the last attempt of a run declared complete started from sound     *)
(* data, the outputs of all earlier attempts are sound too, and data       *)
(* assimilation has a sound restart file.                                  *)
THEOREM OkOutputsClean == Spec => []CleanCompletion
<1>1. CompletionInv => CleanCompletion
  BY DEF CompletionInv
<1>2. QED
  BY <1>1, BaseInductive, CompletionInductive, PTL DEF Spec
--------------------------------------------------------------------------------
LEMMA NewestHourIs ==
  ASSUME TypeOK, NewestIsLatest, NEW h \in OnDisk, IsNewest(h)
  PROVE  NewestHour = h
BY NewestIsGreatest DEF NewestHour

LEMMA CheckpointUnchanged ==
  ASSUME UNCHANGED <<rstr, mtime>>
  PROVE  UNCHANGED Checkpoint
<1>1. OnDisk' = OnDisk
  BY DEF OnDisk
<1>2. \A h : IsNewest(h)' <=> IsNewest(h)
  BY <1>1 DEF IsNewest
<1>3. NewestHour' = NewestHour
  BY <1>1, <1>2 DEF NewestHour
<1>4. QED
  BY <1>1, <1>3 DEF Checkpoint, SeveralOnDisk

(* A job that ends goes idle, or leaves the forecast for good: in the      *)
(* abstract specification an interrupt of a running attempt, a step from   *)
(* idle to abandoned, or no step.                                          *)
LEMMA EndJobMaps ==
  ASSUME EndJob, UNCHANGED <<rstr, mtime, clock, ok>>, ~ ok,
         pc = "pending" \/ Running
  PROVE  [Abstract!Next]_Abstract!vars
<1>1. UNCHANGED <<clock, Checkpoint>>
  BY CheckpointUnchanged
<1>2. Phase' \in {"idle", "abandoned"}
  BY EndJobNotRunning DEF Phase
<1>3. CASE Running
  <2>1. Phase = "running"
    BY <1>3 DEF Phase, Running, ModelPhases
  <2>2. Abstract!Interrupt
    BY <1>1, <1>2, <2>1 DEF Abstract!Interrupt
  <2>3. QED
    BY <2>2 DEF Abstract!Next
<1>4. CASE pc = "pending" /\ ~ Running
  <2>1. Phase = "idle"
    BY <1>4 DEF Phase
  <2>2. Phase' = "abandoned" => Abstract!GiveUp
    BY <1>1, <2>1 DEF Abstract!GiveUp
  <2>3. Phase' = "idle" => UNCHANGED Abstract!vars
    BY <1>1, <2>1 DEF Abstract!vars
  <2>4. QED
    BY <1>2, <2>2, <2>3 DEF Abstract!Next
<1>5. QED
  BY <1>3, <1>4

(* A step inside an attempt that only touches output files, the log or the *)
(* program counter is no step of the abstract specification.               *)
LEMMA AttemptStutters ==
  ASSUME UNCHANGED <<rstr, mtime, clock, ok>>, Running, Running'
  PROVE  [Abstract!Next]_Abstract!vars
<1>1. UNCHANGED <<clock, Checkpoint>>
  BY CheckpointUnchanged
<1>2. Phase' = Phase
  BY DEF Phase
<1>3. QED
  BY <1>1, <1>2 DEF Abstract!vars

(* Every step of the two jobs is a step of the abstract specification, or  *)
(* none: a restart file that appears is the abstract checkpoint moving to  *)
(* the hour reached, and the hand-over does not move it.                   *)
THEOREM RefinesCheckpointRestart == Spec => ImplementsCheckpointRestart
<1>1. Init => Abstract!Init
  <2> SUFFICES ASSUME Init PROVE Abstract!Init
    OBVIOUS
  <2>1. ~ SeveralOnDisk
    BY DEF Init, SeveralOnDisk, OnDisk
  <2>2. Phase = "idle"
    BY DEF Init, Phase, Running, ModelPhases
  <2>3. QED
    BY <2>1, <2>2 DEF Init, Abstract!Init, Checkpoint
<1>2. BaseInv /\ CompletionInv /\ [Next]_vars => [Abstract!Next]_Abstract!vars
  <2> SUFFICES ASSUME BaseInv, CompletionInv, [Next]_vars
               PROVE  [Abstract!Next]_Abstract!vars
    OBVIOUS
  <2>0. TypeOK /\ CheckpointInv /\ HandOverInv
    BY DEF BaseInv
  <2>00. Running => ~ ok
    BY DEF CompletionInv, OkStops
  <2>1. CASE AlreadyDone
    <3>1. UNCHANGED <<rstr, mtime, clock, ok>> /\ EndJob /\ pc = "pending"
      BY <2>1 DEF AlreadyDone, files, model
    <3>2. CASE ok
      <4>1. Phase = "completed" /\ Phase' = "completed"
        BY <3>1, <3>2 DEF Phase
      <4>2. QED
        BY <3>1, <4>1, CheckpointUnchanged DEF Abstract!vars
    <3>3. CASE ~ ok
      BY <3>1, <3>3, EndJobMaps
    <3>4. QED
      BY <3>2, <3>3
  <2>2. CASE NoInitFile
    BY <2>2, EndJobMaps DEF NoInitFile, files, model
  <2>3. CASE ColdStart
    <3>1. /\ UNCHANGED <<rstr, mtime>> /\ ~ ok /\ ~ ok' /\ clock' = 0
          /\ pc = "pending" /\ pc' = "writingOutput" /\ ~ SeveralOnDisk
      BY <2>3 DEF ColdStart, MayColdStart
    <3>2. Phase = "idle" /\ Phase' = "running"
      BY <3>1 DEF Phase, Running, ModelPhases
    <3>3. Checkpoint = 0 /\ UNCHANGED Checkpoint
      BY <3>1, CheckpointUnchanged DEF Checkpoint
    <3>4. Abstract!Resume
      BY <3>1, <3>2, <3>3 DEF Abstract!Resume
    <3>5. QED
      BY <3>4 DEF Abstract!Next
  <2>4. CASE WarmStart
    <3>1. PICK h \in OnDisk : IsNewest(h) /\ clock' = h
      BY <2>4 DEF WarmStart
    <3>2. /\ UNCHANGED <<rstr, mtime>> /\ ~ ok /\ ~ ok'
          /\ pc = "pending" /\ pc' = "integrating" /\ SeveralOnDisk
      BY <2>4 DEF WarmStart
    <3>3. Phase = "idle" /\ Phase' = "running"
      BY <3>2 DEF Phase, Running, ModelPhases
    <3>4. Checkpoint = h /\ UNCHANGED Checkpoint
      BY <2>0, <3>1, <3>2, NewestHourIs, CheckpointUnchanged DEF Checkpoint, CheckpointInv
    <3>5. Abstract!Resume
      BY <3>1, <3>3, <3>4 DEF Abstract!Resume
    <3>6. QED
      BY <3>5 DEF Abstract!Next
  <2>5. CASE IntegrateHour
    <3>1. /\ clock' = clock + 1 /\ clock \in Nat /\ clock < Horizon /\ Running /\ Running'
          /\ ~ ok /\ ~ ok'
      BY <2>0, <2>00, <2>5, ConstantFacts
         DEF IntegrateHour, TypeOK, Hours, Running, ModelPhases
    <3>2. Phase = "running" /\ Phase' = "running"
      BY <3>1 DEF Phase, Running, ModelPhases
    <3>3. Checkpoint' \in {Checkpoint, clock'}
      <4>1. CASE clock' \notin RestartHours
        BY <2>5, <4>1, CheckpointUnchanged DEF IntegrateHour
      <4>2. CASE clock' \in RestartHours /\ ~ SeveralOnDisk'
        <5>1. OnDisk \subseteq OnDisk'
          BY <2>0, <2>5 DEF IntegrateHour, OnDisk, TypeOK
        <5>2. ~ SeveralOnDisk
          BY <4>2, <5>1 DEF SeveralOnDisk
        <5>3. QED
          BY <4>2, <5>2 DEF Checkpoint
      <4>3. CASE clock' \in RestartHours /\ SeveralOnDisk'
        <5>1. PICK c \in RestartHours : c = clock'
          BY <4>3
        <5>2. mtime' = [mtime EXCEPT ![c] = now + 1] /\ rstr' = [rstr EXCEPT ![c] = "partial"]
          BY <2>5, <5>1 DEF IntegrateHour
        <5>3. c \in OnDisk'
          BY <2>0, <5>2 DEF OnDisk, TypeOK
        <5>4. \A g \in RestartHours : mtime'[g] <= mtime'[c] /\ (g # c => mtime'[g] < mtime'[c])
          BY <2>0, <5>2 DEF TypeOK, CheckpointInv, MtimeBounded
        <5>5. IsNewest(c)'
          BY <5>3, <5>4 DEF IsNewest, OnDisk
        <5>6. \A g \in OnDisk' : IsNewest(g)' => g = c
          <6>1. mtime' \in [RestartHours -> Nat]
            BY <2>0, TypeInductive DEF TypeOK
          <6>2. QED
            BY <6>1, <5>3, <5>4 DEF IsNewest, OnDisk
        <5>7. NewestHour' = c
          BY <5>3, <5>5, <5>6 DEF NewestHour
        <5>8. QED
          BY <4>3, <5>1, <5>7 DEF Checkpoint
      <4>4. QED
        BY <4>1, <4>2, <4>3
    <3>4. Abstract!Advance
      BY <3>1, <3>2, <3>3 DEF Abstract!Advance
    <3>5. QED
      BY <3>4 DEF Abstract!Next
  <2>6. CASE SyncRestart
    <3>1. /\ clock \in RestartHours /\ rstr[clock] = "partial" /\ ~ ok /\ ~ ok'
          /\ Running /\ Running' /\ UNCHANGED <<mtime, clock>>
          /\ rstr' = [rstr EXCEPT ![clock] = Synced]
      BY <2>0, <2>00, <2>6 DEF SyncRestart, model, CheckpointInv, RestartBeingWritten, Running,
                  ModelPhases
    <3>2. OnDisk' = OnDisk
      BY <2>0, <3>1 DEF OnDisk, TypeOK, Synced
    <3>3. \A h : IsNewest(h)' <=> IsNewest(h)
      BY <3>1, <3>2 DEF IsNewest
    <3>4. NewestHour' = NewestHour
      BY <3>2, <3>3 DEF NewestHour
    <3>5. UNCHANGED Checkpoint
      BY <3>2, <3>4 DEF Checkpoint, SeveralOnDisk
    <3>6. UNCHANGED Phase
      BY <3>1 DEF Phase, Running, ModelPhases
    <3>7. QED
      BY <3>1, <3>5, <3>6 DEF Abstract!vars
  <2>7. CASE CreateOutput \/ SyncOutput \/ ModelFinishes
    BY <2>7, <2>00, AttemptStutters
       DEF CreateOutput, SyncOutput, ModelFinishes, model, Running, ModelPhases
  <2>8. CASE HandOver
    <3>1. /\ pc = "returned" /\ pc' = "moved" /\ Running /\ log /\ ~ ok /\ ~ ok'
          /\ UNCHANGED <<mtime, clock>> /\ clock = Horizon
      BY <2>0, <2>00, <2>8 DEF HandOver, Finished, model, Running, HandOverInv, LogMeansEnd
    <3>2. OnDisk' = OnDisk \ {FgatHour}
      BY <2>0, <2>8, ConstantFacts DEF HandOver, MoveRestart, OnDisk, TypeOK
    <3>3. RestartInterval \in OnDisk' /\ Horizon \in OnDisk'
      BY <2>0, <3>1, <3>2, ConstantFacts DEF CheckpointInv, FirstBehind, HandOverInv, LastBehind
    <3>4. SeveralOnDisk /\ SeveralOnDisk'
      <4>1. RestartInterval # Horizon
        BY ConstantFacts
      <4>2. OnDisk' \subseteq OnDisk
        BY <3>2
      <4>3. SeveralOnDisk'
        BY <3>3, <4>1 DEF SeveralOnDisk
      <4>4. QED
        BY <4>2, <4>3 DEF SeveralOnDisk
    <3>5. \A g \in OnDisk : mtime[g] <= mtime[Horizon]
      BY <2>0, <3>2, <3>3, ConstantFacts DEF CheckpointInv, NewestIsLatest, OnDisk, TypeOK
    <3>6. IsNewest(Horizon) /\ IsNewest(Horizon)'
      BY <3>1, <3>2, <3>3, <3>5 DEF IsNewest
    <3>7. NewestHour = Horizon
      BY <2>0, <3>2, <3>3, <3>6, NewestHourIs DEF CheckpointInv
    <3>8. \A g \in OnDisk' : IsNewest(g)' => IsNewest(g)
      BY <3>1, <3>2, <3>3, <3>5, ConstantFacts DEF IsNewest, OnDisk, TypeOK, BaseInv
    <3>9. \A g \in OnDisk' : IsNewest(g)' => g = Horizon
      BY <2>0, <3>2, <3>3, <3>6, <3>8, NewestIsGreatest DEF CheckpointInv
    <3>10. NewestHour' = Horizon
      BY <3>3, <3>6, <3>9 DEF NewestHour
    <3>11. UNCHANGED Checkpoint
      BY <3>4, <3>7, <3>10 DEF Checkpoint
    <3>12. UNCHANGED Phase
      BY <3>1 DEF Phase, Running, ModelPhases
    <3>13. QED
      BY <3>1, <3>11, <3>12 DEF Abstract!vars
  <2>9. CASE ReportFailure
    BY <2>9, <2>00, EndJobMaps DEF ReportFailure, files, model, Running
  <2>10. CASE TouchOK
    <3>1. /\ UNCHANGED <<rstr, mtime, clock>> /\ ok' /\ ~ ok /\ Running /\ clock = Horizon
      BY <2>0, <2>00, <2>10 DEF TouchOK, model, Running, HandOverInv, LogMeansEnd
    <3>2. Phase = "running" /\ Phase' = "completed"
      BY <3>1 DEF Phase, Running, ModelPhases
    <3>3. Abstract!Complete
      BY <3>1, <3>2, CheckpointUnchanged DEF Abstract!Complete
    <3>4. QED
      BY <3>3 DEF Abstract!Next
  <2>11. CASE ModelAborts
    BY <2>11, <2>00, AttemptStutters DEF ModelAborts, files, model, Running
  <2>12. CASE TimeLimit
    BY <2>12, <2>00, EndJobMaps DEF TimeLimit, files, model
  <2>13. CASE NodeFails
    <3>1. /\ UNCHANGED <<rstr, mtime, clock>> /\ ~ ok /\ ~ ok' /\ Running /\ pc' = "pending"
      BY <2>00, <2>13 DEF NodeFails, files, model
    <3>2. Phase = "running" /\ Phase' = "idle"
      BY <3>1 DEF Phase, Running, ModelPhases
    <3>3. Abstract!Interrupt
      BY <3>1, <3>2, CheckpointUnchanged DEF Abstract!Interrupt
    <3>4. QED
      BY <3>3 DEF Abstract!Next
  <2>14. CASE UNCHANGED vars
    <3>1. UNCHANGED <<rstr, mtime, clock, ok, pc>>
      BY <2>14 DEF vars, files, model
    <3>2. UNCHANGED Phase
      BY <3>1 DEF Phase, Running
    <3>3. QED
      BY <3>1, <3>2, CheckpointUnchanged DEF Abstract!vars
  <2>15. QED
    BY <2>1, <2>2, <2>3, <2>4, <2>5, <2>6, <2>7, <2>8, <2>9, <2>10, <2>11,
       <2>12, <2>13, <2>14 DEF Next, Step
<1>3. QED
  BY <1>1, <1>2, BaseInductive, CompletionInductive, PTL
     DEF Spec, ImplementsCheckpointRestart, Abstract!Spec
================================================================================
