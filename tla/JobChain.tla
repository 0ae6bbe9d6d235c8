------------------------------- MODULE JobChain -------------------------------
(***************************************************************************)
(* The jobs of a forecast cycle: the scripts start.mpas and restart.mpas   *)
(* submit a chain of dependent Slurm jobs, and the jobs of the chain hand  *)
(* each other files.  All that ties a job to its cycle is START_DATE in    *)
(* modelenv.sh: start.mpas edits it, and every job reads it when it        *)
(* starts.  Jobs are killed at their time limit, abort, lose their node,   *)
(* and may still be in the queue when the next cycle is submitted.         *)
(*                                                                         *)
(* The array jobs are represented by their task for one forecast hour; the *)
(* forecast itself is detailed in ForecastRun.  A file is "absent",        *)
(* "partial", "good", or "bad": complete, but computed from a file that    *)
(* was not good.                                                           *)
(***************************************************************************)
EXTENDS Integers, Sequences, FiniteSets

CONSTANTS
  Dates,        (* values of START_DATE                                    *)
  MaxScripts,   (* bound: how often the operator runs a script             *)
  MaxFaults     (* bound: faults in a behaviour                            *)

ASSUME BoundAssumption ==
  Dates \subseteq Nat \ {0} /\ MaxScripts \in Nat /\ MaxFaults \in Nat

(* The forecast, what feeds and what follows it: one job after the other.  *)
(* The jobs that are submitted beside this line touch none of its files.   *)
Line == <<"CLEAN", "UNGR", "INIT", "MPAS1", "MPAS2", "WRF1", "WRF2",
          "UPP1", "UPP2", "TCTL">>

Names == {Line[i] : i \in 1..10}

(* sbatch --dependency: the job a job waits for ...                        *)
Needs == [UNGR  |-> "CLEAN", INIT |-> "UNGR", MPAS1 |-> "INIT", MPAS2 |-> "MPAS1",
          WRF1  |-> "MPAS2", WRF2 |-> "WRF1", UPP1  |-> "WRF2", UPP2  |-> "UPP1",
          TCTL  |-> "UPP2"]

(* Mutant: the second forecast job, too, only after a success of the first. *)
AfterOkEverywhere == {"INIT", "MPAS1", "MPAS2"}

(* ... with success (afterok); all others, however it ends (afterany).     *)
AfterOk == {"INIT", "MPAS1"}

Chain == 1..MaxScripts
Job   == Chain \X Names

VARIABLES
  modelenv,     (* START_DATE in modelenv.sh                               *)
  todo,         (* what the script that is running has still to do         *)
  runs,         (* scripts run so far: the number of the latest chain      *)
  kind,         (* which script submitted a chain                          *)
  dateOf,       (* and for which cycle                                     *)
  st,           (* where each job is                                       *)
  date,         (* the START_DATE it has read                              *)
  oldLog,       (* running jobs whose log directory has been moved away    *)
  ungribLine,   (* the current ungrib log says that it was successful      *)
  files,        (* per cycle, the files the jobs share                     *)
  published     (* MPS.date_of_last_run                                    *)

VARIABLES
  faults,       (* history: <<chain, job, phase>> that was hit             *)
  overlapped    (* history: a script was run while earlier jobs were live  *)

scriptVars == <<modelenv, todo, runs, kind, dateOf>>
jobVars    == <<st, date, oldLog, ungribLine, files, published>>
vars       == <<scriptVars, jobVars, faults, overlapped>>

Running == {"started", "converting", "polling", "preparing", "retrying",
            "integrating", "finishing", "makingGrb1", "grb1Made", "makingGrb"}
Ended   == {"ok", "failed", "timeout", "cancelled"}
Waiting == {"pending", "stuck"}
Live(j) == st[j] \in Running \cup {"pending"}

FileState == {"absent", "partial", "good", "bad"}
CycleFiles == [ingest : BOOLEAN, init : FileState, mpas : FileState,
               restarts : BOOLEAN, done : BOOLEAN,
               wrf : FileState, grb1 : FileState, grb : FileState]
NoFiles == [ingest |-> FALSE, init |-> "absent", mpas |-> "absent",
            restarts |-> FALSE, done |-> FALSE,
            wrf |-> "absent", grb1 |-> "absent", grb |-> "absent"]

(* restart.mpas submits the first forecast job without a dependency.       *)
HasNeed(j) == j[2] \in DOMAIN Needs /\ ~ (kind[j[1]] = "restart" /\ j[2] = "MPAS1")
Need(j)    == <<j[1], Needs[j[2]]>>

(* restart.mpas leaves the directory and the initial state as they are.    *)
Submissions(s) == IF s = "start" THEN Line ELSE SubSeq(Line, 4, 10)

(* Mutant: START_DATE is edited after the first jobs have been submitted.  *)
ProgramEditsLate(s) == <<"rotate", "CLEAN", "edit">> \o Tail(Submissions(s))

(* The script: edit modelenv.sh, (restart only) empty the queue, move the  *)
(* log directory away, submit.                                             *)
Program(s) ==
  (IF s = "start" THEN <<"edit", "rotate">> ELSE <<"edit", "cancel", "rotate">>)
  \o Submissions(s)
--------------------------------------------------------------------------------
Init ==
  /\ modelenv = 0
  /\ todo = <<>>
  /\ runs = 0
  /\ kind = [c \in Chain |-> "start"]
  /\ dateOf = [c \in Chain |-> 0]
  /\ st = [j \in Job |-> "unsubmitted"]
  /\ date = [j \in Job |-> 0]
  /\ oldLog = {}
  /\ ungribLine = FALSE
  /\ files = [d \in Dates |-> NoFiles]
  /\ published = 0
  /\ faults = {}
  /\ overlapped = FALSE

(* The operator runs a script for today's cycle or the next.               *)
RunScript(s, d) ==
  /\ todo = <<>>
  /\ runs < MaxScripts
  /\ d >= modelenv
  /\ runs = 0 => s = "start"
  /\ faults = {}                                              \* bound
  /\ (s = "start" /\ \E j \in Job : Live(j)) => d > modelenv   \* bound
  /\ todo' = Program(s)
  /\ runs' = runs + 1
  /\ kind' = [kind EXCEPT ![runs'] = s]
  /\ dateOf' = [dateOf EXCEPT ![runs'] = d]
  /\ overlapped' = (overlapped \/ \E j \in Job : Live(j))
  /\ UNCHANGED <<modelenv, jobVars, faults>>

Does(step) == todo # <<>> /\ Head(todo) = step /\ todo' = Tail(todo)

EditModelenv ==
  /\ Does("edit")
  /\ modelenv' = dateOf[runs]
  /\ UNCHANGED <<runs, kind, dateOf, jobVars, faults, overlapped>>

(* scancel -u arw: everything in the queue, a running job where it is.     *)
CancelQueue ==
  /\ Does("cancel")
  /\ st' = [j \in Job |-> IF st[j] \in Running \cup Waiting THEN "cancelled" ELSE st[j]]
  /\ UNCHANGED <<modelenv, runs, kind, dateOf, date, oldLog, ungribLine, files,
                 published, faults, overlapped>>

RotateLogs ==
  /\ Does("rotate")
  /\ oldLog' = oldLog \cup {j \in Job : st[j] \in Running}
  /\ ungribLine' = FALSE
  /\ UNCHANGED <<modelenv, runs, kind, dateOf, st, date, files, published,
                 faults, overlapped>>

(* Without --parsable sbatch answers with a sentence instead of a number.  *)
PrintsNumber(j) == ~ (kind[j[1]] = "restart" /\ j[2] = "MPAS1")

(* A dependency on an empty or garbled number is refused.                  *)
Refused(j) == HasNeed(j) /\ (st[Need(j)] = "rejected" \/ ~ PrintsNumber(Need(j)))

(* Bound: faults strike the first chain only. *)
Hit(j, what) ==
  /\ runs = 1
  /\ Cardinality(faults) < MaxFaults
  /\ <<j[1], j[2], what>> \notin faults
  /\ faults' = faults \cup {<<j[1], j[2], what>>}

Submit(j) ==
  /\ j[1] = runs
  /\ Does(j[2])
  /\ st' = [st EXCEPT ![j] = IF Refused(j) THEN "rejected" ELSE "pending"]
  /\ UNCHANGED <<modelenv, runs, kind, dateOf, date, oldLog, ungribLine, files,
                 published, faults, overlapped>>

(* sbatch itself fails; the script goes on with an empty job number.       *)
SubmitFails(j) ==
  /\ j[1] = runs
  /\ Does(j[2])
  /\ Hit(j, "submit")
  /\ st' = [st EXCEPT ![j] = "rejected"]
  /\ UNCHANGED <<modelenv, runs, kind, dateOf, date, oldLog, ungribLine, files,
                 published, overlapped>>
--------------------------------------------------------------------------------
(* Slurm. *)

(* Mutant: the job may start as soon as the one it needs has started.      *)
EligibleEarly(j) ==
  HasNeed(j) =>
    LET s == st[Need(j)]
    IN IF j[2] \in AfterOk THEN s = "ok" ELSE s \in Running \cup Ended

Eligible(j) ==
  HasNeed(j) =>
    LET s == st[Need(j)]
    IN IF j[2] \in AfterOk THEN s = "ok" ELSE s \in Ended

(* Every job sources modelenv.sh first.                                    *)
StartJob(j) ==
  /\ st[j] = "pending"
  /\ Eligible(j)
  /\ st' = [st EXCEPT ![j] = "started"]
  /\ date' = [date EXCEPT ![j] = modelenv]
  /\ UNCHANGED <<scriptVars, oldLog, ungribLine, files, published, faults, overlapped>>

(* DependencyNeverSatisfied: the job stays in the queue, and with it the   *)
(* jobs that need it.                                                      *)
NeverStarts(j) ==
  /\ st[j] = "pending"
  /\ HasNeed(j)
  /\ \/ st[Need(j)] = "stuck"
     \/ j[2] \in AfterOk /\ st[Need(j)] \in Ended \ {"ok"}
  /\ st' = [st EXCEPT ![j] = "stuck"]
  /\ UNCHANGED <<scriptVars, date, oldLog, ungribLine, files, published, faults, overlapped>>

(* A step of a running job: where it goes next, and what it does to the    *)
(* files of the cycle it works for.                                        *)
Goes(j, from, to) ==
  /\ st[j] = from
  /\ st' = [st EXCEPT ![j] = to]
  /\ oldLog' = IF to \in Running THEN oldLog ELSE oldLog \ {j}
  /\ UNCHANGED <<scriptVars, date, overlapped>>

FilesOf(j) == files[date[j]]
Puts(j, f) == files' = [files EXCEPT ![date[j]] = f]
KeepsRest  == UNCHANGED <<ungribLine, published, faults>>

CleanRuns(j) ==
  /\ j[2] = "CLEAN"
  /\ Goes(j, "started", "ok")
  /\ Puts(j, NoFiles)
  /\ KeepsRest

TctlPublishes(j) ==
  /\ j[2] = "TCTL"
  /\ Goes(j, "started", "ok")
  /\ published' = date[j]
  /\ UNCHANGED <<files, ungribLine, faults>>
--------------------------------------------------------------------------------
(* ungrib.mpas.sh *)

UngribStarts(j) ==
  /\ j[2] = "UNGR"
  /\ Goes(j, "started", "converting")
  /\ ungribLine' = (ungribLine /\ j \in oldLog)
  /\ UNCHANGED <<files, published, faults>>

(* The log was opened before the directory was moved, or after.            *)
UngribConverts(j) ==
  /\ j[2] = "UNGR"
  /\ Goes(j, "converting", "polling")
  /\ Puts(j, [FilesOf(j) EXCEPT !.ingest = TRUE])
  /\ ungribLine' = (ungribLine \/ j \notin oldLog)
  /\ UNCHANGED <<published, faults>>

(* The exit status is not looked at: the script polls the log without end. *)
UngribAborts(j) ==
  /\ j[2] = "UNGR"
  /\ Goes(j, "converting", "polling")
  /\ Hit(j, "converting")
  /\ UNCHANGED <<files, ungribLine, published>>

(* Whoever wrote the line in the log of that name. *)
UngribEnds(j) ==
  /\ j[2] = "UNGR"
  /\ Goes(j, "polling", "ok")
  /\ ungribLine
  /\ UNCHANGED files /\ KeepsRest
--------------------------------------------------------------------------------
(* init.mpas.sh *)

InitStarts(j) ==
  /\ j[2] = "INIT"
  /\ Goes(j, "started", "preparing")
  /\ Puts(j, [FilesOf(j) EXCEPT !.init = "absent"])
  /\ KeepsRest

InitWorks(j) ==
  /\ j[2] = "INIT"
  /\ \E from \in {"preparing", "retrying"} : Goes(j, from, "ok")
  /\ FilesOf(j).ingest
  /\ Puts(j, [FilesOf(j) EXCEPT !.init = "good"])
  /\ KeepsRest

(* A second attempt; after it the script ends with status 0 in any case.   *)
InitFails(j) ==
  /\ j[2] = "INIT"
  /\ \/ Goes(j, "preparing", "retrying")
     \/ Goes(j, "retrying", "ok")
  /\ IF FilesOf(j).ingest THEN Hit(j, st[j]) ELSE UNCHANGED faults
  /\ \E left \in {"absent", "partial"} : Puts(j, [FilesOf(j) EXCEPT !.init = left])
  /\ UNCHANGED <<ungribLine, published>>
--------------------------------------------------------------------------------
(* run.mpas.sh *)

Forecast(j) == j[2] \in {"MPAS1", "MPAS2"}

(* The flag file is there, or all the output files are: of the others than *)
(* the one represented nothing is known.                                   *)
ForecastSkips(j) ==
  /\ Forecast(j)
  /\ Goes(j, "started", "ok")
  /\ FilesOf(j).done \/ FilesOf(j).mpas # "absent"
  /\ UNCHANGED files /\ KeepsRest

ForecastRefuses(j) ==
  /\ Forecast(j)
  /\ Goes(j, "started", "failed")
  /\ ~ FilesOf(j).done /\ FilesOf(j).init = "absent"
  /\ UNCHANGED files /\ KeepsRest

ForecastBegins(j) ==
  /\ Forecast(j)
  /\ Goes(j, "started", "integrating")
  /\ ~ FilesOf(j).done /\ FilesOf(j).init # "absent"
  /\ UNCHANGED files /\ KeepsRest

(* The hour is written, or, by a warm start behind it, passed over.        *)
ForecastWrites(j) ==
  /\ Forecast(j)
  /\ Goes(j, "integrating", "finishing")
  /\ \/ \E q \in {"good", "bad"} :
          /\ q = "good" => FilesOf(j).init = "good"
          /\ q = "bad"  => FilesOf(j).init # "good" \/ FilesOf(j).restarts
          /\ Puts(j, [FilesOf(j) EXCEPT !.mpas = q, !.restarts = TRUE])
     \/ FilesOf(j).restarts /\ UNCHANGED files
  /\ KeepsRest

(* grep in the log directory, which may have been moved away meanwhile.    *)
ForecastEnds(j) ==
  /\ Forecast(j)
  /\ IF j \in oldLog
     THEN Goes(j, "finishing", "failed") /\ UNCHANGED files
     ELSE Goes(j, "finishing", "ok") /\ Puts(j, [FilesOf(j) EXCEPT !.done = TRUE])
  /\ KeepsRest
--------------------------------------------------------------------------------
(* mpas2wrf.sh and upp.mpas.sh.  A file that was cut off may or may not be *)
(* large enough to be taken for complete.                                  *)

Convert(j) == j[2] \in {"WRF1", "WRF2"}
Post(j)    == j[2] \in {"UPP1", "UPP2"}

Derived(from) == IF from = "good" THEN "good" ELSE "bad"

(* Mutant of WrfComplete: no test for an existing output.                  *)
NeverComplete(j) == FALSE

(* MPASOUT_FILE_SIZE: of the output only a complete one is large enough.   *)
WrfComplete(j) == FilesOf(j).wrf \in {"good", "bad"}

WrfSkips(j) ==
  /\ Convert(j)
  /\ Goes(j, "started", "ok")
  /\ FilesOf(j).mpas # "absent" /\ WrfComplete(j)
  /\ UNCHANGED files /\ KeepsRest

WrfBegins(j) ==
  /\ Convert(j)
  /\ Goes(j, "started", "converting")
  /\ FilesOf(j).mpas # "absent" /\ ~ WrfComplete(j)
  /\ Puts(j, [FilesOf(j) EXCEPT !.wrf = "partial"])
  /\ KeepsRest

WrfEnds(j) ==
  /\ Convert(j)
  /\ Goes(j, "converting", "ok")
  /\ Puts(j, [FilesOf(j) EXCEPT !.wrf = Derived(FilesOf(j).mpas)])
  /\ KeepsRest

(* The script ends with an echo: status 0. *)
WrfAborts(j) ==
  /\ Convert(j)
  /\ Goes(j, "converting", "ok")
  /\ Hit(j, "converting")
  /\ UNCHANGED <<files, ungribLine, published>>

UppStarts(j) ==
  /\ Post(j)
  /\ Goes(j, "started", "makingGrb1")
  /\ FilesOf(j).wrf # "absent"
  /\ UNCHANGED files /\ KeepsRest

(* Made aside, moved, linked: the link is there once the file is.          *)
Grb1Ends(j) ==
  /\ Post(j)
  /\ Goes(j, "makingGrb1", "grb1Made")
  /\ IF FilesOf(j).grb1 # "absent" THEN UNCHANGED files
     ELSE Puts(j, [FilesOf(j) EXCEPT !.grb1 = Derived(FilesOf(j).wrf)])
  /\ KeepsRest

(* What an aborted post-processor left is moved and linked all the same.   *)
Grb1Aborts(j) ==
  /\ Post(j)
  /\ Goes(j, "makingGrb1", "grb1Made")
  /\ FilesOf(j).grb1 = "absent"
  /\ Hit(j, "grb1")
  /\ \E left \in {"absent", "bad"} : Puts(j, [FilesOf(j) EXCEPT !.grb1 = left])
  /\ UNCHANGED <<ungribLine, published>>

(* Mutant of GrbIsThere: no test for an existing output.                   *)
GrbNeverThere(j) == FALSE

(* A file that is not empty counts, however it came about.                 *)
GrbIsThere(j) == FilesOf(j).grb # "absent"

(* Nothing to convert, or nothing to convert from.                         *)
GrbSkips(j) ==
  /\ Post(j)
  /\ Goes(j, "grb1Made", "ok")
  /\ GrbIsThere(j) \/ FilesOf(j).grb1 = "absent"
  /\ UNCHANGED files /\ KeepsRest

(* Converted in place: the output grows, or appears when the converter is  *)
(* done.                                                                   *)
GrbBegins(j) ==
  /\ Post(j)
  /\ Goes(j, "grb1Made", "makingGrb")
  /\ ~ GrbIsThere(j) /\ FilesOf(j).grb1 # "absent"
  /\ \E now \in {"absent", "partial"} : Puts(j, [FilesOf(j) EXCEPT !.grb = now])
  /\ KeepsRest

GrbEnds(j) ==
  /\ Post(j)
  /\ Goes(j, "makingGrb", "ok")
  /\ Puts(j, [FilesOf(j) EXCEPT !.grb = Derived(FilesOf(j).grb1)])
  /\ KeepsRest
--------------------------------------------------------------------------------
(* How a job is stopped. *)

(* Mutant of Waits: ungrib.mpas.sh without a time limit.                   *)
WaitsForInput(j) ==
  \/ st[j] = "started" /\ Convert(j) /\ FilesOf(j).mpas \in {"absent", "partial"}
  \/ st[j] = "started" /\ Post(j) /\ FilesOf(j).wrf \in {"absent", "partial"}

(* Polling for what does not come.  The loops of mpas2wrf.sh and           *)
(* upp.mpas.sh would give up after 90 minutes, behind their time limits of *)
(* 15 and 20.                                                              *)
Waits(j) ==
  \/ st[j] = "polling" /\ ~ ungribLine
  \/ st[j] = "started" /\ Convert(j) /\ FilesOf(j).mpas \in {"absent", "partial"}
  \/ st[j] = "started" /\ Post(j) /\ FilesOf(j).wrf \in {"absent", "partial"}

TimeLimit(j) ==
  /\ st[j] \in {"started", "polling"}
  /\ Waits(j)
  /\ Goes(j, st[j], "timeout")
  /\ UNCHANGED files /\ KeepsRest

(* What a killed or aborted job may leave of the file it was writing.      *)
CutOff(j) ==
  LET f == FilesOf(j)
  IN CASE st[j] \in {"preparing", "retrying"} ->
            {[f EXCEPT !.init = s] : s \in {"absent", "partial"}}
       [] st[j] = "integrating" -> {f, [f EXCEPT !.restarts = TRUE],
                                    [f EXCEPT !.mpas = "partial"],
                                    [f EXCEPT !.mpas = "partial", !.restarts = TRUE]}
       [] OTHER -> {f}

(* A job that works is killed at its time limit, ...                       *)
IsKilled(j) ==
  /\ st[j] \in Running
  /\ Goes(j, st[j], "timeout")
  /\ Hit(j, st[j])
  /\ \E f \in CutOff(j) : Puts(j, f)
  /\ UNCHANGED <<ungribLine, published>>

(* ... the model aborts (run.mpas.sh then ends with status 1), ...         *)
ForecastAborts(j) ==
  /\ Forecast(j)
  /\ Goes(j, "integrating", "failed")
  /\ Hit(j, "integrating")
  /\ \E f \in CutOff(j) : Puts(j, f)
  /\ UNCHANGED <<ungribLine, published>>

(* ... or the node is lost.  run.mpas.sh and mpas2wrf.sh are submitted     *)
(* with --requeue, ungrib.mpas.sh and init.mpas.sh with --no-requeue; for  *)
(* the others the configuration of Slurm decides.                          *)
AfterLoss(j) ==
  CASE Forecast(j) \/ Convert(j)   -> {"pending"}
    [] j[2] \in {"UNGR", "INIT"}   -> {"failed"}
    [] OTHER                       -> {"pending", "failed"}

NodeFails(j) ==
  /\ st[j] \in Running
  /\ \E to \in AfterLoss(j) : Goes(j, st[j], to)
  /\ Hit(j, st[j])
  /\ \E f \in CutOff(j) : Puts(j, f)
  /\ UNCHANGED <<ungribLine, published>>
--------------------------------------------------------------------------------
Progress(j) ==
  \/ CleanRuns(j) \/ TctlPublishes(j)
  \/ UngribStarts(j) \/ UngribConverts(j) \/ UngribEnds(j)
  \/ InitStarts(j) \/ InitWorks(j) \/ InitFails(j)
  \/ ForecastSkips(j) \/ ForecastRefuses(j) \/ ForecastBegins(j)
  \/ ForecastWrites(j) \/ ForecastEnds(j)
  \/ WrfSkips(j) \/ WrfBegins(j) \/ WrfEnds(j)
  \/ UppStarts(j) \/ Grb1Ends(j) \/ GrbSkips(j) \/ GrbBegins(j) \/ GrbEnds(j)
  \/ TimeLimit(j)

Fault(j) ==
  \/ UngribAborts(j) \/ WrfAborts(j) \/ Grb1Aborts(j)
  \/ IsKilled(j) \/ ForecastAborts(j) \/ NodeFails(j)

Slurm ==
  \E j \in Job :
    \/ st[j] = "pending" /\ (StartJob(j) \/ NeverStarts(j))
    \/ st[j] \in Running /\ Progress(j)

Script == EditModelenv \/ CancelQueue \/ RotateLogs \/ \E j \in Job : Submit(j)

Next ==
  \/ \E s \in {"start", "restart"}, d \in Dates : RunScript(s, d)
  \/ Script
  \/ Slurm
  \/ \E j \in Job : SubmitFails(j) \/ (st[j] \in Running /\ Fault(j))

(* Slurm starts a job whose dependency is satisfied, programs run to their *)
(* end, and a job that waits meets its time limit.  No two jobs keep each  *)
(* other from that, so that it is enough that one of them goes on.         *)
Spec == Init /\ [][Next]_vars /\ WF_vars(Slurm)
--------------------------------------------------------------------------------
(* The types of the variables. *)
TypeOK ==
  /\ modelenv \in Dates \cup {0} /\ published \in Dates \cup {0}
  /\ todo \in Seq(Names \cup {"edit", "cancel", "rotate"})
  /\ runs \in 0..MaxScripts
  /\ kind \in [Chain -> {"start", "restart"}]
  /\ dateOf \in [Chain -> Dates \cup {0}]
  /\ st \in [Job -> {"unsubmitted", "rejected"} \cup Waiting \cup Running \cup Ended]
  /\ date \in [Job -> Dates \cup {0}]
  /\ oldLog \subseteq Job
  /\ ungribLine \in BOOLEAN /\ overlapped \in BOOLEAN
  /\ files \in [Dates -> CycleFiles]
  /\ \A j \in Job : st[j] \in Running => date[j] \in Dates

(* A job never works for an earlier cycle than the one it was submitted    *)
(* for, and for a later one only if a script was run while jobs of an      *)
(* earlier chain were still to run (start.mpas does not empty the queue).  *)
OwnDate ==
  \A j \in Job : st[j] \in Running =>
    /\ date[j] >= dateOf[j[1]]
    /\ ~ overlapped => date[j] = dateOf[j[1]]

(* Jobs that share files run one at a time, whatever fails and is          *)
(* requeued, unless scripts were run over a live queue.                    *)
OneAtATime ==
  ~ overlapped =>
    LET busy == {j \in Job : st[j] \in Running}
    IN \A j, k \in busy : j = k

(* Only a failure of the two preparing jobs can leave a chain in the queue *)
(* for ever; whatever happens later, every job gets its turn.              *)
StuckOnlyBehindIngest ==
  \A j \in Job : st[j] = "stuck" =>
    \E n \in {"UNGR", "INIT"} : st[<<j[1], n>>] \in Ended \ {"ok"}

WasHit(c, n) == \E f \in faults : f[1] = c /\ f[2] = n

(* What the chain does not make up for: a cleaning that did not happen,    *)
(* an initial state that failed twice (init.mpas.sh then ends with status  *)
(* 0), a first forecast job that was stopped in its work (the second may   *)
(* skip the hour), faults of both jobs of a pair, and a first        *)
(* post-processing that left output which the second takes for complete.   *)
Excused(c) ==
  \/ WasHit(c, "CLEAN")
  \/ <<c, "INIT", "retrying">> \in faults
  \/ \E p \in {"integrating", "finishing"} : <<c, "MPAS1", p>> \in faults
  \/ \E pair \in {<<"MPAS1", "MPAS2">>, <<"WRF1", "WRF2">>, <<"UPP1", "UPP2">>} :
       WasHit(c, pair[1]) /\ WasHit(c, pair[2])
  \/ \E p \in {"grb1", "makingGrb"} : <<c, "UPP1", p>> \in faults

(* toctl.mpas.sh announces the cycle in any case: its products are whole   *)
(* unless more went wrong than the second jobs make up for.                *)
PublishedIsComplete ==
  \A c \in Chain :
    (~ overlapped /\ c = runs /\ st[<<c, "TCTL">>] = "ok") =>
      \/ files[dateOf[c]].grb1 = "good" /\ files[dateOf[c]].grb = "good"
      \/ Excused(c)

(* No second job, no retry and no later chain short of clean_before_run.sh *)
(* spoils a product that is good.                                          *)
GoodProductsKept ==
  [][\A d \in Dates : \A p \in {"wrf", "grb1", "grb"} :
       (~ overlapped /\ files[d][p] = "good" /\ files'[d] # NoFiles)
         => files'[d][p] = "good"]_vars

(* Every job that is submitted ends, or is left in the queue for good.     *)
Settles == <>[](\A j \in Job : ~ Live(j))
================================================================================
