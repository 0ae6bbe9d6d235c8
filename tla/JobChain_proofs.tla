---------------------------- MODULE JobChain_proofs ----------------------------
(***************************************************************************)
(* JobChain keeps its types, starts every job for its own cycle, never     *)
(* runs two jobs of the line at once, leaves jobs in the queue for good    *)
(* only behind a failure of the two preparing jobs, does not spoil a good  *)
(* product, and announces complete ones unless more went wrong than the    *)
(* second jobs make up for; restart.mpas gets one job accepted: for every  *)
(* number of scripts and faults and every set of cycles, within what the   *)
(* bounds named in JobChain's actions let follow one another.              *)
(***************************************************************************)
EXTENDS JobChain, SequenceTheorems, TLAPS

(* The place of a job in the line.                                         *)
Rank == [CLEAN |-> 1, UNGR |-> 2, INIT |-> 3, MPAS1 |-> 4, MPAS2 |-> 5,
         WRF1  |-> 6, WRF2 |-> 7, UPP1 |-> 8, UPP2  |-> 9, TCTL  |-> 10]

(* The first job that the script of a chain submits.                       *)
First(c) == IF kind[c] = "restart" THEN 4 ELSE 1

Accepted == Waiting \cup Running \cup Ended

Status == {"unsubmitted", "rejected"} \cup Accepted

(* The part of TypeOK that the control of the jobs depends on.             *)
CoreType ==
  /\ modelenv \in Dates \cup {0}
  /\ todo \in Seq(Names \cup {"edit", "cancel", "rotate"})
  /\ runs \in 0..MaxScripts
  /\ kind \in [Chain -> {"start", "restart"}]
  /\ dateOf \in [Chain -> Dates \cup {0}]
  /\ st \in [Job -> Status]
  /\ date \in [Job -> Dates \cup {0}]
  /\ overlapped \in BOOLEAN

(* What is still to do is the end of the program: the jobs in the order of *)
(* the line, and START_DATE is edited before anything else.                *)
TodoIsTail ==
  /\ todo # <<>> => runs > 0
  /\ \A i \in 1..Len(todo) :
       /\ todo[i] \in Names => /\ Rank[todo[i]] = 10 - Len(todo) + i
                               /\ Rank[todo[i]] >= First(runs)
       /\ todo[i] \notin Names => 10 - Len(todo) + i < First(runs)
       /\ todo[i] = "edit" => i = 1

(* What has been submitted is the beginning of it.                         *)
SubmittedIsHead ==
  \A j \in Job :
    /\ st[j] # "unsubmitted" => j[1] <= runs /\ Rank[j[2]] >= First(j[1])
    /\ j[1] = runs /\ Rank[j[2]] > 10 - Len(todo) => st[j] = "unsubmitted"
    /\ j[1] = runs /\ Rank[j[2]] <= 10 - Len(todo) /\ Rank[j[2]] >= First(runs)
         => st[j] # "unsubmitted"

(* A job is accepted only behind accepted ones, and starts behind ended    *)
(* ones; a restarted chain has none before the forecast.                   *)
InOrder ==
  \A j, k \in Job :
    j[1] = k[1] /\ Rank[j[2]] < Rank[k[2]] =>
      /\ st[k] \in Accepted => st[j] # "rejected"
      /\ st[k] \in Running \cup Ended => st[j] \in Ended \cup {"unsubmitted"}

EarlierAreOver == ~ overlapped => \A j \in Job : j[1] < runs => ~ Live(j)

(* modelenv.sh is never ahead of the last script, nor behind an earlier.   *)
Dated ==
  /\ \A c \in Chain : c <= runs => dateOf[c] \in Dates
  /\ \A c \in Chain : c < runs => dateOf[c] <= modelenv
  /\ runs > 0 => modelenv <= dateOf[runs]
  /\ runs > 0 /\ (todo = <<>> \/ todo[1] # "edit") => modelenv = dateOf[runs]

RunningDated == \A j \in Job : st[j] \in Running => date[j] \in Dates

IInv == /\ CoreType /\ TodoIsTail /\ SubmittedIsHead /\ InOrder
        /\ EarlierAreOver /\ Dated /\ RunningDated /\ OwnDate

-----------------------------------------------------------------------------
(* The line *)

LEMMA RankFacts ==
  /\ \A n \in Names : Rank[n] \in 1..10
  /\ \A m, n \in Names : Rank[m] = Rank[n] => m = n
  /\ \A n \in DOMAIN Needs : n \in Names /\ Needs[n] \in Names /\ Rank[Needs[n]] = Rank[n] - 1
  /\ \A n \in Names : n \notin DOMAIN Needs => Rank[n] = 1
  /\ Rank["MPAS1"] = 4 /\ "MPAS1" \in Names
  /\ "edit" \notin Names /\ "cancel" \notin Names /\ "rotate" \notin Names
<1>1. Names = {"CLEAN", "UNGR", "INIT", "MPAS1", "MPAS2", "WRF1", "WRF2",
               "UPP1", "UPP2", "TCTL"}
  BY DEF Names, Line
<1>2. DOMAIN Needs = {"UNGR", "INIT", "MPAS1", "MPAS2", "WRF1", "WRF2",
                      "UPP1", "UPP2", "TCTL"}
  BY DEF Needs
<1> QED
  BY <1>1, <1>2 DEF Rank, Needs

LEMMA JobFacts ==
  /\ \A j \in Job : j[1] \in Chain /\ j[2] \in Names /\ j = <<j[1], j[2]>>
  /\ \A c \in Chain, n \in Names : <<c, n>> \in Job
  /\ \A c \in Chain : c \in Nat /\ c > 0
BY BoundAssumption DEF Job, Chain

LEMMA DateFacts == \A d \in Dates : d \in Nat /\ d > 0
BY BoundAssumption

(* The job that a job needs comes just before it in the same chain.        *)
LEMMA NeedFacts ==
  ASSUME NEW j \in Job
  PROVE  /\ HasNeed(j) => Need(j) \in Job /\ Need(j)[1] = j[1] /\ Rank[Need(j)[2]] = Rank[j[2]] - 1
         /\ ~ HasNeed(j) => Rank[j[2]] = 1 \/ (kind[j[1]] = "restart" /\ Rank[j[2]] = 4)
BY RankFacts, JobFacts DEF HasNeed, Need

(* What is put before the jobs of the script, and the jobs.                *)
Preface(s) == IF s = "start" THEN <<"edit", "rotate">> ELSE <<"edit", "cancel", "rotate">>

FirstOf(s) == IF s = "restart" THEN 4 ELSE 1

Steps == Names \cup {"edit", "cancel", "rotate"}

LEMMA LineFacts ==
  /\ Line \in Seq(Names) /\ Len(Line) = 10
  /\ \A i \in 1..10 : Line[i] \in Names /\ Rank[Line[i]] = i
<1>1. Line \in Seq(Names) /\ Len(Line) = 10
  <2>1. Names = {"CLEAN", "UNGR", "INIT", "MPAS1", "MPAS2", "WRF1", "WRF2",
                 "UPP1", "UPP2", "TCTL"}
    BY DEF Names, Line
  <2> QED
    BY <2>1 DEF Line
<1>2. ASSUME NEW i \in 1..10 PROVE Line[i] \in Names
  BY DEF Names
<1>3. ASSUME NEW i \in 1..10 PROVE Rank[Line[i]] = i
  <2>1. \/ i = 1 \/ i = 2 \/ i = 3 \/ i = 4 \/ i = 5
        \/ i = 6 \/ i = 7 \/ i = 8 \/ i = 9 \/ i = 10
    OBVIOUS
  <2> QED
    BY <2>1 DEF Line, Rank
<1> QED
  BY <1>1, <1>2, <1>3

LEMMA SubmissionFacts ==
  ASSUME NEW s \in {"start", "restart"}
  PROVE  /\ Submissions(s) \in Seq(Names)
         /\ Len(Submissions(s)) = 11 - FirstOf(s)
         /\ \A i \in 1..Len(Submissions(s)) :
              /\ Submissions(s)[i] \in Names
              /\ Rank[Submissions(s)[i]] = FirstOf(s) - 1 + i
<1>1. CASE s = "start"
  <2>1. Submissions(s) = Line /\ FirstOf(s) = 1
    BY <1>1 DEF Submissions, FirstOf
  <2>2. /\ Len(Line) = 11 - 1
        /\ \A i \in 1..Len(Line) : Line[i] \in Names /\ Rank[Line[i]] = 1 - 1 + i
    BY LineFacts
  <2> QED
    BY <2>1, <2>2, LineFacts
<1>2. CASE s = "restart"
  <2>1. SubSeq(Line, 4, 10) \in Seq(Names) /\ Len(SubSeq(Line, 4, 10)) = 7
    BY LineFacts, SubSeqProperties
  <2>2. \A i \in 1..7 : SubSeq(Line, 4, 10)[i] = Line[i + 3]
    BY LineFacts, SubSeqProperties
  <2>3. Submissions(s) = SubSeq(Line, 4, 10) /\ FirstOf(s) = 4
    BY <1>2 DEF Submissions, FirstOf
  <2> QED
    BY <2>1, <2>2, <2>3, LineFacts
<1> QED
  BY <1>1, <1>2

LEMMA PrefaceFacts ==
  ASSUME NEW s \in {"start", "restart"}
  PROVE  /\ Preface(s) \in Seq(Steps) /\ Len(Preface(s)) \in {2, 3}
         /\ Len(Preface(s)) >= FirstOf(s) - 1
         /\ Preface(s)[1] = "edit"
         /\ \A i \in 1..Len(Preface(s)) : /\ Preface(s)[i] \notin Names
                                          /\ Preface(s)[i] = "edit" => i = 1
<1>1. CASE s = "start"
  <2>1. Preface(s) = <<"edit", "rotate">>
    BY <1>1 DEF Preface
  <2>2. Preface(s) \in Seq(Steps) /\ Len(Preface(s)) = 2
    BY <2>1 DEF Steps
  <2>3. Preface(s)[1] = "edit" /\ Preface(s)[2] = "rotate"
    BY <2>1
  <2>4. FirstOf(s) = 1
    BY <1>1 DEF FirstOf
  <2>5. \A i \in 1..2 : Preface(s)[i] \notin Names /\ (Preface(s)[i] = "edit" => i = 1)
    BY <2>3, RankFacts
  <2> QED
    BY <2>2, <2>3, <2>4, <2>5
<1>2. CASE s = "restart"
  <2>1. Preface(s) = <<"edit", "cancel", "rotate">>
    BY <1>2 DEF Preface
  <2>2. Preface(s) \in Seq(Steps) /\ Len(Preface(s)) = 3
    BY <2>1 DEF Steps
  <2>3. Preface(s)[1] = "edit" /\ Preface(s)[2] = "cancel" /\ Preface(s)[3] = "rotate"
    BY <2>1
  <2>4. FirstOf(s) = 4
    BY <1>2 DEF FirstOf
  <2>5. \A i \in 1..3 : Preface(s)[i] \notin Names /\ (Preface(s)[i] = "edit" => i = 1)
    BY <2>3, RankFacts
  <2> QED
    BY <2>2, <2>3, <2>4, <2>5
<1> QED
  BY <1>1, <1>2

(* The program of a script satisfies what TodoIsTail says of it.           *)
LEMMA ProgramFacts ==
  ASSUME NEW s \in {"start", "restart"}
  PROVE  LET p == Program(s)
         IN  /\ p \in Seq(Steps)
             /\ p # <<>> /\ Len(p) >= 10 /\ p[1] = "edit"
             /\ \A i \in 1..Len(p) :
                  /\ p[i] \in Names => /\ Rank[p[i]] = 10 - Len(p) + i
                                       /\ Rank[p[i]] >= FirstOf(s)
                  /\ p[i] \notin Names => 10 - Len(p) + i < FirstOf(s)
                  /\ p[i] = "edit" => i = 1
<1> DEFINE a == Preface(s)
           b == Submissions(s)
           p == a \o b
<1>1. Program(s) = p
  BY DEF Program, Preface
<1>2. a \in Seq(Steps) /\ b \in Seq(Steps)
  BY PrefaceFacts, SubmissionFacts DEF Steps
<1>3. /\ p \in Seq(Steps)
      /\ Len(p) = Len(a) + Len(b)
      /\ \A i \in 1..Len(p) : p[i] = IF i <= Len(a) THEN a[i] ELSE b[i - Len(a)]
  <2> HIDE DEF a, b
  <2> QED
    BY <1>2, ConcatProperties
<1>4. FirstOf(s) \in {1, 4}
  BY DEF FirstOf
<1>5. /\ Len(a) \in {2, 3} /\ Len(a) >= FirstOf(s) - 1 /\ a[1] = "edit"
      /\ \A i \in 1..Len(a) : a[i] \notin Names /\ (a[i] = "edit" => i = 1)
  BY PrefaceFacts
<1>6. /\ Len(b) = 11 - FirstOf(s)
      /\ \A i \in 1..Len(b) : b[i] \in Names /\ Rank[b[i]] = FirstOf(s) - 1 + i
  BY SubmissionFacts
<1>7. Len(p) >= 10 /\ p # <<>> /\ p[1] = "edit"
  <2> HIDE DEF a, b, p
  <2>1. Len(p) >= 10
    BY <1>3, <1>4, <1>5, <1>6
  <2> QED
    BY <2>1, <1>3, <1>5
<1>8. ASSUME NEW i \in 1..Len(p)
      PROVE  /\ p[i] \in Names => Rank[p[i]] = 10 - Len(p) + i /\ Rank[p[i]] >= FirstOf(s)
             /\ p[i] \notin Names => 10 - Len(p) + i < FirstOf(s)
             /\ p[i] = "edit" => i = 1
  <2> HIDE DEF a, b, p
  <2>1. CASE i <= Len(a)
    <3>1. i \in 1..Len(a) /\ p[i] = a[i]
      BY <2>1, <1>3, <1>5
    <3>2. p[i] \notin Names /\ (p[i] = "edit" => i = 1)
      BY <3>1, <1>5
    <3>3. 10 - Len(p) + i < FirstOf(s)
      BY <3>1, <1>3, <1>4, <1>5, <1>6
    <3> QED
      BY <3>2, <3>3
  <2>2. CASE i > Len(a)
    <3>1. i - Len(a) \in 1..Len(b)
      BY <2>2, <1>3, <1>4, <1>5, <1>6
    <3>2. p[i] = b[i - Len(a)]
      BY <2>2, <1>3, <1>5
    <3>3. b[i - Len(a)] \in Names /\ Rank[b[i - Len(a)]] = FirstOf(s) - 1 + (i - Len(a))
      BY <3>1, <1>6
    <3>4. p[i] \in Names /\ Rank[p[i]] = 10 - Len(p) + i
      BY <2>2, <3>1, <3>2, <3>3, <1>3, <1>4, <1>5, <1>6
    <3>5. Rank[p[i]] >= FirstOf(s)
      BY <3>1, <3>2, <3>3, <1>4
    <3>6. p[i] # "edit"
      BY <3>4, RankFacts
    <3> QED
      BY <3>4, <3>5, <3>6
  <2> QED
    BY <2>1, <2>2, <1>3, <1>5
<1> QED
  BY <1>1, <1>3, <1>7, <1>8
-----------------------------------------------------------------------------
(* The steps, by what they do to the variables that IInv speaks of *)

controlVars == <<modelenv, todo, runs, kind, dateOf, st, date, overlapped>>

(* A running job goes on, ends, or is requeued.                            *)
Moves(j) ==
  /\ st[j] \in Running
  /\ \E to \in Running \cup Ended \cup {"pending"} : st' = [st EXCEPT ![j] = to]
  /\ UNCHANGED <<modelenv, todo, runs, kind, dateOf, date, overlapped>>

(* The next line of the script submits a job.                              *)
Submits(j) ==
  /\ j[1] = runs /\ Does(j[2])
  /\ \/ st' = [st EXCEPT ![j] = "pending"] /\ ~ Refused(j)
     \/ st' = [st EXCEPT ![j] = "rejected"]
  /\ UNCHANGED <<modelenv, runs, kind, dateOf, date, overlapped>>

(* What becomes of a job that loses its node                               *)
LEMMA NodeLoss ==
  ASSUME NEW j, NodeFails(j)
  PROVE  /\ \E to \in {"pending", "failed"} : Goes(j, st[j], to)
         /\ j[2] \in {"UNGR", "INIT"} => Goes(j, st[j], "failed")
<1>1. AfterLoss(j) \subseteq {"pending", "failed"}
  BY DEF AfterLoss
<1>2. j[2] \in {"UNGR", "INIT"} => AfterLoss(j) = {"failed"}
  BY DEF AfterLoss, Forecast, Convert
<1> QED
  BY <1>1, <1>2 DEF NodeFails

LEMMA EveryStep ==
  ASSUME [Next]_vars
  PROVE  \/ \E s \in {"start", "restart"}, d \in Dates : RunScript(s, d)
         \/ EditModelenv \/ CancelQueue
         \/ Does("rotate") /\ UNCHANGED <<modelenv, runs, kind, dateOf, st, date, overlapped>>
         \/ \E j \in Job : Submits(j) \/ StartJob(j) \/ NeverStarts(j) \/ Moves(j)
         \/ UNCHANGED controlVars
<1>1. CASE \E j \in Job : Submit(j) \/ SubmitFails(j)
  BY <1>1 DEF Submit, SubmitFails, Submits
<1>2. CASE \E j \in Job : st[j] \in Running /\ Progress(j)
  <2>1. PICK j \in Job : st[j] \in Running /\ Progress(j)
    BY <1>2
  <2> DEFINE to == {"started", "converting", "polling", "preparing", "retrying",
                    "integrating", "finishing", "makingGrb1", "grb1Made", "makingGrb",
                    "ok", "failed", "timeout", "cancelled", "pending"}
  <2>2. \E from, s \in to : Goes(j, from, s)
    BY <2>1 DEF Progress, CleanRuns, TctlPublishes, UngribStarts, UngribConverts,
       UngribEnds, InitStarts, InitWorks, InitFails, ForecastSkips, ForecastRefuses,
       ForecastBegins, ForecastWrites, ForecastEnds, WrfSkips, WrfBegins, WrfEnds,
       UppStarts, Grb1Ends, GrbSkips, GrbBegins, GrbEnds, TimeLimit
  <2>3. Moves(j)
    BY <2>1, <2>2 DEF Moves, Goes, scriptVars, Running, Ended
  <2> QED
    BY <2>3
<1>3. CASE \E j \in Job : st[j] \in Running /\ Fault(j)
  <2>1. PICK j \in Job : st[j] \in Running /\ Fault(j)
    BY <1>3
  <2> DEFINE to == {"polling", "ok", "grb1Made", "failed", "timeout", "pending"}
  <2>2. \E s \in to : \E from \in Running : Goes(j, from, s)
    BY <2>1, NodeLoss DEF Fault, UngribAborts, WrfAborts, Grb1Aborts, IsKilled,
       ForecastAborts, Running
  <2>3. Moves(j)
    BY <2>1, <2>2 DEF Moves, Goes, scriptVars, Running, Ended
  <2> QED
    BY <2>3
<1>4. CASE RotateLogs
  BY <1>4 DEF RotateLogs
<1> QED
  BY <1>1, <1>2, <1>3, <1>4 DEF Next, Script, Slurm, vars, scriptVars, jobVars, controlVars
-----------------------------------------------------------------------------
(* A line of the script is done *)

LEMMA Done ==
  ASSUME CoreType, TodoIsTail, NEW step, Does(step), UNCHANGED <<runs, kind>>
  PROVE  /\ todo' \in Seq(Steps) /\ Len(todo') = Len(todo) - 1 /\ Len(todo) \in Nat \ {0}
         /\ todo[1] = step /\ runs \in Chain /\ step \in Steps
         /\ step \in Names => /\ Rank[step] = 10 - Len(todo')
                              /\ Rank[step] >= First(runs)
         /\ step \notin Names => 10 - Len(todo') < First(runs)
         /\ step \notin Names => step = "edit" \/ todo[1] # "edit"
         /\ todo' # <<>> => todo'[1] # "edit"
         /\ TodoIsTail'
<1>1. todo \in Seq(Steps) /\ todo # <<>> /\ todo' = Tail(todo) /\ step = Head(todo)
  BY DEF CoreType, Does, Steps
<1>2. /\ todo' \in Seq(Steps) /\ Len(todo') = Len(todo) - 1 /\ step \in Steps
      /\ \A i \in 1..Len(todo') : todo'[i] = todo[i + 1]
  BY <1>1, HeadTailProperties
<1>3. Len(todo) \in Nat \ {0} /\ todo[1] = step
  BY <1>1
<1>4. runs \in Nat /\ runs > 0 /\ runs \in Chain
  BY <1>1, BoundAssumption DEF CoreType, TodoIsTail, Chain
<1>5. First(runs)' = First(runs) /\ First(runs) \in {1, 4}
  BY DEF First
<1>6. /\ step \in Names => Rank[step] = 10 - Len(todo') /\ Rank[step] >= First(runs)
      /\ step \notin Names => 10 - Len(todo') < First(runs)
  <2>1. 1 \in 1..Len(todo)
    BY <1>3
  <2> QED
    BY <2>1, <1>2, <1>3, <1>5 DEF TodoIsTail
<1>7. ASSUME NEW i \in 1..Len(todo')
      PROVE  /\ todo'[i] \in Names => /\ Rank[todo'[i]] = 10 - Len(todo') + i
                                      /\ Rank[todo'[i]] >= First(runs)'
             /\ todo'[i] \notin Names => 10 - Len(todo') + i < First(runs)'
             /\ todo'[i] # "edit"
  <2>1. i + 1 \in 1..Len(todo) /\ todo'[i] = todo[i + 1]
    BY <1>2, <1>3
  <2>2. /\ todo[i + 1] \in Names => /\ Rank[todo[i + 1]] = 10 - Len(todo) + (i + 1)
                                    /\ Rank[todo[i + 1]] >= First(runs)
        /\ todo[i + 1] \notin Names => 10 - Len(todo) + (i + 1) < First(runs)
        /\ todo[i + 1] = "edit" => i + 1 = 1
    BY <2>1 DEF TodoIsTail
  <2> QED
    BY <2>1, <2>2, <1>2, <1>3, <1>5
<1>8. TodoIsTail'
  BY <1>4, <1>7 DEF TodoIsTail
<1>9. todo' # <<>> => todo'[1] # "edit"
  <2>1. SUFFICES ASSUME todo' # <<>> PROVE 1 \in 1..Len(todo')
    BY <1>7
  <2> QED
    BY <2>1, <1>2
<1> QED
  BY <1>2, <1>3, <1>4, <1>6, <1>8, <1>9

(* Simple facts about the statuses.                                        *)
LEMMA Disjoint ==
  /\ \A x \in Running \cup {"pending"} : x \notin Ended /\ x # "unsubmitted" /\ x # "rejected"
  /\ \A x \in Ended : x # "unsubmitted" /\ x # "rejected" /\ x # "pending" /\ x # "stuck"
  /\ Running \subseteq Status /\ Ended \subseteq Status /\ Waiting = {"pending", "stuck"}
  /\ "pending" \in Accepted /\ "rejected" \notin Accepted /\ "unsubmitted" \notin Accepted
  /\ "started" \in Running /\ "cancelled" \in Ended
BY DEF Running, Ended, Waiting, Accepted, Status

(* A job that has been submitted by the last script is behind its edit.    *)
LEMMA Edited ==
  ASSUME IInv, NEW j \in Job, j[1] = runs, st[j] # "unsubmitted"
  PROVE  modelenv = dateOf[runs]
<1>1. runs \in Chain /\ runs > 0 /\ First(runs) \in {1, 4} /\ Rank[j[2]] \in 1..10
  BY JobFacts, RankFacts, BoundAssumption DEF First, Chain
<1>2. Rank[j[2]] <= 10 - Len(todo) /\ Rank[j[2]] >= First(runs) /\ Len(todo) \in Nat
  BY <1>1 DEF IInv, SubmittedIsHead, CoreType
<1>3. ASSUME todo # <<>>, todo[1] = "edit" PROVE FALSE
  <2>1. 1 \in 1..Len(todo)
    BY <1>3 DEF IInv, CoreType
  <2>2. 10 - Len(todo) + 1 < First(runs)
    BY <2>1, <1>3, RankFacts DEF IInv, TodoIsTail
  <2> QED
    BY <2>2, <1>1, <1>2
<1> QED
  BY <1>1, <1>3 DEF IInv, Dated

(* A running job, and one that may start, has what precedes it behind it.  *)
LEMMA ReadyIsBehindEnded ==
  ASSUME IInv, NEW k \in Job, st[k] = "pending", Eligible(k),
         NEW j \in Job, j[1] = k[1], Rank[j[2]] < Rank[k[2]]
  PROVE  st[j] \in Ended \cup {"unsubmitted"}
<1>0. Rank[j[2]] \in 1..10 /\ Rank[k[2]] \in 1..10
  BY JobFacts, RankFacts
<1>1. CASE HasNeed(k)
  <2>1. st[Need(k)] \in Ended
    BY <1>1 DEF Eligible, Ended
  <2>2. Need(k) \in Job /\ Need(k)[1] = j[1] /\ Rank[Need(k)[2]] = Rank[k[2]] - 1
    BY <1>1, NeedFacts
  <2>3. CASE Rank[j[2]] = Rank[Need(k)[2]]
    <3>1. j[2] = Need(k)[2]
      BY <2>2, <2>3, JobFacts, RankFacts
    <3>2. j = Need(k)
      BY <2>2, <3>1, JobFacts
    <3> QED
      BY <2>1, <3>2
  <2>4. CASE Rank[j[2]] < Rank[Need(k)[2]]
    BY <2>1, <2>2, <2>4 DEF IInv, InOrder
  <2> QED
    BY <1>0, <2>2, <2>3, <2>4
<1>2. CASE ~ HasNeed(k)
  <2>1. kind[k[1]] = "restart" /\ Rank[k[2]] = 4
    BY <1>2, <1>0, NeedFacts
  <2>2. First(j[1]) = 4
    BY <2>1 DEF First
  <2> QED
    BY <1>0, <2>1, <2>2 DEF IInv, SubmittedIsHead
<1> QED
  BY <1>1, <1>2
-----------------------------------------------------------------------------
(* Each kind of step preserves the invariant *)

LEMMA InitIInv == Init => IInv
<1> SUFFICES ASSUME Init PROVE IInv
  OBVIOUS
<1>1. CoreType
  <2>1. modelenv = 0 /\ todo = <<>> /\ runs = 0 /\ overlapped = FALSE
    BY DEF Init
  <2>2. /\ kind \in [Chain -> {"start", "restart"}] /\ dateOf \in [Chain -> Dates \cup {0}]
        /\ st \in [Job -> Status] /\ date \in [Job -> Dates \cup {0}]
    BY DEF Init, Status
  <2>3. 0 \in 0..MaxScripts /\ <<>> \in Seq(Names \cup {"edit", "cancel", "rotate"})
    BY BoundAssumption
  <2> QED
    BY <2>1, <2>2, <2>3 DEF CoreType
<1>2. TodoIsTail
  BY DEF Init, TodoIsTail
<1>3. \A j \in Job : st[j] = "unsubmitted"
  BY DEF Init
<1>4. SubmittedIsHead
  <2>1. ASSUME NEW j \in Job PROVE j[1] # runs
    <3>1. j[1] > 0 /\ j[1] \in Nat /\ runs = 0
      BY JobFacts DEF Init
    <3> QED
      BY <3>1
  <2> QED
    BY <1>3, <2>1 DEF SubmittedIsHead
<1>5. InOrder
  BY <1>3, Disjoint DEF InOrder, Accepted
<1>6. EarlierAreOver /\ RunningDated /\ OwnDate
  BY <1>3, Disjoint DEF EarlierAreOver, RunningDated, OwnDate, Live
<1>7. Dated
  BY BoundAssumption DEF Init, Dated, Chain
<1> QED
  BY <1>1, <1>2, <1>4, <1>5, <1>6, <1>7 DEF IInv

LEMMA MovesKeeps == ASSUME IInv, NEW k \in Job, Moves(k) PROVE IInv'
<1>1. PICK to \in Running \cup Ended \cup {"pending"} : st' = [st EXCEPT ![k] = to]
  BY DEF Moves
<1>2. st[k] \in Running /\ st \in [Job -> Status]
  BY DEF Moves, IInv, CoreType
<1>3. /\ UNCHANGED <<modelenv, todo, runs, kind, dateOf, date, overlapped>>
      /\ st'[k] = to /\ \A j \in Job : j # k => st'[j] = st[j]
  BY <1>1, <1>2 DEF Moves
<1>4. CoreType'
  <2>1. to \in Status
    BY Disjoint DEF Status, Accepted
  <2> QED
    BY <1>1, <1>2, <1>3, <2>1 DEF IInv, CoreType
<1>5. TodoIsTail' /\ Dated'
  BY <1>3 DEF IInv, TodoIsTail, Dated, First
<1>6. SubmittedIsHead'
  BY <1>2, <1>3, Disjoint DEF IInv, SubmittedIsHead, First
<1>7. InOrder'
  <2> SUFFICES ASSUME NEW i \in Job, NEW j \in Job, i[1] = j[1], Rank[i[2]] < Rank[j[2]]
               PROVE  /\ st'[j] \in Accepted => st'[i] # "rejected"
                      /\ st'[j] \in Running \cup Ended => st'[i] \in Ended \cup {"unsubmitted"}
    BY DEF InOrder
  <2>1. ASSUME st'[j] \in Accepted PROVE st'[i] # "rejected"
    BY <1>2, <1>3, <2>1, Disjoint DEF IInv, InOrder, Accepted
  <2>2. ASSUME st'[j] \in Running \cup Ended PROVE st'[i] \in Ended \cup {"unsubmitted"}
    <3>1. st[i] \in Ended \cup {"unsubmitted"}
      BY <1>2, <1>3, <2>2 DEF IInv, InOrder
    <3> QED
      BY <3>1, <1>2, <1>3, Disjoint
  <2> QED
    BY <2>1, <2>2
<1>8. EarlierAreOver'
  BY <1>2, <1>3 DEF IInv, EarlierAreOver, Live
<1>9. RunningDated' /\ OwnDate'
  BY <1>2, <1>3 DEF IInv, RunningDated, OwnDate
<1> QED
  BY <1>4, <1>5, <1>6, <1>7, <1>8, <1>9 DEF IInv

LEMMA StartJobKeeps == ASSUME IInv, NEW k \in Job, StartJob(k) PROVE IInv'
<1>1. /\ st \in [Job -> Status] /\ date \in [Job -> Dates \cup {0}]
      /\ st[k] = "pending" /\ Eligible(k)
      /\ st' = [st EXCEPT ![k] = "started"] /\ date' = [date EXCEPT ![k] = modelenv]
      /\ UNCHANGED <<modelenv, todo, runs, kind, dateOf, overlapped>>
  BY DEF StartJob, scriptVars, IInv, CoreType
<1>2. /\ st'[k] = "started" /\ date'[k] = modelenv
      /\ \A j \in Job : j # k => st'[j] = st[j] /\ date'[j] = date[j]
  BY <1>1
<1>3. /\ k[1] \in Chain /\ k[1] <= runs /\ runs \in Chain /\ runs > 0
      /\ dateOf[k[1]] \in Dates /\ dateOf[runs] \in Dates
  <2>1. k[1] \in Chain /\ k[1] <= runs
    BY <1>1, JobFacts DEF IInv, SubmittedIsHead
  <2>2. runs \in Chain /\ runs > 0
    BY <2>1, BoundAssumption DEF IInv, CoreType, Chain
  <2> QED
    <3>1. runs <= runs
      BY <2>2, JobFacts
    <3> QED
      BY <2>1, <2>2, <3>1 DEF IInv, Dated
<1>4. modelenv \in Dates /\ modelenv >= dateOf[k[1]]
  <2>1. CASE k[1] = runs
    <3>1. modelenv = dateOf[k[1]]
      BY <1>1, <2>1, Edited
    <3> QED
      BY <3>1, <1>3, DateFacts
  <2>2. CASE k[1] < runs
    <3>1. dateOf[k[1]] <= modelenv /\ modelenv \in Dates \cup {0}
      BY <1>3, <2>2 DEF IInv, Dated, CoreType
    <3> QED
      BY <3>1, <1>3, DateFacts
  <2> QED
    BY <1>3, <2>1, <2>2 DEF Chain
<1>5. ~ overlapped => modelenv = dateOf[k[1]]
  <2> SUFFICES ASSUME ~ overlapped PROVE modelenv = dateOf[k[1]]
    OBVIOUS
  <2>1. Live(k)
    BY <1>1 DEF Live
  <2>2. k[1] = runs
    BY <1>3, <2>1 DEF IInv, EarlierAreOver, Chain
  <2> QED
    BY <1>1, <2>2, Edited
<1>6. CoreType'
  BY <1>1, <1>4, Disjoint DEF IInv, CoreType
<1>7. TodoIsTail' /\ Dated'
  BY <1>1 DEF IInv, TodoIsTail, Dated, First
<1>8. SubmittedIsHead'
  BY <1>1, <1>2 DEF IInv, SubmittedIsHead, First
<1>9. InOrder'
  <2> SUFFICES ASSUME NEW i \in Job, NEW j \in Job, i[1] = j[1], Rank[i[2]] < Rank[j[2]]
               PROVE  /\ st'[j] \in Accepted => st'[i] # "rejected"
                      /\ st'[j] \in Running \cup Ended => st'[i] \in Ended \cup {"unsubmitted"}
    BY DEF InOrder
  <2>1. ASSUME st'[j] \in Accepted PROVE st'[i] # "rejected"
    BY <1>1, <1>2, <2>1, Disjoint DEF IInv, InOrder
  <2>2. ASSUME st'[j] \in Running \cup Ended PROVE st'[i] \in Ended \cup {"unsubmitted"}
    <3>1. st[i] \in Ended \cup {"unsubmitted"}
      <4>1. CASE j = k
        BY <1>1, <4>1, ReadyIsBehindEnded
      <4>2. CASE j # k
        BY <1>2, <2>2, <4>2 DEF IInv, InOrder
      <4> QED
        BY <4>1, <4>2
    <3> QED
      BY <3>1, <1>1, <1>2, Disjoint
  <2> QED
    BY <2>1, <2>2
<1>10. EarlierAreOver'
  BY <1>1, <1>2 DEF IInv, EarlierAreOver, Live
<1>11. RunningDated' /\ OwnDate'
  BY <1>1, <1>2, <1>4, <1>5 DEF IInv, RunningDated, OwnDate
<1> QED
  BY <1>6, <1>7, <1>8, <1>9, <1>10, <1>11 DEF IInv

LEMMA NeverStartsKeeps == ASSUME IInv, NEW k \in Job, NeverStarts(k) PROVE IInv'
<1>1. /\ st \in [Job -> Status] /\ st[k] = "pending" /\ st' = [st EXCEPT ![k] = "stuck"]
      /\ UNCHANGED <<modelenv, todo, runs, kind, dateOf, date, overlapped>>
  BY DEF NeverStarts, scriptVars, IInv, CoreType
<1>2. st'[k] = "stuck" /\ \A j \in Job : j # k => st'[j] = st[j]
  BY <1>1
<1>3. "stuck" \notin Running /\ "stuck" \notin Ended /\ "stuck" \in Status /\ "stuck" # "pending"
  BY DEF Running, Ended, Status, Accepted, Waiting
<1>4. CoreType'
  BY <1>1, <1>3 DEF IInv, CoreType
<1>5. TodoIsTail' /\ Dated'
  BY <1>1 DEF IInv, TodoIsTail, Dated, First
<1>6. SubmittedIsHead'
  BY <1>1, <1>2 DEF IInv, SubmittedIsHead, First
<1>7. InOrder'
  <2> SUFFICES ASSUME NEW i \in Job, NEW j \in Job, i[1] = j[1], Rank[i[2]] < Rank[j[2]]
               PROVE  /\ st'[j] \in Accepted => st'[i] # "rejected"
                      /\ st'[j] \in Running \cup Ended => st'[i] \in Ended \cup {"unsubmitted"}
    BY DEF InOrder
  <2>1. ASSUME st'[j] \in Accepted PROVE st'[i] # "rejected"
    BY <1>1, <1>2, <2>1, Disjoint DEF IInv, InOrder
  <2>2. ASSUME st'[j] \in Running \cup Ended PROVE st'[i] \in Ended \cup {"unsubmitted"}
    <3>1. j # k
      BY <1>2, <1>3, <2>2
    <3>2. st[i] \in Ended \cup {"unsubmitted"}
      BY <1>2, <2>2, <3>1 DEF IInv, InOrder
    <3> QED
      BY <3>2, <1>1, <1>2, Disjoint
  <2> QED
    BY <2>1, <2>2
<1>8. EarlierAreOver'
  BY <1>1, <1>2, <1>3 DEF IInv, EarlierAreOver, Live
<1>9. RunningDated' /\ OwnDate'
  BY <1>1, <1>2, <1>3 DEF IInv, RunningDated, OwnDate
<1> QED
  BY <1>4, <1>5, <1>6, <1>7, <1>8, <1>9 DEF IInv

LEMMA SubmitsKeeps == ASSUME IInv, NEW k \in Job, Submits(k) PROVE IInv'
<1>1. /\ st \in [Job -> Status] /\ k[1] = runs /\ k[2] \in Names /\ Does(k[2])
      /\ UNCHANGED <<modelenv, runs, kind, dateOf, date, overlapped>>
  BY JobFacts DEF Submits, IInv, CoreType
<1>2. /\ todo' \in Seq(Steps) /\ Len(todo') = Len(todo) - 1 /\ Len(todo) \in Nat \ {0}
      /\ todo[1] = k[2] /\ runs \in Chain /\ TodoIsTail'
      /\ Rank[k[2]] = 10 - Len(todo') /\ Rank[k[2]] >= First(runs)
  BY <1>1, Done DEF IInv
<1>3. PICK to \in {"pending", "rejected"} :
         st' = [st EXCEPT ![k] = to] /\ (to = "pending" => ~ Refused(k))
  BY DEF Submits
<1>4. st'[k] = to /\ \A j \in Job : j # k => st'[j] = st[j]
  BY <1>1, <1>3
<1>5. to \in Status /\ to \notin Running /\ to \notin Ended
  BY DEF Status, Accepted, Waiting, Running, Ended
<1>6. \A j \in Job : Rank[j[2]] \in 1..10
  BY JobFacts, RankFacts
<1>7. \A j \in Job : j[1] = runs /\ Rank[j[2]] >= Rank[k[2]] => st[j] = "unsubmitted"
  <2> SUFFICES ASSUME NEW j \in Job, j[1] = runs, Rank[j[2]] >= Rank[k[2]]
               PROVE  st[j] = "unsubmitted"
    OBVIOUS
  <2>1. Rank[j[2]] > 10 - Len(todo)
    BY <1>2, <1>6
  <2> QED
    BY <2>1 DEF IInv, SubmittedIsHead
<1>8. \A j \in Job : j[1] = runs /\ Rank[j[2]] = Rank[k[2]] => j = k
  BY <1>1, JobFacts, RankFacts
<1>9. CoreType'
  BY <1>1, <1>2, <1>3, <1>5 DEF IInv, CoreType, Steps
<1>10. SubmittedIsHead'
  <2> SUFFICES ASSUME NEW j \in Job
      PROVE  /\ st'[j] # "unsubmitted" => j[1] <= runs /\ Rank[j[2]] >= First(j[1])
             /\ j[1] = runs /\ Rank[j[2]] > 10 - Len(todo') => st'[j] = "unsubmitted"
             /\ j[1] = runs /\ Rank[j[2]] <= 10 - Len(todo') /\ Rank[j[2]] >= First(runs)
                  => st'[j] # "unsubmitted"
    BY <1>1 DEF SubmittedIsHead, First
  <2>1. CASE j = k
    <3>1. st'[j] # "unsubmitted" /\ j[1] = runs /\ runs \in Nat
      BY <1>1, <1>2, <1>3, <1>4, <2>1, JobFacts
    <3> QED
      BY <3>1, <1>2, <1>6, <2>1
  <2>2. CASE j # k
    <3>1. st'[j] = st[j] /\ (j[1] = runs => Rank[j[2]] # Rank[k[2]])
      BY <1>4, <1>8, <2>2
    <3>2. /\ st[j] # "unsubmitted" => j[1] <= runs /\ Rank[j[2]] >= First(j[1])
          /\ j[1] = runs /\ Rank[j[2]] > 10 - Len(todo) => st[j] = "unsubmitted"
          /\ j[1] = runs /\ Rank[j[2]] <= 10 - Len(todo) /\ Rank[j[2]] >= First(runs)
               => st[j] # "unsubmitted"
      BY DEF IInv, SubmittedIsHead
    <3>3. j[1] = runs =>
            /\ Rank[j[2]] > 10 - Len(todo') => Rank[j[2]] > 10 - Len(todo)
            /\ Rank[j[2]] <= 10 - Len(todo') => Rank[j[2]] <= 10 - Len(todo)
      BY <3>1, <1>2, <1>6
    <3> QED
      BY <3>1, <3>2, <3>3
  <2> QED
    BY <2>1, <2>2
<1>11. InOrder'
  <2> SUFFICES ASSUME NEW i \in Job, NEW j \in Job, i[1] = j[1], Rank[i[2]] < Rank[j[2]]
               PROVE  /\ st'[j] \in Accepted => st'[i] # "rejected"
                      /\ st'[j] \in Running \cup Ended => st'[i] \in Ended \cup {"unsubmitted"}
    BY DEF InOrder
  <2>1. CASE i = k
    <3>1. j # k /\ st[j] = "unsubmitted"
      BY <1>1, <1>6, <1>7, <2>1
    <3> QED
      BY <3>1, <1>4, Disjoint
  <2>2. CASE i # k /\ j # k
    BY <2>2, <1>4 DEF IInv, InOrder
  <2>3. CASE j = k
    <3>1. i # k /\ st'[i] = st[i]
      BY <1>4, <1>6, <2>3
    <3>2. ASSUME to = "pending" PROVE st[i] # "rejected"
      <4>1. CASE ~ HasNeed(k)
        <5>1. First(i[1]) = 4 /\ Rank[k[2]] = 4
          BY <4>1, <1>6, <2>3, NeedFacts DEF First
        <5>2. st[i] = "unsubmitted"
          BY <5>1, <1>6, <2>3 DEF IInv, SubmittedIsHead
        <5> QED
          BY <5>2
      <4>2. CASE HasNeed(k)
        <5> DEFINE n == Need(k)
        <5>1. /\ n \in Job /\ n[1] = i[1] /\ Rank[n[2]] = Rank[k[2]] - 1
              /\ st[n] # "rejected"
          BY <4>2, <1>3, <2>3, <3>2, NeedFacts DEF Refused
        <5> HIDE DEF n
        <5>2. CASE Rank[i[2]] = Rank[n[2]]
          <6>1. i = n
            BY <5>1, <5>2, JobFacts, RankFacts
          <6> QED
            BY <5>1, <6>1
        <5>3. CASE Rank[i[2]] < Rank[n[2]] /\ st[n] \in Accepted
          BY <5>1, <5>3 DEF IInv, InOrder
        <5>4. CASE Rank[i[2]] < Rank[n[2]] /\ st[n] = "unsubmitted"
          <6>1. Rank[n[2]] < First(runs)
            BY <5>1, <5>4, <1>1, <1>2, <1>6, <2>3 DEF IInv, SubmittedIsHead, First
          <6>2. i[1] = runs /\ ~ (Rank[i[2]] >= First(runs))
            BY <6>1, <5>4, <1>1, <1>6, <2>3, <5>1 DEF First
          <6>3. st[i] = "unsubmitted"
            BY <6>2 DEF IInv, SubmittedIsHead
          <6> QED
            BY <6>3
        <5>5. st[n] \in Accepted \/ st[n] = "unsubmitted"
          BY <1>1, <5>1 DEF Status
        <5> QED
          BY <1>6, <2>3, <5>1, <5>2, <5>3, <5>4, <5>5
      <4> QED
        BY <4>1, <4>2
    <3> QED
      BY <1>3, <1>4, <1>5, <2>3, <3>1, <3>2, Disjoint
  <2> QED
    BY <2>1, <2>2, <2>3
<1>12. EarlierAreOver'
  <2>1. \A j \in Job : j[1] < runs => j # k
    BY <1>1, <1>2, JobFacts
  <2> QED
    BY <1>1, <1>4, <2>1 DEF IInv, EarlierAreOver, Live
<1>13. Dated'
  <2>1. modelenv = dateOf[runs]
    BY <1>1, <1>2, RankFacts, JobFacts DEF IInv, Dated
  <2> QED
    BY <1>1, <2>1 DEF IInv, Dated
<1>14. RunningDated' /\ OwnDate'
  BY <1>1, <1>4, <1>5 DEF IInv, RunningDated, OwnDate
<1> QED
  BY <1>2, <1>9, <1>10, <1>11, <1>12, <1>13, <1>14 DEF IInv

(* edit, cancel and rotate.                                                *)
LEMMA OtherLineKeeps ==
  ASSUME IInv, NEW step \in {"edit", "cancel", "rotate"}, Does(step),
         UNCHANGED <<runs, kind, dateOf, date, overlapped>>,
         modelenv' = IF step = "edit" THEN dateOf[runs] ELSE modelenv,
         \/ UNCHANGED st
         \/ st' = [j \in Job |-> IF st[j] \in Running \cup Waiting THEN "cancelled" ELSE st[j]]
  PROVE  IInv'
<1>1. step \notin Names
  BY RankFacts
<1>2. /\ todo' \in Seq(Steps) /\ Len(todo') = Len(todo) - 1 /\ Len(todo) \in Nat \ {0}
      /\ todo[1] = step /\ runs \in Chain /\ TodoIsTail'
      /\ 10 - Len(todo') < First(runs)
      /\ step = "edit" \/ todo[1] # "edit"
  BY <1>1, Done DEF IInv
<1>3. \A j \in Job : /\ st'[j] = st[j] \/ (st[j] \in Accepted /\ st'[j] = "cancelled")
                     /\ st[j] \in Status
  BY DEF IInv, CoreType, Accepted
<1>4. runs > 0 /\ runs <= runs /\ dateOf[runs] \in Dates
  BY <1>2, JobFacts DEF IInv, Dated
<1>5. CoreType'
  <2>1. st' \in [Job -> Status]
    BY Disjoint DEF IInv, CoreType
  <2> QED
    BY <1>2, <1>4, <2>1 DEF IInv, CoreType, Steps
<1>6. SubmittedIsHead'
  <2> SUFFICES ASSUME NEW j \in Job
      PROVE  /\ st'[j] # "unsubmitted" => j[1] <= runs /\ Rank[j[2]] >= First(j[1])
             /\ j[1] = runs /\ Rank[j[2]] > 10 - Len(todo') => st'[j] = "unsubmitted"
             /\ j[1] = runs /\ Rank[j[2]] <= 10 - Len(todo') /\ Rank[j[2]] >= First(runs)
                  => st'[j] # "unsubmitted"
    BY DEF SubmittedIsHead, First
  <2>1. Rank[j[2]] \in 1..10 /\ First(runs) \in {1, 4}
    BY JobFacts, RankFacts DEF First
  <2>2. st'[j] # "unsubmitted" => st[j] # "unsubmitted"
    BY <1>3, Disjoint
  <2>3. st[j] = "unsubmitted" => st'[j] = "unsubmitted"
    BY <1>3, Disjoint
  <2> QED
    BY <1>2, <2>1, <2>2, <2>3 DEF IInv, SubmittedIsHead
<1>7. InOrder'
  <2> SUFFICES ASSUME NEW i \in Job, NEW j \in Job, i[1] = j[1], Rank[i[2]] < Rank[j[2]]
               PROVE  /\ st'[j] \in Accepted => st'[i] # "rejected"
                      /\ st'[j] \in Running \cup Ended => st'[i] \in Ended \cup {"unsubmitted"}
    BY DEF InOrder
  <2>1. ASSUME st'[j] \in Accepted PROVE st'[i] # "rejected"
    BY <1>3, <2>1, Disjoint DEF IInv, InOrder
  <2>2. ASSUME st'[j] \in Running \cup Ended PROVE st'[i] \in Ended \cup {"unsubmitted"}
    <3>1. CASE UNCHANGED st
      BY <2>2, <3>1 DEF IInv, InOrder
    <3>2. CASE st' = [l \in Job |-> IF st[l] \in Running \cup Waiting THEN "cancelled" ELSE st[l]]
      <4>1. st[j] \in Accepted
        BY <1>3, <2>2 DEF Accepted
      <4>2. st[i] # "rejected"
        BY <4>1 DEF IInv, InOrder
      <4> QED
        BY <1>3, <3>2, <4>2, Disjoint DEF Status, Accepted
    <3> QED
      BY <3>1, <3>2
  <2> QED
    BY <2>1, <2>2
<1>8. EarlierAreOver'
  <2>1. \A j \in Job : Live(j)' => Live(j)
    BY <1>3, Disjoint DEF Live
  <2> QED
    BY <2>1 DEF IInv, EarlierAreOver
<1>9. Dated'
  <2>1. CASE step = "edit"
    <3>1. modelenv' = dateOf[runs] /\ dateOf[runs] \in Nat /\ modelenv <= dateOf[runs]
      BY <1>4, <2>1, DateFacts DEF IInv, Dated
    <3>2. ASSUME NEW c \in Chain, c < runs PROVE dateOf[c] <= dateOf[runs]
      <4>1. dateOf[c] <= modelenv /\ dateOf[c] \in Dates /\ modelenv \in Dates \cup {0}
        BY <3>2, <1>2, JobFacts DEF IInv, Dated, CoreType
      <4> QED
        BY <3>1, <4>1, DateFacts
    <3> QED
      BY <1>4, <3>1, <3>2 DEF IInv, Dated
  <2>2. CASE step # "edit"
    <3>1. modelenv' = modelenv /\ modelenv = dateOf[runs]
      BY <1>2, <1>4, <2>2 DEF IInv, Dated
    <3> QED
      BY <3>1 DEF IInv, Dated
  <2> QED
    BY <2>1, <2>2
<1>10. RunningDated' /\ OwnDate'
  <2>1. \A j \in Job : st'[j] \in Running => st[j] \in Running
    BY <1>3, Disjoint
  <2> QED
    BY <2>1 DEF IInv, RunningDated, OwnDate
<1> QED
  BY <1>2, <1>5, <1>6, <1>7, <1>8, <1>9, <1>10 DEF IInv

LEMMA RunScriptKeeps ==
  ASSUME IInv, NEW s \in {"start", "restart"}, NEW d \in Dates, RunScript(s, d)
  PROVE  IInv'
<1>1. /\ todo = <<>> /\ runs < MaxScripts /\ d >= modelenv
      /\ todo' = Program(s) /\ runs' = runs + 1
      /\ kind' = [kind EXCEPT ![runs + 1] = s] /\ dateOf' = [dateOf EXCEPT ![runs + 1] = d]
      /\ overlapped' = (overlapped \/ \E j \in Job : Live(j))
      /\ UNCHANGED <<modelenv, st, date>>
  BY DEF RunScript, jobVars
<1>2. /\ runs \in Nat /\ runs + 1 \in Chain
      /\ kind \in [Chain -> {"start", "restart"}] /\ dateOf \in [Chain -> Dates \cup {0}]
  BY <1>1, BoundAssumption DEF IInv, CoreType, Chain
<1>3. /\ kind'[runs + 1] = s /\ dateOf'[runs + 1] = d
      /\ \A c \in Chain : c # runs + 1 => kind'[c] = kind[c] /\ dateOf'[c] = dateOf[c]
  BY <1>1, <1>2
<1>4. /\ todo' \in Seq(Steps) /\ todo' # <<>> /\ Len(todo') >= 10 /\ todo'[1] = "edit"
      /\ \A i \in 1..Len(todo') :
           /\ todo'[i] \in Names => /\ Rank[todo'[i]] = 10 - Len(todo') + i
                                    /\ Rank[todo'[i]] >= FirstOf(s)
           /\ todo'[i] \notin Names => 10 - Len(todo') + i < FirstOf(s)
           /\ todo'[i] = "edit" => i = 1
  BY <1>1, ProgramFacts
<1>5. First(runs)' = FirstOf(s)
  BY <1>1, <1>3 DEF First, FirstOf
<1>6. \A j \in Job : st[j] # "unsubmitted" => j[1] <= runs /\ Rank[j[2]] >= First(j[1])
  BY DEF IInv, SubmittedIsHead
<1>7. \A j \in Job : j[1] \in Chain /\ j[1] \in Nat /\ Rank[j[2]] \in 1..10
  BY JobFacts, RankFacts
<1>8. CoreType'
  <2>1. overlapped' \in BOOLEAN
    BY <1>1
  <2>2. runs' \in 0..MaxScripts
    BY <1>1, <1>2, BoundAssumption
  <2> QED
    BY <1>1, <1>2, <1>4, <2>1, <2>2 DEF IInv, CoreType, Steps
<1>9. TodoIsTail'
  <2>1. runs' > 0
    BY <1>1, <1>2
  <2> QED
    BY <1>4, <1>5, <2>1 DEF TodoIsTail
<1>10. SubmittedIsHead'
  <2> SUFFICES ASSUME NEW j \in Job
      PROVE  /\ st[j] # "unsubmitted" => j[1] <= runs + 1 /\ Rank[j[2]] >= First(j[1])'
             /\ j[1] = runs + 1 => st[j] = "unsubmitted"
             /\ ~ (Rank[j[2]] <= 10 - Len(todo'))
    BY <1>1 DEF SubmittedIsHead
  <2>1. Len(todo') \in Nat
    BY <1>4
  <2>2. ASSUME st[j] # "unsubmitted" PROVE First(j[1])' = First(j[1]) /\ j[1] <= runs
    <3>1. j[1] <= runs /\ j[1] # runs + 1
      BY <1>2, <1>6, <1>7, <2>2
    <3> QED
      BY <3>1, <1>3, <1>7 DEF First
  <2>3. st[j] # "unsubmitted" => j[1] <= runs + 1 /\ Rank[j[2]] >= First(j[1])'
    BY <1>2, <1>6, <1>7, <2>2
  <2>4. j[1] = runs + 1 => st[j] = "unsubmitted"
    BY <1>2, <1>7, <2>2
  <2>5. ~ (Rank[j[2]] <= 10 - Len(todo'))
    BY <1>4, <1>7, <2>1
  <2> QED
    BY <2>3, <2>4, <2>5
<1>11. InOrder'
  BY <1>1 DEF IInv, InOrder
<1>12. EarlierAreOver'
  BY <1>1 DEF EarlierAreOver, Live
<1>13. Dated'
  <2>1. d \in Nat /\ modelenv \in Nat /\ modelenv <= d
    BY <1>1, DateFacts DEF IInv, CoreType
  <2>2. ASSUME NEW c \in Chain, c < runs + 1
        PROVE  dateOf'[c] = dateOf[c] /\ dateOf[c] \in Dates /\ dateOf[c] <= modelenv
    <3>1. c <= runs /\ c # runs + 1 /\ c > 0
      BY <1>2, <2>2, JobFacts
    <3>2. dateOf'[c] = dateOf[c] /\ dateOf[c] \in Dates
      BY <3>1, <1>3 DEF IInv, Dated
    <3>3. CASE c = runs
      BY <1>1, <2>1, <3>1, <3>2, <3>3 DEF IInv, Dated
    <3>4. CASE c < runs
      BY <3>2, <3>4 DEF IInv, Dated
    <3> QED
      BY <1>2, <3>1, <3>2, <3>3, <3>4, JobFacts
  <2>3. \A c \in Chain : c <= runs + 1 => c < runs + 1 \/ c = runs + 1
    BY <1>2, JobFacts
  <2> QED
    BY <1>1, <1>3, <1>4, <2>1, <2>2, <2>3 DEF Dated
<1>14. RunningDated' /\ OwnDate'
  <2>1. RunningDated'
    BY <1>1 DEF IInv, RunningDated
  <2>2. ASSUME NEW j \in Job, st[j] \in Running
        PROVE  date[j] >= dateOf'[j[1]] /\ (~ overlapped' => date[j] = dateOf'[j[1]])
    <3>1. j[1] <= runs /\ j[1] # runs + 1
      BY <1>2, <1>6, <1>7, <2>2, Disjoint
    <3>2. dateOf'[j[1]] = dateOf[j[1]]
      BY <3>1, <1>3, <1>7
    <3> QED
      BY <1>1, <2>2, <3>2 DEF IInv, OwnDate
  <2> QED
    BY <1>1, <2>1, <2>2 DEF OwnDate
<1> QED
  BY <1>8, <1>9, <1>10, <1>11, <1>12, <1>13, <1>14 DEF IInv

LEMMA NextIInv == IInv /\ [Next]_vars => IInv'
<1> SUFFICES ASSUME IInv, [Next]_vars PROVE IInv'
  OBVIOUS
<1>1. CASE \E s \in {"start", "restart"}, d \in Dates : RunScript(s, d)
  BY <1>1, RunScriptKeeps
<1>2. CASE EditModelenv
  <2>1. /\ Does("edit") /\ modelenv' = dateOf[runs]
        /\ UNCHANGED <<runs, kind, dateOf, date, overlapped>> /\ UNCHANGED st
    BY <1>2 DEF EditModelenv, jobVars
  <2> QED
    BY <2>1, OtherLineKeeps
<1>3. CASE CancelQueue
  <2>1. /\ Does("cancel") /\ modelenv' = modelenv
        /\ UNCHANGED <<runs, kind, dateOf, date, overlapped>>
        /\ st' = [j \in Job |-> IF st[j] \in Running \cup Waiting THEN "cancelled" ELSE st[j]]
    BY <1>3 DEF CancelQueue
  <2>2. modelenv' = IF "cancel" = "edit" THEN dateOf[runs] ELSE modelenv
    BY <2>1
  <2> QED
    BY <2>1, <2>2, OtherLineKeeps
<1>4. CASE Does("rotate") /\ UNCHANGED <<modelenv, runs, kind, dateOf, st, date, overlapped>>
  <2>1. modelenv' = IF "rotate" = "edit" THEN dateOf[runs] ELSE modelenv
    BY <1>4
  <2>2. UNCHANGED <<runs, kind, dateOf, date, overlapped>> /\ UNCHANGED st
    BY <1>4
  <2> QED
    BY <1>4, <2>1, <2>2, OtherLineKeeps
<1>5. CASE \E j \in Job : Submits(j) \/ StartJob(j) \/ NeverStarts(j) \/ Moves(j)
  BY <1>5, SubmitsKeeps, StartJobKeeps, NeverStartsKeeps, MovesKeeps
<1>6. CASE UNCHANGED controlVars
  <2>1. CoreType' /\ TodoIsTail' /\ SubmittedIsHead'
    BY <1>6 DEF controlVars, IInv, CoreType, TodoIsTail, SubmittedIsHead, First
  <2>2. InOrder' /\ EarlierAreOver' /\ Dated' /\ RunningDated' /\ OwnDate'
    BY <1>6 DEF controlVars, IInv, InOrder, EarlierAreOver, Live, Dated, RunningDated, OwnDate
  <2> QED
    BY <2>1, <2>2 DEF IInv
<1> QED
  BY <1>1, <1>2, <1>3, <1>4, <1>5, <1>6, EveryStep

LEMMA Inductive == Spec => []IInv
BY InitIInv, NextIInv, PTL DEF Spec

-----------------------------------------------------------------------------
(* The results about the control of the jobs *)

(* However many scripts are run, whatever fails and is requeued: no job    *)
(* works for an earlier cycle than its own, and none for a later one       *)
(* unless a script was run over a live queue.  (start.mpas edits           *)
(* modelenv.sh before it submits, and every job sources it when it starts.) *)
THEOREM JobsKeepTheirDate == Spec => []OwnDate
BY Inductive, PTL DEF IInv

LEMMA OneRuns == IInv => OneAtATime
<1> SUFFICES ASSUME IInv, ~ overlapped, NEW j \in Job, NEW k \in Job,
                    st[j] \in Running, st[k] \in Running
             PROVE  j = k
  BY DEF OneAtATime
<1>1. j[1] = runs /\ k[1] = runs
  <2>1. \A i \in Job : st[i] \in Running => i[1] <= runs /\ ~ (i[1] < runs)
    BY Disjoint DEF IInv, SubmittedIsHead, EarlierAreOver, Live
  <2>2. runs \in Nat /\ j[1] \in Nat /\ k[1] \in Nat
    BY JobFacts, BoundAssumption DEF IInv, CoreType
  <2> QED
    BY <2>1, <2>2
<1>2. ~ (Rank[j[2]] < Rank[k[2]]) /\ ~ (Rank[k[2]] < Rank[j[2]])
  BY <1>1, Disjoint DEF IInv, InOrder
<1>3. Rank[j[2]] = Rank[k[2]]
  BY <1>2, JobFacts, RankFacts
<1>4. j[2] = k[2]
  BY <1>3, JobFacts, RankFacts
<1> QED
  BY <1>1, <1>4, JobFacts

(* The jobs that share the files of a cycle run one at a time: the chain   *)
(* of dependencies excludes two of them at once through every failure and  *)
(* requeue, as long as no script is run over a live queue.                 *)
THEOREM NoTwoJobsAtOnce == Spec => []OneAtATime
BY Inductive, OneRuns, PTL

LEMMA StuckStep ==
  ASSUME IInv, StuckOnlyBehindIngest, [Next]_vars
  PROVE  StuckOnlyBehindIngest'
<1> DEFINE Bad(c) == \E n \in {"UNGR", "INIT"} : st[<<c, n>>] \in Ended \ {"ok"}
<1>0. "UNGR" \in Names /\ "INIT" \in Names
  <2>1. Line[2] = "UNGR" /\ Line[3] = "INIT"
    BY DEF Line
  <2> QED
    BY <2>1 DEF Names
<1>1. ASSUME NEW j \in Job, st[j] \in Ended PROVE st'[j] = st[j]
  <2>1. st \in [Job -> Status]
    BY DEF IInv, CoreType
  <2>2. CASE \E k \in Job : Submits(k)
    <3>1. PICK k \in Job : Submits(k)
      BY <2>2
    <3>2. k[1] = runs /\ Rank[k[2]] = 10 - Len(todo') /\ Len(todo') = Len(todo) - 1
          /\ Len(todo) \in Nat
      BY <3>1, JobFacts, Done DEF Submits, IInv
    <3>3. st[k] = "unsubmitted"
      BY <3>2 DEF IInv, SubmittedIsHead
    <3> QED
      BY <2>1, <3>1, <3>3, <1>1, Disjoint DEF Submits
  <2>3. CASE \E k \in Job : StartJob(k) \/ NeverStarts(k) \/ Moves(k)
    BY <2>1, <2>3, <1>1, Disjoint DEF StartJob, NeverStarts, Moves
  <2>4. CASE CancelQueue
    BY <2>4, <1>1, Disjoint DEF CancelQueue
  <2>5. CASE UNCHANGED st
    BY <2>5
  <2> QED
    BY <2>2, <2>3, <2>4, <2>5, EveryStep DEF RunScript, EditModelenv, jobVars, controlVars
<1>2. ASSUME NEW c \in Chain, Bad(c) PROVE Bad(c)'
  <2>1. PICK n \in {"UNGR", "INIT"} : st[<<c, n>>] \in Ended \ {"ok"}
    BY <1>2
  <2>2. st'[<<c, n>>] = st[<<c, n>>]
    BY <1>0, <1>1, <2>1, JobFacts
  <2> QED
    BY <2>1, <2>2
<1>3. ASSUME NEW j \in Job, st'[j] = "stuck" PROVE st[j] = "stuck" \/ NeverStarts(j)
  <2>1. st \in [Job -> Status]
    BY DEF IInv, CoreType
  <2>2. "stuck" \notin Running \cup Ended \cup {"pending"}
    BY DEF Running, Ended
  <2>3. CASE \E k \in Job : Submits(k) \/ StartJob(k) \/ NeverStarts(k)
    BY <1>3, <2>1, <2>3 DEF Submits, StartJob, NeverStarts
  <2>4. CASE \E k \in Job : Moves(k)
    BY <1>3, <2>1, <2>2, <2>4 DEF Moves
  <2>5. CASE CancelQueue
    BY <1>3, <2>5 DEF CancelQueue
  <2>6. CASE UNCHANGED st
    BY <1>3, <2>6
  <2> QED
    BY <2>3, <2>4, <2>5, <2>6, EveryStep DEF RunScript, EditModelenv, jobVars, controlVars
<1>4. ASSUME NEW j \in Job, NeverStarts(j) PROVE Bad(j[1])
  <2>1. HasNeed(j) /\ Need(j) \in Job /\ Need(j)[1] = j[1]
    BY <1>4, NeedFacts DEF NeverStarts
  <2>2. CASE st[Need(j)] = "stuck"
    BY <2>1, <2>2 DEF StuckOnlyBehindIngest
  <2>3. CASE j[2] \in AfterOk /\ st[Need(j)] \in Ended \ {"ok"}
    <3>1. Need(j) \in {<<j[1], "UNGR">>, <<j[1], "INIT">>}
      BY <2>3 DEF AfterOk, Need, Needs
    <3> QED
      BY <2>3, <3>1
  <2> QED
    BY <1>4, <2>2, <2>3 DEF NeverStarts
<1>5. ASSUME NEW j \in Job, st[j] = "stuck" PROVE Bad(j[1])
  BY <1>5 DEF StuckOnlyBehindIngest
<1>6. ASSUME NEW j \in Job, st'[j] = "stuck" PROVE Bad(j[1])'
  <2>1. Bad(j[1]) /\ j[1] \in Chain
    BY <1>3, <1>4, <1>5, <1>6, JobFacts
  <2> QED
    BY <1>2, <2>1
<1> QED
  BY <1>6 DEF StuckOnlyBehindIngest

(* A job is left in the queue for good only if one of the two preparing    *)
(* jobs of its chain did not succeed: every later job of the chain gets    *)
(* its turn, whatever becomes of the ones before it.                       *)
THEOREM OnlyIngestBlocks == Spec => []StuckOnlyBehindIngest
<1>1. Init => StuckOnlyBehindIngest
  BY DEF Init, StuckOnlyBehindIngest
<1>2. IInv /\ StuckOnlyBehindIngest /\ [Next]_vars => StuckOnlyBehindIngest'
  BY StuckStep
<1> QED
  BY <1>1, <1>2, Inductive, PTL DEF Spec
-----------------------------------------------------------------------------
(* The types of the files *)

DataType ==
  /\ published \in Dates \cup {0}
  /\ oldLog \subseteq Job
  /\ ungribLine \in BOOLEAN
  /\ files \in [Dates -> CycleFiles]

(* A file state may be put into any field that holds one.                  *)
LEMMA CycleFilesFacts ==
  /\ NoFiles \in CycleFiles
  /\ \A f \in CycleFiles, x \in FileState :
       /\ [f EXCEPT !.init = x] \in CycleFiles /\ [f EXCEPT !.mpas = x] \in CycleFiles
       /\ [f EXCEPT !.wrf = x] \in CycleFiles /\ [f EXCEPT !.grb1 = x] \in CycleFiles
       /\ [f EXCEPT !.grb = x] \in CycleFiles
       /\ [f EXCEPT !.mpas = x, !.restarts = TRUE] \in CycleFiles
  /\ \A f \in CycleFiles :
       /\ [f EXCEPT !.ingest = TRUE] \in CycleFiles
       /\ [f EXCEPT !.restarts = TRUE] \in CycleFiles
       /\ [f EXCEPT !.done = TRUE] \in CycleFiles
  /\ {"absent", "partial", "good", "bad"} = FileState
  /\ \A from : Derived(from) \in FileState
<1>1. NoFiles \in CycleFiles
  BY DEF NoFiles, CycleFiles, FileState
<1>2. \A from : Derived(from) \in FileState
  BY DEF Derived, FileState
<1>3. ASSUME NEW f \in CycleFiles, NEW x \in FileState
      PROVE  /\ [f EXCEPT !.init = x] \in CycleFiles /\ [f EXCEPT !.mpas = x] \in CycleFiles
             /\ [f EXCEPT !.wrf = x] \in CycleFiles /\ [f EXCEPT !.grb1 = x] \in CycleFiles
             /\ [f EXCEPT !.grb = x] \in CycleFiles
             /\ [f EXCEPT !.mpas = x, !.restarts = TRUE] \in CycleFiles
  BY <1>3 DEF CycleFiles
<1>4. ASSUME NEW f \in CycleFiles
      PROVE  /\ [f EXCEPT !.ingest = TRUE] \in CycleFiles
             /\ [f EXCEPT !.restarts = TRUE] \in CycleFiles
             /\ [f EXCEPT !.done = TRUE] \in CycleFiles
  BY <1>4 DEF CycleFiles
<1> QED
  BY <1>1, <1>2, <1>3, <1>4 DEF FileState

LEMMA PutsFacts ==
  ASSUME DataType, NEW j \in Job, date[j] \in Dates
  PROVE  /\ FilesOf(j) \in CycleFiles
         /\ \A f \in CycleFiles : Puts(j, f) => files' \in [Dates -> CycleFiles]
BY DEF DataType, FilesOf, Puts

(* What a running job does to the data, action by action.                  *)
LEMMA RunningData ==
  ASSUME DataType, NEW j \in Job, date[j] \in Dates, st[j] \in Running,
         Progress(j) \/ Fault(j)
  PROVE  DataType'
<1>1. FilesOf(j) \in CycleFiles /\ \A f \in CycleFiles : Puts(j, f) => files' \in [Dates -> CycleFiles]
  BY PutsFacts
<1>2. \A from, to : Goes(j, from, to) => oldLog' \in {oldLog, oldLog \ {j}}
  BY DEF Goes
<1>3. \A f \in CutOff(j) : f \in CycleFiles
  BY <1>1, CycleFilesFacts DEF CutOff
<1> DEFINE Log  == oldLog' \in {oldLog, oldLog \ {j}}
           File == files' = files \/ \E f \in CycleFiles : Puts(j, f)
           Rest == ungribLine' \in BOOLEAN /\ published' \in {published, date[j]}
<1> SUFFICES Log /\ File /\ Rest
  BY <1>1 DEF DataType
<1>4. ungribLine \in BOOLEAN
  BY DEF DataType
<1>5. CASE CleanRuns(j)
  BY <1>2, <1>4, <1>5, CycleFilesFacts DEF CleanRuns, KeepsRest
<1>6. CASE TctlPublishes(j)
  BY <1>2, <1>4, <1>6 DEF TctlPublishes
<1>7. CASE UngribStarts(j) \/ UngribConverts(j) \/ UngribEnds(j) \/ UngribAborts(j)
  BY <1>1, <1>2, <1>4, <1>7, CycleFilesFacts
     DEF UngribStarts, UngribConverts, UngribEnds, UngribAborts, KeepsRest
<1>8. CASE InitStarts(j) \/ InitWorks(j) \/ InitFails(j)
  BY <1>1, <1>2, <1>4, <1>8, CycleFilesFacts
     DEF InitStarts, InitWorks, InitFails, KeepsRest
<1>9. CASE ForecastSkips(j) \/ ForecastRefuses(j) \/ ForecastBegins(j)
  BY <1>2, <1>4, <1>9 DEF ForecastSkips, ForecastRefuses, ForecastBegins, KeepsRest
<1>10. CASE ForecastWrites(j)
  BY <1>1, <1>2, <1>4, <1>10, CycleFilesFacts DEF ForecastWrites, KeepsRest
<1>11. CASE ForecastEnds(j)
  BY <1>1, <1>2, <1>4, <1>11, CycleFilesFacts DEF ForecastEnds, KeepsRest
<1>12. CASE WrfSkips(j) \/ WrfBegins(j) \/ WrfEnds(j) \/ WrfAborts(j)
  BY <1>1, <1>2, <1>4, <1>12, CycleFilesFacts
     DEF WrfSkips, WrfBegins, WrfEnds, WrfAborts, KeepsRest
<1>13. CASE UppStarts(j) \/ Grb1Ends(j) \/ Grb1Aborts(j)
  BY <1>1, <1>2, <1>4, <1>13, CycleFilesFacts
     DEF UppStarts, Grb1Ends, Grb1Aborts, KeepsRest
<1>14. CASE GrbSkips(j) \/ GrbBegins(j) \/ GrbEnds(j)
  BY <1>1, <1>2, <1>4, <1>14, CycleFilesFacts DEF GrbSkips, GrbBegins, GrbEnds, KeepsRest
<1>15. CASE TimeLimit(j)
  BY <1>2, <1>4, <1>15 DEF TimeLimit, KeepsRest
<1>16. CASE IsKilled(j) \/ ForecastAborts(j) \/ NodeFails(j)
  BY <1>2, <1>3, <1>4, <1>16 DEF IsKilled, ForecastAborts, NodeFails
<1> QED
  BY <1>5, <1>6, <1>7, <1>8, <1>9, <1>10, <1>11, <1>12, <1>13, <1>14, <1>15, <1>16
     DEF Progress, Fault

LEMMA NextData == IInv /\ DataType /\ [Next]_vars => DataType'
<1> SUFFICES ASSUME IInv, DataType, [Next]_vars PROVE DataType'
  OBVIOUS
<1> USE DEF DataType
<1>1. CASE \E s \in {"start", "restart"}, d \in Dates : RunScript(s, d)
  BY <1>1 DEF RunScript, jobVars
<1>2. CASE EditModelenv \/ CancelQueue
  BY <1>2 DEF EditModelenv, CancelQueue, jobVars
<1>3. CASE RotateLogs
  BY <1>3 DEF RotateLogs
<1>4. CASE \E j \in Job : Submit(j) \/ SubmitFails(j) \/ StartJob(j) \/ NeverStarts(j)
  BY <1>4 DEF Submit, SubmitFails, StartJob, NeverStarts
<1>5. CASE \E j \in Job : st[j] \in Running /\ (Progress(j) \/ Fault(j))
  BY <1>5, RunningData DEF IInv, RunningDated
<1>6. CASE UNCHANGED vars
  BY <1>6 DEF vars, jobVars
<1> QED
  BY <1>1, <1>2, <1>3, <1>4, <1>5, <1>6 DEF Next, Script, Slurm

(* The variables keep their types: for the dates of running jobs this      *)
(* needs that modelenv.sh has been edited before any job can start.        *)
THEOREM JobChainTypeCorrect == Spec => []TypeOK
<1>1. Init => DataType
  BY CycleFilesFacts DEF Init, DataType
<1>2. IInv /\ DataType => TypeOK
  BY DEF IInv, CoreType, DataType, RunningDated, TypeOK, Status, Accepted
<1> QED
  BY <1>1, <1>2, NextData, Inductive, PTL DEF Spec
-----------------------------------------------------------------------------
(* Products are not spoiled *)

(* What is being made has not been taken for complete.                     *)
Unfinished ==
  ~ overlapped =>
    \A j \in Job :
      /\ st[j] = "converting" /\ Convert(j) => files[date[j]].wrf = "partial"
      /\ st[j] = "makingGrb" => files[date[j]].grb \in {"absent", "partial"}

ProductsKept ==
  \A d \in Dates : \A p \in {"wrf", "grb1", "grb"} :
    (~ overlapped /\ files[d][p] = "good" /\ files'[d] # NoFiles) => files'[d][p] = "good"

(* The products in g are those in f.                                       *)
SameProducts(f, g) == g.wrf = f.wrf /\ g.grb1 = f.grb1 /\ g.grb = f.grb

(* A step of a running job leaves a good product alone, because the job    *)
(* has looked for it, or had looked before it began to make one.           *)
LEMMA ProductStep ==
  ASSUME IInv, DataType, NEW j \in Job, st[j] \in Running, Progress(j) \/ Fault(j),
         st[j] = "converting" /\ Convert(j) => files[date[j]].wrf = "partial",
         st[j] = "makingGrb" => files[date[j]].grb \in {"absent", "partial"}
  PROVE  /\ date[j] \in Dates /\ date' = date
         /\ \E to \in Running \cup Ended \cup {"pending"} : st' = [st EXCEPT ![j] = to]
         /\ \A d \in Dates : d # date[j] => files'[d] = files[d]
         /\ files'[date[j]] # NoFiles =>
              /\ files[date[j]].wrf = "good" => files'[date[j]].wrf = "good"
              /\ files[date[j]].grb1 = "good" => files'[date[j]].grb1 = "good"
              /\ files[date[j]].grb = "good" => files'[date[j]].grb = "good"
         /\ st'[j] = "converting" /\ Convert(j) => files'[date[j]].wrf = "partial"
         /\ st'[j] = "makingGrb" => files'[date[j]].grb \in {"absent", "partial"}
<1>1. date[j] \in Dates /\ st \in [Job -> Status]
  BY DEF IInv, RunningDated, CoreType
<1>2. FilesOf(j) \in CycleFiles /\ FilesOf(j) = files[date[j]]
  BY <1>1, PutsFacts DEF FilesOf
<1>3. ASSUME NEW f, Puts(j, f)
      PROVE  files'[date[j]] = f /\ \A d \in Dates : d # date[j] => files'[d] = files[d]
  BY <1>1, <1>3 DEF Puts, DataType
<1>4. ASSUME NEW from, NEW to, Goes(j, from, to)
      PROVE  st[j] = from /\ st'[j] = to /\ st' = [st EXCEPT ![j] = to] /\ date' = date
  BY <1>1, <1>4 DEF Goes
<1>5. \A f \in CutOff(j) : SameProducts(FilesOf(j), f)
  BY <1>2 DEF CutOff, SameProducts, CycleFiles
<1> DEFINE Other == \A d \in Dates : d # date[j] => files'[d] = files[d]
           Same  == SameProducts(FilesOf(j), files'[date[j]])
           Moved == \E to \in Running \cup Ended \cup {"pending"} :
                      st' = [st EXCEPT ![j] = to] /\ st'[j] = to
           To(S) == st'[j] \in S
           Idle  == st'[j] # "makingGrb" /\ (Convert(j) => st'[j] # "converting")
<1>0. ASSUME NEW from, NEW to \in Running \cup Ended \cup {"pending"}, Goes(j, from, to),
             NEW g, Puts(j, g),
             from = st[j] =>
               /\ g = NoFiles \/ \A p \in {"wrf", "grb1", "grb"} :
                                  FilesOf(j)[p] = "good" => g[p] = "good"
               /\ to = "converting" /\ Convert(j) => g.wrf = "partial"
               /\ to = "makingGrb" => g.grb \in {"absent", "partial"}
      PROVE  /\ date[j] \in Dates /\ date' = date
             /\ \E s \in Running \cup Ended \cup {"pending"} : st' = [st EXCEPT ![j] = s]
             /\ Other
             /\ files'[date[j]] # NoFiles =>
                  /\ files[date[j]].wrf = "good" => files'[date[j]].wrf = "good"
                  /\ files[date[j]].grb1 = "good" => files'[date[j]].grb1 = "good"
                  /\ files[date[j]].grb = "good" => files'[date[j]].grb = "good"
             /\ st'[j] = "converting" /\ Convert(j) => files'[date[j]].wrf = "partial"
             /\ st'[j] = "makingGrb" => files'[date[j]].grb \in {"absent", "partial"}
  <2>1. files'[date[j]] = g /\ Other
    BY <1>0, <1>3
  <2>2. st[j] = from /\ st'[j] = to /\ st' = [st EXCEPT ![j] = to] /\ date' = date
    BY <1>0, <1>4
  <2> QED
    BY <1>0, <1>1, <1>2, <2>1, <2>2
<1>6. CASE CleanRuns(j)
  <2>1. Puts(j, NoFiles) /\ Goes(j, "started", "ok")
    BY <1>6 DEF CleanRuns
  <2> QED
    BY <1>1, <1>3, <1>4, <2>1 DEF Ended
<1>7. CASE \/ TctlPublishes(j) \/ UngribStarts(j) \/ UngribEnds(j) \/ UngribAborts(j)
           \/ ForecastSkips(j) \/ ForecastRefuses(j) \/ ForecastBegins(j)
           \/ WrfSkips(j) \/ WrfAborts(j) \/ UppStarts(j) \/ GrbSkips(j) \/ TimeLimit(j)
           \/ (Grb1Ends(j) \/ Grb1Aborts(j)) /\ UNCHANGED files
  <2>1. files' = files
    BY <1>7 DEF TctlPublishes, UngribStarts, UngribEnds, UngribAborts, ForecastSkips,
       ForecastRefuses, ForecastBegins, WrfSkips, WrfAborts, UppStarts, GrbSkips, TimeLimit
  <2>2. Moved /\ Idle /\ date' = date
    BY <1>4, <1>7 DEF TctlPublishes, UngribStarts, UngribEnds, UngribAborts, ForecastSkips,
       ForecastRefuses, ForecastBegins, WrfSkips, WrfAborts, UppStarts, GrbSkips, TimeLimit,
       Grb1Ends, Grb1Aborts, Running, Ended, Convert
  <2> QED
    BY <1>1, <2>1, <2>2
<1>8. CASE UngribConverts(j) \/ InitStarts(j) \/ InitWorks(j) \/ InitFails(j)
           \/ ForecastWrites(j) \/ ForecastEnds(j)
  <2>1. Other /\ Same
    <3>1. UNCHANGED files => Other /\ Same
      BY <1>2 DEF SameProducts
    <3>2. /\ \A x : SameProducts(FilesOf(j), [FilesOf(j) EXCEPT !.init = x])
          /\ \A x : SameProducts(FilesOf(j), [FilesOf(j) EXCEPT !.mpas = x, !.restarts = TRUE])
          /\ SameProducts(FilesOf(j), [FilesOf(j) EXCEPT !.ingest = TRUE])
          /\ SameProducts(FilesOf(j), [FilesOf(j) EXCEPT !.done = TRUE])
      BY <1>2 DEF SameProducts, CycleFiles
    <3>3. ASSUME NEW f, Puts(j, f), SameProducts(FilesOf(j), f) PROVE Other /\ Same
      BY <1>3, <3>3
    <3>4. CASE UngribConverts(j)
      BY <3>2, <3>3, <3>4 DEF UngribConverts
    <3>5. CASE InitStarts(j) \/ InitWorks(j)
      BY <3>2, <3>3, <3>5 DEF InitStarts, InitWorks
    <3>6. CASE InitFails(j)
      BY <3>2, <3>3, <3>6 DEF InitFails
    <3>7. CASE ForecastWrites(j)
      BY <3>1, <3>2, <3>3, <3>7 DEF ForecastWrites
    <3>8. CASE ForecastEnds(j)
      BY <3>1, <3>2, <3>3, <3>8 DEF ForecastEnds
    <3> QED
      BY <1>8, <3>4, <3>5, <3>6, <3>7, <3>8
  <2>2. Moved /\ Idle /\ date' = date
    BY <1>4, <1>8 DEF UngribConverts, InitStarts, InitWorks, InitFails,
         ForecastWrites, ForecastEnds, Running, Ended, Convert
  <2> QED
    BY <1>1, <1>2, <2>1, <2>2 DEF SameProducts
<1>9. CASE WrfBegins(j)
  <2> DEFINE g == [FilesOf(j) EXCEPT !.wrf = "partial"]
  <2>1. Puts(j, g) /\ Goes(j, "started", "converting") /\ FilesOf(j).wrf # "good"
    BY <1>9 DEF WrfBegins, WrfComplete
  <2>2. g.wrf = "partial" /\ g.grb1 = FilesOf(j).grb1 /\ g.grb = FilesOf(j).grb
    BY <1>2 DEF CycleFiles
  <2>3. "converting" \in Running
    BY DEF Running
  <2> HIDE DEF g
  <2> QED
    BY <1>0, <2>1, <2>2, <2>3
<1>10. CASE WrfEnds(j)
  <2> DEFINE g == [FilesOf(j) EXCEPT !.wrf = Derived(FilesOf(j).mpas)]
  <2>1. Puts(j, g) /\ Goes(j, "converting", "ok") /\ Convert(j)
    BY <1>10 DEF WrfEnds
  <2>2. g.grb1 = FilesOf(j).grb1 /\ g.grb = FilesOf(j).grb
    BY <1>2 DEF CycleFiles
  <2>3. st[j] = "converting" => FilesOf(j).wrf = "partial"
    BY <1>2, <2>1
  <2>4. "ok" \in Ended
    BY DEF Ended
  <2> HIDE DEF g
  <2> QED
    BY <1>0, <2>1, <2>2, <2>3, <2>4
<1>11. CASE (Grb1Ends(j) \/ Grb1Aborts(j)) /\ ~ UNCHANGED files
  <2>1. Goes(j, "makingGrb1", "grb1Made") /\ FilesOf(j).grb1 = "absent"
    BY <1>11 DEF Grb1Ends, Grb1Aborts
  <2>2. PICK x : Puts(j, [FilesOf(j) EXCEPT !.grb1 = x])
    BY <1>11 DEF Grb1Ends, Grb1Aborts
  <2> DEFINE g == [FilesOf(j) EXCEPT !.grb1 = x]
  <2>3. g.wrf = FilesOf(j).wrf /\ g.grb = FilesOf(j).grb
    BY <1>2 DEF CycleFiles
  <2>4. "grb1Made" \in Running
    BY DEF Running
  <2>5. Puts(j, g)
    BY <2>2
  <2> HIDE DEF g
  <2> QED
    BY <1>0, <2>1, <2>3, <2>4, <2>5
<1>12. CASE GrbBegins(j)
  <2>1. Goes(j, "grb1Made", "makingGrb") /\ FilesOf(j).grb = "absent"
    BY <1>12 DEF GrbBegins, GrbIsThere
  <2>2. PICK x \in {"absent", "partial"} : Puts(j, [FilesOf(j) EXCEPT !.grb = x])
    BY <1>12 DEF GrbBegins
  <2> DEFINE g == [FilesOf(j) EXCEPT !.grb = x]
  <2>3. g.wrf = FilesOf(j).wrf /\ g.grb1 = FilesOf(j).grb1 /\ g.grb = x
    BY <1>2 DEF CycleFiles
  <2>4. "makingGrb" \in Running
    BY DEF Running
  <2>5. Puts(j, g)
    BY <2>2
  <2> HIDE DEF g
  <2> QED
    BY <1>0, <2>1, <2>2, <2>3, <2>4, <2>5
<1>13. CASE GrbEnds(j)
  <2> DEFINE g == [FilesOf(j) EXCEPT !.grb = Derived(FilesOf(j).grb1)]
  <2>1. Goes(j, "makingGrb", "ok") /\ Puts(j, g)
    BY <1>13 DEF GrbEnds
  <2>2. g.wrf = FilesOf(j).wrf /\ g.grb1 = FilesOf(j).grb1
    BY <1>2 DEF CycleFiles
  <2>3. st[j] = "makingGrb" => FilesOf(j).grb # "good"
    BY <1>2
  <2>4. "ok" \in Ended
    BY DEF Ended
  <2> HIDE DEF g
  <2> QED
    BY <1>0, <2>1, <2>2, <2>3, <2>4
<1>14. CASE IsKilled(j) \/ ForecastAborts(j) \/ NodeFails(j)
  <2>1. PICK f \in CutOff(j) : Puts(j, f)
    BY <1>14 DEF IsKilled, ForecastAborts, NodeFails
  <2>2. Other /\ Same
    BY <1>3, <1>5, <2>1
  <2>3. Moved /\ Idle /\ date' = date
    BY <1>4, <1>14, NodeLoss DEF IsKilled, ForecastAborts, Ended
  <2> QED
    BY <1>1, <1>2, <2>2, <2>3 DEF SameProducts
<1> QED
  BY <1>6, <1>7, <1>8, <1>9, <1>10, <1>11, <1>12, <1>13, <1>14 DEF Progress, Fault

(* Every other step leaves the files and the working jobs as they are.     *)
LEMMA QuietStep ==
  ASSUME IInv, [Next]_vars, ~ \E j \in Job : st[j] \in Running /\ (Progress(j) \/ Fault(j))
  PROVE  /\ files' = files
         /\ overlapped => overlapped'
         /\ \A j \in Job : st'[j] \in {"converting", "makingGrb"} =>
              st'[j] = st[j] /\ date'[j] = date[j]
<1>1. st \in [Job -> Status] /\ date \in [Job -> Dates \cup {0}]
  BY DEF IInv, CoreType
<1>2. CASE \E s \in {"start", "restart"}, d \in Dates : RunScript(s, d)
  BY <1>2 DEF RunScript, jobVars
<1>3. CASE Script
  BY <1>1, <1>3 DEF Script, EditModelenv, CancelQueue, RotateLogs, Submit, jobVars
<1>4. CASE \E j \in Job : StartJob(j) \/ NeverStarts(j) \/ SubmitFails(j)
  BY <1>1, <1>4 DEF StartJob, NeverStarts, SubmitFails, scriptVars
<1>5. CASE UNCHANGED vars
  BY <1>5 DEF vars, jobVars
<1> QED
  BY <1>2, <1>3, <1>4, <1>5 DEF Next, Slurm

LEMMA UnfinishedStep ==
  ASSUME IInv, DataType, Unfinished, [Next]_vars
  PROVE  Unfinished' /\ ProductsKept
<1>1. CASE \E k \in Job : st[k] \in Running /\ (Progress(k) \/ Fault(k))
  <2>1. PICK k \in Job : st[k] \in Running /\ (Progress(k) \/ Fault(k))
    BY <1>1
  <2>2. overlapped' = overlapped
    BY <2>1, EveryStep DEF Progress, Fault, CleanRuns, TctlPublishes, UngribStarts,
       UngribConverts, UngribEnds, InitStarts, InitWorks, InitFails, ForecastSkips,
       ForecastRefuses, ForecastBegins, ForecastWrites, ForecastEnds, WrfSkips, WrfBegins,
       WrfEnds, UppStarts, Grb1Ends, GrbSkips, GrbBegins, GrbEnds, TimeLimit, UngribAborts,
       WrfAborts, Grb1Aborts, IsKilled, ForecastAborts, NodeFails, Goes
  <2>3. SUFFICES ASSUME ~ overlapped PROVE Unfinished' /\ ProductsKept
    BY <2>2 DEF Unfinished, ProductsKept
  <2>4. /\ date[k] \in Dates /\ date' = date
        /\ \E to \in Running \cup Ended \cup {"pending"} : st' = [st EXCEPT ![k] = to]
        /\ \A d \in Dates : d # date[k] => files'[d] = files[d]
        /\ files'[date[k]] # NoFiles =>
             /\ files[date[k]].wrf = "good" => files'[date[k]].wrf = "good"
             /\ files[date[k]].grb1 = "good" => files'[date[k]].grb1 = "good"
             /\ files[date[k]].grb = "good" => files'[date[k]].grb = "good"
        /\ st'[k] = "converting" /\ Convert(k) => files'[date[k]].wrf = "partial"
        /\ st'[k] = "makingGrb" => files'[date[k]].grb \in {"absent", "partial"}
    BY <2>1, <2>3, ProductStep DEF Unfinished
  <2>5. ASSUME NEW j \in Job, j # k PROVE st'[j] = st[j] /\ st[j] \notin Running
    BY <2>1, <2>3, <2>4, <2>5, OneRuns DEF OneAtATime, IInv, CoreType
  <2>6. {"converting", "makingGrb"} \subseteq Running
    BY DEF Running
  <2>7. Unfinished'
    BY <2>4, <2>5, <2>6 DEF Unfinished, Convert
  <2>8. ProductsKept
    BY <2>4 DEF ProductsKept
  <2> QED
    BY <2>7, <2>8
<1>2. CASE ~ \E k \in Job : st[k] \in Running /\ (Progress(k) \/ Fault(k))
  BY <1>2, QuietStep DEF Unfinished, ProductsKept, Convert
<1> QED
  BY <1>1, <1>2

(* No second job, no retry, no requeued job and no later chain makes a     *)
(* product that is good worse or takes it away; only clean_before_run.sh   *)
(* removes it.                                                             *)
THEOREM GoodProductsStay == Spec => GoodProductsKept
<1>1. Init => DataType /\ Unfinished
  BY CycleFilesFacts DEF Init, DataType, Unfinished
<1>2. IInv /\ DataType /\ Unfinished /\ [Next]_vars => Unfinished' /\ [ProductsKept]_vars
  BY UnfinishedStep
<1> QED
  BY <1>1, <1>2, NextData, Inductive, PTL DEF Spec, GoodProductsKept, ProductsKept
-----------------------------------------------------------------------------
(* The published products are complete *)

(* The chain that was submitted last, as the jobs see it: where each job   *)
(* is, and which jobs were hit.                                            *)
States == [n \in Names |-> st[<<runs, n>>]]
HitSet == {n \in Names : WasHit(runs, n)}

Fresh(f) == f.mpas = "absent" /\ ~ f.restarts /\ ~ f.done

Over(s, n)    == s[n] \in Ended
Fine(s, h, n) == Over(s, n) /\ n \notin h
Working       == {"integrating", "finishing"}

(* The input and the initial state are good where the next job has begun.  *)
Prepared(s, f, line) ==
  /\ s["UNGR"] = "converting" => ~ line
  /\ s["UNGR"] = "polling" /\ line => f.ingest
  /\ s["UNGR"] = "ok" => f.ingest
  /\ s["INIT"] \in Running \cup Ended => s["UNGR"] = "ok"
  /\ s["INIT"] = "ok" => f.init = "good"
  /\ s["MPAS1"] \in Running \cup Ended => s["INIT"] = "ok"

(* A forecast job that was not hit has left a good hour, and the second    *)
(* works only if the first was hit before it had begun.                    *)
Forecasted(s, f, h) ==
  /\ \A n \in {"MPAS1", "MPAS2"} :
       /\ s[n] = "integrating" => Fresh(f)
       /\ s[n] = "finishing" => f.mpas = "good"
       /\ Fine(s, h, n) => f.mpas = "good"
  /\ s["MPAS2"] \in Working => "MPAS1" \in h
  /\ Over(s, "CLEAN") /\ ~ Over(s, "MPAS1") /\ s["MPAS1"] \notin Working => Fresh(f)
  /\ Over(s, "MPAS1") /\ ~ Over(s, "MPAS2") /\ s["MPAS2"] \notin Working
       => Fresh(f) \/ (f.mpas = "good" /\ f.done)

Converted(s, f, h) ==
  /\ Over(s, "CLEAN") => f.wrf # "bad" /\ (~ Over(s, "MPAS2") => f.wrf = "absent")
  /\ \A n \in {"WRF1", "WRF2"} :
       /\ s[n] = "converting" => f.wrf = "partial"
       /\ Fine(s, h, n) => f.wrf = "good"

(* GRIB 2 is made in place; the second job makes it only after a fault of  *)
(* the first.                                                              *)
Posted(s, f, h) ==
  /\ Over(s, "CLEAN") =>
       /\ f.grb1 \in {"absent", "good"}
       /\ \/ f.grb \in {"absent", "good"}
          \/ s["UPP1"] = "makingGrb" \/ s["UPP2"] = "makingGrb"
       /\ ~ Over(s, "WRF2") => f.grb1 = "absent" /\ f.grb = "absent"
  /\ \A n \in {"UPP1", "UPP2"} :
       /\ s[n] \in {"grb1Made", "makingGrb"} => f.grb1 = "good"
       /\ Fine(s, h, n) => f.grb1 = "good" /\ f.grb = "good"
  /\ s["UPP2"] = "makingGrb" => "UPP1" \in h

Sound(s, f, line, h) ==
  Prepared(s, f, line) /\ Forecasted(s, f, h) /\ Converted(s, f, h) /\ Posted(s, f, h)

ChainIsSound ==
  (~ overlapped /\ runs > 0 /\ kind[runs] = "start" /\ ~ Excused(runs)) =>
    Sound(States, files[dateOf[runs]], ungribLine, HitSet)

(* The log directories that have been moved belong to earlier chains.      *)
LogsAreOld == \A j \in oldLog : j[1] < runs

(* A chain of restart.mpas ends with its first job.                        *)
RestartIsCut ==
  \A j \in Job :
    kind[j[1]] = "restart" /\ j[2] # "MPAS1" => st[j] \in {"unsubmitted", "rejected"}

(* The statuses a job goes through while it runs.                          *)
Phases == [CLEAN |-> {"started"}, UNGR |-> {"started", "converting", "polling"},
           INIT  |-> {"started", "preparing", "retrying"},
           MPAS1 |-> {"started", "integrating", "finishing"},
           MPAS2 |-> {"started", "integrating", "finishing"},
           WRF1  |-> {"started", "converting"}, WRF2 |-> {"started", "converting"},
           UPP1  |-> {"started", "makingGrb1", "grb1Made", "makingGrb"},
           UPP2  |-> {"started", "makingGrb1", "grb1Made", "makingGrb"},
           TCTL  |-> {"started"}]

OwnPhases == \A j \in Job : st[j] \in Running => st[j] \in Phases[j[2]]

PInv == OwnPhases /\ ChainIsSound /\ LogsAreOld /\ RestartIsCut
-----------------------------------------------------------------------------
(* Steps that keep the chain sound, by job *)

(* It is the turn of n: what precedes it is over, what follows has not     *)
(* begun.                                                                  *)
Turn(s, n) ==
  \A m \in Names : /\ Rank[m] < Rank[n] => Over(s, m)
                   /\ Rank[m] > Rank[n] => s[m] \notin Running \cup Ended

Becomes(s, u, n, to) == \A m \in Names : u[m] = IF m = n THEN to ELSE s[m]

Agree(f, g, fields) == \A x \in fields : g[x] = f[x]

LEMMA NamesAre ==
  Names = {"CLEAN", "UNGR", "INIT", "MPAS1", "MPAS2", "WRF1", "WRF2", "UPP1", "UPP2", "TCTL"}
BY DEF Names, Line

LEMMA StatusesDiffer ==
  /\ \A x \in Running \cup {"pending"} : x \notin Ended
  /\ "ok" \in Ended /\ "started" \notin Working
  /\ Working \subseteq Running /\ "started" \in Running
  /\ {"converting", "polling", "makingGrb1", "grb1Made", "makingGrb"} \subseteq Running
  /\ {"converting", "polling", "makingGrb1", "grb1Made", "makingGrb"} \cap (Working \cup Ended) = {}
BY DEF Running, Ended, Working

(* What a job before its start, a script or a fault outside the jobs does. *)
LEMMA QuietIsSound ==
  ASSUME NEW s, NEW u, NEW f, NEW line, NEW m, NEW h, NEW k,
         Sound(s, f, line, h), h \subseteq k, m => line,
         \A n \in Names : \/ u[n] = s[n]
                          \/ /\ s[n] \notin Running \cup Ended
                             /\ u[n] \notin Ended /\ (u[n] \in Running => u[n] = "started"),
         u["INIT"] = "started" => s["INIT"] = "started" \/ s["UNGR"] = "ok",
         u["MPAS1"] = "started" => s["MPAS1"] = "started" \/ s["INIT"] = "ok"
  PROVE  Sound(u, f, m, k)
<1>1. Prepared(u, f, m)
  BY NamesAre, StatusesDiffer DEF Sound, Prepared
<1>2. Forecasted(u, f, k)
  BY NamesAre, StatusesDiffer DEF Sound, Forecasted, Over, Fine, Working
<1>3. Converted(u, f, k)
  BY NamesAre, StatusesDiffer DEF Sound, Converted, Over, Fine
<1>4. Posted(u, f, k)
  BY NamesAre, StatusesDiffer DEF Sound, Posted, Over, Fine
<1> QED
  BY <1>1, <1>2, <1>3, <1>4 DEF Sound

LEMMA CleanIsSound ==
  ASSUME NEW s, NEW u, NEW line, NEW h, Turn(s, "CLEAN"), Becomes(s, u, "CLEAN", "ok")
  PROVE  Sound(u, NoFiles, line, h)
<1>1. \A n \in Names : n # "CLEAN" => u[n] \notin Running \cup Ended
  BY NamesAre DEF Turn, Becomes, Rank
<1>2. /\ \A n \in {"UNGR", "INIT", "MPAS1", "MPAS2"} : u[n] \notin Running \cup Ended
      /\ \A n \in {"WRF1", "WRF2", "UPP1", "UPP2"} : u[n] \notin Running \cup Ended
  BY <1>1, NamesAre
<1>3. /\ {"converting", "polling", "ok"} \subseteq Running \cup Ended
      /\ {"integrating", "finishing", "grb1Made", "makingGrb"} \subseteq Running
  BY DEF Running, Ended
<1>4. Prepared(u, NoFiles, line)
  BY <1>2, <1>3 DEF Prepared
<1>5. Fresh(NoFiles)
  BY DEF Fresh, NoFiles
<1>6. Forecasted(u, NoFiles, h)
  BY <1>2, <1>3, <1>5 DEF Forecasted, Over, Fine, Working
<1>7. Converted(u, NoFiles, h)
  BY <1>2, <1>3 DEF Converted, Over, Fine, NoFiles
<1>8. Posted(u, NoFiles, h)
  BY <1>2, <1>3 DEF Posted, Over, Fine, NoFiles
<1> QED
  BY <1>4, <1>6, <1>7, <1>8 DEF Sound

(* The frames: a job's step disturbs only the part about its own files.    *)
LEMMA PreparedFrame ==
  ASSUME NEW s, NEW u, NEW f, NEW g, NEW line, NEW n \in Names, NEW to,
         Prepared(s, f, line), Becomes(s, u, n, to), Rank[n] > 3, s[n] \in Running,
         Agree(f, g, {"ingest", "init"})
  PROVE  Prepared(u, g, line)
<1>1. u["UNGR"] = s["UNGR"] /\ u["INIT"] = s["INIT"] /\ (u["MPAS1"] = s["MPAS1"] \/ s["MPAS1"] \in Running)
  BY NamesAre DEF Becomes, Rank
<1> QED
  BY <1>1 DEF Prepared, Agree

LEMMA ForecastedFrame ==
  ASSUME NEW s, NEW u, NEW f, NEW g, NEW h, NEW k, NEW n \in Names, NEW to,
         Forecasted(s, f, h), Becomes(s, u, n, to), n \notin {"CLEAN", "MPAS1", "MPAS2"},
         h \subseteq k, Agree(f, g, {"mpas", "restarts", "done"})
  PROVE  Forecasted(u, g, k)
<1>1. \A x \in {"CLEAN", "MPAS1", "MPAS2"} : u[x] = s[x]
  BY NamesAre DEF Becomes
<1> QED
  BY <1>1 DEF Forecasted, Agree, Over, Fine, Fresh

LEMMA ConvertedFrame ==
  ASSUME NEW s, NEW u, NEW f, NEW g, NEW h, NEW k, NEW n \in Names, NEW to,
         Converted(s, f, h), Becomes(s, u, n, to), n \notin {"CLEAN", "WRF1", "WRF2"},
         s[n] \in Running, h \subseteq k, Agree(f, g, {"wrf"})
  PROVE  Converted(u, g, k)
<1>1. \A x \in {"CLEAN", "WRF1", "WRF2"} : u[x] = s[x]
  BY NamesAre DEF Becomes
<1>2. Over(s, "MPAS2") => Over(u, "MPAS2")
  BY NamesAre, StatusesDiffer DEF Becomes, Over
<1> QED
  BY <1>1, <1>2 DEF Converted, Agree, Over, Fine

LEMMA PostedFrame ==
  ASSUME NEW s, NEW u, NEW f, NEW g, NEW h, NEW k, NEW n \in Names, NEW to,
         Posted(s, f, h), Becomes(s, u, n, to), n \notin {"CLEAN", "UPP1", "UPP2"},
         s[n] \in Running, h \subseteq k, Agree(f, g, {"grb1", "grb"})
  PROVE  Posted(u, g, k)
<1>1. \A x \in {"CLEAN", "UPP1", "UPP2"} : u[x] = s[x]
  BY NamesAre DEF Becomes
<1>2. Over(s, "WRF2") => Over(u, "WRF2")
  BY NamesAre, StatusesDiffer DEF Becomes, Over
<1> QED
  BY <1>1, <1>2 DEF Posted, Agree, Over, Fine
(* The jobs that prepare the forecast. *)
LEMMA UngribIsSound ==
  ASSUME NEW s, NEW u, NEW f, NEW g, NEW line, NEW m, NEW h, NEW k, NEW to,
         Sound(s, f, line, h), Turn(s, "UNGR"), Becomes(s, u, "UNGR", to),
         s["UNGR"] \in Running, h \subseteq k,
         Agree(f, g, {"init", "mpas", "restarts", "done", "wrf", "grb1", "grb"}),
         to = "converting" => ~ m, to = "polling" /\ m => g.ingest, to = "ok" => g.ingest
  PROVE  Sound(u, g, m, k)
<1>1. u["UNGR"] = to /\ \A n \in {"INIT", "MPAS1"} : u[n] = s[n] /\ s[n] \notin Running \cup Ended
  BY NamesAre DEF Turn, Becomes, Rank
<1>2. Prepared(u, g, m)
  BY <1>1, StatusesDiffer DEF Prepared
<1> QED
  BY <1>2, NamesAre, ForecastedFrame, ConvertedFrame, PostedFrame DEF Sound, Agree

LEMMA InitIsSound ==
  ASSUME NEW s, NEW u, NEW f, NEW g, NEW line, NEW h, NEW k, NEW to,
         Sound(s, f, line, h), Turn(s, "INIT"), Becomes(s, u, "INIT", to),
         s["INIT"] \in Running, h \subseteq k,
         Agree(f, g, {"ingest", "mpas", "restarts", "done", "wrf", "grb1", "grb"}),
         to = "ok" => g.init = "good"
  PROVE  Sound(u, g, line, k)
<1>1. /\ u["INIT"] = to /\ u["UNGR"] = s["UNGR"]
      /\ u["MPAS1"] = s["MPAS1"] /\ s["MPAS1"] \notin Running \cup Ended
  BY NamesAre DEF Turn, Becomes, Rank
<1>2. Prepared(u, g, line)
  BY <1>1 DEF Sound, Prepared, Agree
<1> QED
  BY <1>2, NamesAre, ForecastedFrame, ConvertedFrame, PostedFrame DEF Sound, Agree

(* The two forecast jobs.                                                  *)
LEMMA ForecastIsSound ==
  ASSUME NEW s, NEW u, NEW f, NEW g, NEW line, NEW h, NEW k, NEW n \in {"MPAS1", "MPAS2"}, NEW to,
         Sound(s, f, line, h), Turn(s, n), Becomes(s, u, n, to),
         s[n] \in Running, k \in {h, h \cup {n}},
         Agree(f, g, {"ingest", "init", "wrf", "grb1", "grb"}),
         \/ s[n] = "started" /\ to = "ok" /\ g = f /\ (f.done \/ f.mpas # "absent")
         \/ s[n] = "started" /\ to = "failed" /\ g = f /\ f.init = "absent"
         \/ s[n] = "started" /\ to = "integrating" /\ g = f /\ ~ f.done
         \/ s[n] = "integrating" /\ to = "finishing" /\ (f.init = "good" /\ ~ f.restarts => g.mpas = "good")
         \/ s[n] = "finishing" /\ to = "ok" /\ g.mpas = f.mpas /\ g.done
         \/ s[n] = "started" /\ to \in Ended \cup {"pending"} /\ g = f /\ n \in k
  PROVE  Sound(u, g, line, k)
<1>1. /\ Rank[n] > 3 /\ n \in Names /\ h \subseteq k
      /\ n = "MPAS1" \/ n = "MPAS2"
  BY NamesAre DEF Rank
<1>2. /\ Over(s, "CLEAN") /\ Over(s, "INIT")
      /\ n = "MPAS1" => s["MPAS2"] \notin Running \cup Ended
      /\ n = "MPAS2" => Over(s, "MPAS1")
  BY <1>1, NamesAre DEF Turn, Rank
<1>3. f.init = "good" /\ f.init # "absent"
  <2>1. s["MPAS1"] \in Running \cup Ended
    BY <1>1, <1>2 DEF Over
  <2> QED
    BY <2>1 DEF Sound, Prepared
<1>4. u[n] = to /\ \A x \in {"CLEAN", "MPAS1", "MPAS2"} : x # n => u[x] = s[x]
  BY <1>1, NamesAre DEF Becomes
<1>5. Forecasted(s, f, h)
  BY DEF Sound
<1>6. CASE n = "MPAS1"
  <2>1. /\ u["MPAS1"] = to /\ u["MPAS2"] = s["MPAS2"] /\ u["CLEAN"] = s["CLEAN"]
        /\ s["MPAS2"] \notin Running \cup Ended
    BY <1>2, <1>4, <1>6
  <2>2. s["MPAS1"] \notin Ended /\ (s["MPAS1"] = "started" => Fresh(f))
        /\ (s["MPAS1"] = "integrating" => Fresh(f)) /\ (s["MPAS1"] = "finishing" => f.mpas = "good")
    BY <1>2, <1>5, <1>6, StatusesDiffer DEF Forecasted, Over
  <2>3. Forecasted(u, g, k)
    BY <1>3, <1>6, <2>1, <2>2, StatusesDiffer DEF Forecasted, Over, Fine, Fresh, Working
  <2> QED
    BY <1>1, <2>3, PreparedFrame, ConvertedFrame, PostedFrame DEF Sound, Agree
<1>7. CASE n = "MPAS2"
  <2>1. /\ u["MPAS2"] = to /\ u["MPAS1"] = s["MPAS1"] /\ u["CLEAN"] = s["CLEAN"]
        /\ s["MPAS1"] \in Ended /\ s["MPAS2"] \notin Ended
    BY <1>2, <1>4, <1>7, StatusesDiffer DEF Over
  <2>2. /\ s["MPAS2"] = "started" => Fresh(f) \/ (f.mpas = "good" /\ f.done)
        /\ s["MPAS2"] = "integrating" => Fresh(f)
        /\ s["MPAS2"] = "finishing" => f.mpas = "good"
        /\ s["MPAS2"] \in Working => "MPAS1" \in h
        /\ "MPAS1" \notin h => f.mpas = "good"
    BY <1>5, <2>1, StatusesDiffer DEF Forecasted, Over, Fine
  <2>3. s["MPAS1"] \notin Running /\ s["MPAS1"] \notin {"integrating", "finishing"}
    BY <2>1, StatusesDiffer DEF Working
  <2>4. Forecasted(u, g, k)
    BY <1>3, <1>7, <2>1, <2>2, <2>3, StatusesDiffer DEF Forecasted, Over, Fine, Fresh, Working
  <2> QED
    BY <1>1, <2>4, PreparedFrame, ConvertedFrame, PostedFrame DEF Sound, Agree
<1> QED
  BY <1>1, <1>6, <1>7
(* The two conversions: the output is read from a good hour.               *)
LEMMA ConvertIsSound ==
  ASSUME NEW s, NEW u, NEW f, NEW g, NEW line, NEW h, NEW k, NEW n \in {"WRF1", "WRF2"}, NEW to,
         Sound(s, f, line, h), Turn(s, n), Becomes(s, u, n, to),
         s[n] \in Running, k \in {h, h \cup {n}}, ~ {"MPAS1", "MPAS2"} \subseteq h,
         Agree(f, g, {"ingest", "init", "mpas", "restarts", "done", "grb1", "grb"}),
         \/ s[n] = "started" /\ to = "ok" /\ g = f /\ f.wrf \in {"good", "bad"}
         \/ s[n] = "started" /\ to = "converting" /\ f.wrf \notin {"good", "bad"} /\ g.wrf = "partial"
         \/ s[n] = "converting" /\ to = "ok" /\ g.wrf = Derived(f.mpas)
         \/ to \in Ended \cup {"pending"} /\ g = f /\ n \in k
         \/ f.mpas \in {"absent", "partial"}
  PROVE  Sound(u, g, line, k)
<1>1. /\ Rank[n] > 3 /\ n \in Names /\ h \subseteq k
      /\ n = "WRF1" \/ n = "WRF2"
  BY NamesAre DEF Rank
<1>2. /\ Over(s, "CLEAN") /\ Over(s, "MPAS1") /\ Over(s, "MPAS2")
      /\ n = "WRF1" => s["WRF2"] \notin Running \cup Ended
      /\ n = "WRF2" => Over(s, "WRF1")
  BY <1>1, NamesAre DEF Turn, Rank
<1>3. f.mpas = "good"
  BY <1>2 DEF Sound, Forecasted, Fine
<1>4. u[n] = to /\ \A x \in {"CLEAN", "MPAS2", "WRF1", "WRF2"} : x # n => u[x] = s[x]
  BY <1>1, NamesAre DEF Becomes
<1>5. /\ f.wrf # "bad" /\ s[n] \notin Ended
      /\ s["WRF1"] = "converting" => f.wrf = "partial"
      /\ s["WRF2"] = "converting" => f.wrf = "partial"
      /\ Fine(s, h, "WRF1") => f.wrf = "good"
  BY <1>2, StatusesDiffer DEF Sound, Converted
<1>6. g.wrf \in {"partial", "good", f.wrf} /\ (to = "ok" => g.wrf = "good" \/ n \in k)
  BY <1>3, <1>5 DEF Derived
<1>7. CASE n = "WRF1"
  <2>1. u["WRF1"] = to /\ u["WRF2"] = s["WRF2"] /\ Over(u, "CLEAN") /\ Over(u, "MPAS2")
    BY <1>2, <1>4, <1>7 DEF Over
  <2>2. Converted(u, g, k)
    BY <1>2, <1>3, <1>5, <1>6, <1>7, <2>1, StatusesDiffer DEF Converted, Over, Fine
  <2> QED
    BY <1>1, <2>2, PreparedFrame, ForecastedFrame, PostedFrame DEF Sound, Agree
<1>8. CASE n = "WRF2"
  <2>1. u["WRF2"] = to /\ u["WRF1"] = s["WRF1"] /\ Over(u, "CLEAN") /\ Over(u, "MPAS2")
    BY <1>2, <1>4, <1>8 DEF Over
  <2>2. s["WRF1"] \in Ended /\ s["WRF1"] # "converting"
    BY <1>2, <1>8, StatusesDiffer DEF Over
  <2>3. "WRF1" \notin k => f.wrf = "good"
    BY <1>5, <1>8, <2>2 DEF Fine, Over
  <2>4. Converted(u, g, k)
    BY <1>3, <1>5, <1>6, <1>8, <2>1, <2>2, <2>3, StatusesDiffer DEF Converted, Over, Fine, Derived
  <2> QED
    BY <1>1, <2>4, PreparedFrame, ForecastedFrame, PostedFrame DEF Sound, Agree
<1> QED
  BY <1>1, <1>7, <1>8

(* The two post-processings, from a good file.                             *)
LEMMA PostIsSound ==
  ASSUME NEW s, NEW u, NEW f, NEW g, NEW line, NEW h, NEW k, NEW n \in {"UPP1", "UPP2"}, NEW to,
         Sound(s, f, line, h), Turn(s, n), Becomes(s, u, n, to),
         s[n] \in Running, k \in {h, h \cup {n}}, ~ {"WRF1", "WRF2"} \subseteq h,
         ~ {"UPP1", "UPP2"} \subseteq k,
         Agree(f, g, {"ingest", "init", "mpas", "restarts", "done", "wrf"}),
         \/ s[n] = "started" /\ to = "makingGrb1" /\ g = f
         \/ s[n] = "makingGrb1" /\ to = "grb1Made" /\ g.grb = f.grb
            /\ g.grb1 = IF f.grb1 # "absent" THEN f.grb1 ELSE Derived(f.wrf)
         \/ s[n] = "makingGrb1" /\ to = "grb1Made" /\ f.grb1 = "absent" /\ n \in k /\ n = "UPP2"
         \/ s[n] = "grb1Made" /\ to = "ok" /\ g = f /\ (f.grb # "absent" \/ f.grb1 = "absent")
         \/ s[n] = "grb1Made" /\ to = "makingGrb" /\ f.grb = "absent" /\ g.grb1 = f.grb1
         \/ s[n] = "makingGrb" /\ to = "ok" /\ g.grb1 = f.grb1 /\ g.grb = Derived(f.grb1)
         \/ to \in Ended \cup {"pending"} /\ g = f /\ n \in k /\ (n = "UPP1" => s[n] # "makingGrb")
         \/ f.wrf \in {"absent", "partial"}
  PROVE  Sound(u, g, line, k)
<1>1. /\ Rank[n] > 3 /\ n \in Names /\ h \subseteq k
      /\ n = "UPP1" \/ n = "UPP2"
  BY NamesAre DEF Rank
<1>2. /\ Over(s, "CLEAN") /\ Over(s, "WRF1") /\ Over(s, "WRF2")
      /\ n = "UPP1" => s["UPP2"] \notin Running \cup Ended
      /\ n = "UPP2" => Over(s, "UPP1")
  BY <1>1, NamesAre DEF Turn, Rank
<1>3. f.wrf = "good"
  BY <1>2 DEF Sound, Converted, Fine
<1>4. u[n] = to /\ \A x \in {"CLEAN", "WRF2", "UPP1", "UPP2"} : x # n => u[x] = s[x]
  BY <1>1, NamesAre DEF Becomes
<1>5. /\ f.grb1 \in {"absent", "good"} /\ s[n] \notin Ended
      /\ f.grb \in {"absent", "good"} \/ s["UPP1"] = "makingGrb" \/ s["UPP2"] = "makingGrb"
      /\ s[n] \in {"grb1Made", "makingGrb"} => f.grb1 = "good"
      /\ Fine(s, h, "UPP1") => f.grb1 = "good" /\ f.grb = "good"
      /\ s["UPP2"] = "makingGrb" => "UPP1" \in h
  BY <1>1, <1>2, StatusesDiffer DEF Sound, Posted
<1>6. CASE n = "UPP1"
  <2>1. /\ u["UPP1"] = to /\ u["UPP2"] = s["UPP2"] /\ Over(u, "CLEAN") /\ Over(u, "WRF2")
        /\ s["UPP2"] \notin Running \cup Ended
    BY <1>2, <1>4, <1>6 DEF Over
  <2>2. Posted(u, g, k)
    BY <1>3, <1>5, <1>6, <2>1, StatusesDiffer DEF Posted, Over, Fine, Derived
  <2> QED
    BY <1>1, <2>2, PreparedFrame, ForecastedFrame, ConvertedFrame DEF Sound, Agree
<1>7. CASE n = "UPP2"
  <2>1. /\ u["UPP2"] = to /\ u["UPP1"] = s["UPP1"] /\ Over(u, "CLEAN") /\ Over(u, "WRF2")
        /\ s["UPP1"] \in Ended /\ s["UPP1"] \notin {"grb1Made", "makingGrb"}
    BY <1>2, <1>4, <1>7, StatusesDiffer DEF Over
  <2>2. "UPP1" \notin h => f.grb1 = "good" /\ f.grb = "good"
    BY <1>5, <2>1 DEF Fine, Over
  <2>3. Posted(u, g, k)
    BY <1>3, <1>5, <1>7, <2>1, <2>2, StatusesDiffer DEF Posted, Over, Fine, Derived
  <2> QED
    BY <1>1, <2>3, PreparedFrame, ForecastedFrame, ConvertedFrame DEF Sound, Agree
<1> QED
  BY <1>1, <1>6, <1>7

(* toctl.mpas.sh changes none of the files.                                *)
LEMMA PublishIsSound ==
  ASSUME NEW s, NEW u, NEW f, NEW line, NEW h, NEW k, NEW to, Sound(s, f, line, h),
         Becomes(s, u, "TCTL", to), s["TCTL"] \in Running, h \subseteq k
  PROVE  Sound(u, f, line, k)
<1>1. "TCTL" \in Names /\ Rank["TCTL"] > 3
  BY NamesAre DEF Rank
<1> QED
  BY <1>1, PreparedFrame, ForecastedFrame, ConvertedFrame, PostedFrame DEF Sound, Agree
-----------------------------------------------------------------------------
(* The step of a running job *)

LEMMA RunningChain ==
  ASSUME IInv, ~ overlapped, kind[runs] = "start", NEW j \in Job, st[j] \in Running
  PROVE  /\ runs \in Chain /\ j[1] = runs /\ j[2] \in Names /\ j = <<runs, j[2]>>
         /\ date[j] = dateOf[runs] /\ date[j] \in Dates
         /\ States[j[2]] = st[j] /\ Turn(States, j[2])
<1>1. j[1] \in Chain /\ j[2] \in Names /\ j = <<j[1], j[2]>> /\ runs \in Nat /\ j[1] \in Nat
  BY JobFacts, BoundAssumption DEF IInv, CoreType
<1>2. j[1] = runs
  BY <1>1, Disjoint DEF IInv, SubmittedIsHead, EarlierAreOver, Live
<1>3. date[j] = dateOf[runs] /\ date[j] \in Dates
  BY <1>2 DEF IInv, OwnDate, RunningDated
<1>4. \A n \in Names : States[n] = st[<<runs, n>>]
  BY DEF States
<1>5. ASSUME NEW m \in Names
      PROVE  /\ Rank[m] < Rank[j[2]] => Over(States, m)
             /\ Rank[m] > Rank[j[2]] => States[m] \notin Running \cup Ended
  <2>1. <<runs, m>> \in Job /\ <<runs, m>>[1] = runs /\ <<runs, m>>[2] = m
    BY <1>1, <1>2, JobFacts
  <2>2. CASE Rank[m] < Rank[j[2]]
    <3>1. st[<<runs, m>>] \in Ended \cup {"unsubmitted"}
      BY <1>2, <2>1, <2>2 DEF IInv, InOrder
    <3>2. Rank[j[2]] <= 10 - Len(todo)
      <4>1. Rank[j[2]] \in 1..10 /\ Len(todo) \in Nat
        BY <1>1, RankFacts DEF IInv, CoreType
      <4> QED
        BY <1>2, <4>1, Disjoint DEF IInv, SubmittedIsHead
    <3>3. Rank[m] \in 1..10 /\ Rank[j[2]] \in 1..10 /\ Len(todo) \in Nat /\ First(runs) = 1
      BY <1>1, RankFacts DEF IInv, CoreType, First
    <3>4. st[<<runs, m>>] # "unsubmitted"
      BY <2>1, <2>2, <3>2, <3>3 DEF IInv, SubmittedIsHead
    <3> QED
      BY <1>4, <2>2, <3>1, <3>3, <3>4 DEF Over
  <2>3. CASE Rank[m] > Rank[j[2]]
    <3>1. st[<<runs, m>>] \in Running \cup Ended => st[j] \in Ended \cup {"unsubmitted"}
      BY <1>2, <2>1, <2>3 DEF IInv, InOrder
    <3>2. Rank[m] \in 1..10 /\ Rank[j[2]] \in 1..10
      BY <1>1, RankFacts
    <3> QED
      BY <1>4, <2>3, <3>1, <3>2, Disjoint
  <2>4. Rank[m] \in 1..10 /\ Rank[j[2]] \in 1..10
    BY <1>1, RankFacts
  <2> QED
    BY <2>2, <2>3, <2>4
<1> QED
  BY <1>1, <1>2, <1>3, <1>4, <1>5 DEF Turn

LEMMA GoesFacts ==
  ASSUME IInv, NEW j \in Job, j[1] = runs, NEW from, NEW to, Goes(j, from, to)
  PROVE  /\ st[j] = from /\ States[j[2]] = from /\ Becomes(States, States', j[2], to)
         /\ UNCHANGED <<runs, kind, dateOf, overlapped, date>>
<1>1. st \in [Job -> Status] /\ runs \in Nat /\ runs' = runs /\ j[2] \in Names /\ j = <<runs, j[2]>>
  BY JobFacts DEF IInv, CoreType, Goes, scriptVars
<1>2. \A n \in Names : States[n] = st[<<runs, n>>] /\ States'[n] = st'[<<runs, n>>]
  BY <1>1 DEF States
<1>3. st[j] = from /\ st' = [st EXCEPT ![j] = to] /\ runs \in Chain
  BY <1>1, JobFacts DEF Goes
<1>4. \A n \in Names : <<runs, n>> \in Job /\ (<<runs, n>> = j <=> n = j[2])
  BY <1>1, <1>3, JobFacts
<1> QED
  BY <1>1, <1>2, <1>3, <1>4 DEF Becomes, Goes, scriptVars

LEMMA NotExcused ==
  ASSUME ~ Excused(runs)
  PROVE  /\ "CLEAN" \notin HitSet
         /\ ~ {"MPAS1", "MPAS2"} \subseteq HitSet
         /\ ~ {"WRF1", "WRF2"} \subseteq HitSet
         /\ ~ {"UPP1", "UPP2"} \subseteq HitSet
BY DEF Excused, HitSet

LEMMA FaultsStay ==
  ASSUME runs' = runs, faults \subseteq faults'
  PROVE  /\ HitSet \subseteq HitSet' /\ (Excused(runs) => Excused(runs)')
         /\ faults' = faults => HitSet' = HitSet
<1>1. \A n : WasHit(runs, n) => WasHit(runs, n)'
  BY DEF WasHit
<1>2. faults' = faults => \A n : WasHit(runs, n)' <=> WasHit(runs, n)
  BY DEF WasHit
<1>3. HitSet' = {n \in Names : WasHit(runs, n)'}
  BY DEF HitSet, Names
<1>4. Excused(runs) => Excused(runs)'
  BY <1>1 DEF Excused
<1> QED
  BY <1>1, <1>2, <1>3, <1>4 DEF HitSet

LEMMA HitFacts ==
  ASSUME NEW j \in Job, j[1] = runs, runs' = runs, NEW what, Hit(j, what)
  PROVE  /\ HitSet' = HitSet \cup {j[2]} /\ (Excused(runs) => Excused(runs)')
         /\ j[2] = "INIT" /\ what = "retrying" => Excused(runs)'
         /\ j[2] = "MPAS1" /\ what \in {"integrating", "finishing"} => Excused(runs)'
         /\ j[2] = "UPP1" /\ what \in {"grb1", "makingGrb"} => Excused(runs)'
<1>1. faults' = faults \cup {<<runs, j[2], what>>}
  BY DEF Hit
<1>2. <<runs, j[2], what>> \in faults' /\ faults \subseteq faults'
  BY <1>1
<1>3. \A n : WasHit(runs, n)' <=> WasHit(runs, n) \/ n = j[2]
  <2>1. \A n : WasHit(runs, n)' <=> \E f \in faults' : f[1] = runs /\ f[2] = n
    BY DEF WasHit
  <2>2. <<runs, j[2], what>>[1] = runs /\ <<runs, j[2], what>>[2] = j[2]
    OBVIOUS
  <2>3. ASSUME NEW n PROVE (\E f \in faults' : f[1] = runs /\ f[2] = n)
                             <=> (\E f \in faults : f[1] = runs /\ f[2] = n) \/ n = j[2]
    <3> DEFINE t == <<runs, j[2], what>>
    <3>1. t[1] = runs /\ t[2] = j[2] /\ faults' = faults \cup {t}
      BY <1>1, <2>2
    <3> HIDE DEF t
    <3> QED
      BY <3>1
  <2> QED
    BY <2>1, <2>3 DEF WasHit
<1>4. HitSet' = {n \in Names : WasHit(runs, n)'}
  BY DEF HitSet, Names
<1>5. j[2] \in Names
  BY JobFacts
<1>6. HitSet' = HitSet \cup {j[2]}
  BY <1>3, <1>4, <1>5 DEF HitSet
<1>7. Excused(runs)' <=> \/ WasHit(runs, "CLEAN")'
                         \/ <<runs, "INIT", "retrying">> \in faults'
                         \/ \E p \in {"integrating", "finishing"} : <<runs, "MPAS1", p>> \in faults'
                         \/ \E pair \in {<<"MPAS1", "MPAS2">>, <<"WRF1", "WRF2">>, <<"UPP1", "UPP2">>} :
                              WasHit(runs, pair[1])' /\ WasHit(runs, pair[2])'
                         \/ \E p \in {"grb1", "makingGrb"} : <<runs, "UPP1", p>> \in faults'
  BY DEF Excused
<1> QED
  BY <1>2, <1>6, <1>7, FaultsStay

LEMMA RunningKeeps ==
  ASSUME NEW j \in Job, Progress(j) \/ Fault(j)
  PROVE  UNCHANGED <<runs, kind, dateOf, overlapped, date>> /\ faults \subseteq faults'
<1>1. (\E from, to : Goes(j, from, to)) => UNCHANGED <<runs, kind, dateOf, overlapped, date>>
  BY DEF Goes, scriptVars
<1>2. (\E what : Hit(j, what)) \/ faults' = faults => faults \subseteq faults'
  BY DEF Hit
<1>3. Progress(j) => \E from, to : Goes(j, from, to)
  BY DEF Progress, CleanRuns, TctlPublishes, UngribStarts, UngribConverts, UngribEnds,
     InitStarts, InitWorks, InitFails, ForecastSkips, ForecastRefuses, ForecastBegins,
     ForecastWrites, ForecastEnds, WrfSkips, WrfBegins, WrfEnds, UppStarts, Grb1Ends,
     GrbSkips, GrbBegins, GrbEnds, TimeLimit
<1>4. Progress(j) => (\E what : Hit(j, what)) \/ faults' = faults
  BY DEF Progress, CleanRuns, TctlPublishes, UngribStarts, UngribConverts, UngribEnds,
     InitStarts, InitWorks, InitFails, ForecastSkips, ForecastRefuses, ForecastBegins,
     ForecastWrites, ForecastEnds, WrfSkips, WrfBegins, WrfEnds, UppStarts, Grb1Ends,
     GrbSkips, GrbBegins, GrbEnds, TimeLimit, KeepsRest
<1>5. Fault(j) => (\E from, to : Goes(j, from, to)) /\ (\E what : Hit(j, what))
  BY DEF Fault, UngribAborts, WrfAborts, Grb1Aborts, IsKilled, ForecastAborts, NodeFails
<1> QED
  BY <1>1, <1>2, <1>3, <1>4, <1>5

(* What the cases below use of a step of j.                                *)
LEMMA StepFacts ==
  ASSUME IInv, DataType, PInv, ~ overlapped, kind[runs] = "start",
         NEW j \in Job, st[j] \in Running, Progress(j) \/ Fault(j), ~ Excused(runs)'
  PROVE  /\ j[1] = runs /\ j[2] \in Names /\ runs' = runs /\ Turn(States, j[2])
         /\ States[j[2]] = st[j] /\ st[j] \in Phases[j[2]]
         /\ ~ Excused(runs) /\ HitSet \subseteq HitSet'
         /\ Sound(States, FilesOf(j), ungribLine, HitSet)
         /\ FilesOf(j) \in CycleFiles /\ FilesOf(j) = files[date[j]]
         /\ \A x : Puts(j, x) => files'[date[j]] = x
         /\ \A from, to : Goes(j, from, to) => st[j] = from /\ Becomes(States, States', j[2], to)
         /\ UNCHANGED faults => HitSet' = HitSet
         /\ \A what : Hit(j, what) => HitSet' = HitSet \cup {j[2]}
         /\ j \notin oldLog
<1>1. /\ runs \in Chain /\ j[1] = runs /\ j[2] \in Names /\ j = <<runs, j[2]>>
      /\ date[j] = dateOf[runs] /\ date[j] \in Dates
      /\ States[j[2]] = st[j] /\ Turn(States, j[2])
  BY RunningChain
<1>2. runs' = runs /\ faults \subseteq faults'
  BY RunningKeeps
<1>3. HitSet \subseteq HitSet' /\ ~ Excused(runs) /\ (faults' = faults => HitSet' = HitSet)
  BY <1>2, FaultsStay
<1>4. runs > 0 /\ ~ (runs < runs)
  BY <1>1, JobFacts, BoundAssumption DEF Chain
<1>5. Sound(States, FilesOf(j), ungribLine, HitSet) /\ j \notin oldLog /\ st[j] \in Phases[j[2]]
  BY <1>1, <1>3, <1>4 DEF PInv, ChainIsSound, LogsAreOld, OwnPhases, FilesOf
<1>6. FilesOf(j) \in CycleFiles /\ FilesOf(j) = files[date[j]]
  BY <1>1, PutsFacts DEF FilesOf
<1>7. \A x : Puts(j, x) => files'[date[j]] = x
  BY <1>1 DEF Puts, DataType
<1>8. \A from, to : Goes(j, from, to) => st[j] = from /\ Becomes(States, States', j[2], to)
  BY <1>1, GoesFacts
<1>9. \A what : Hit(j, what) => HitSet' = HitSet \cup {j[2]}
  BY <1>1, <1>2, HitFacts
<1> QED
  BY <1>1, <1>2, <1>3, <1>5, <1>6, <1>7, <1>8, <1>9

LEMMA SelfAgrees == \A f, S : Agree(f, f, S)
BY DEF Agree

(* What the steps that put a file leave alone.                             *)
LEMMA PutsAgree ==
  ASSUME NEW f \in CycleFiles, NEW g
  PROVE  /\ \A x : g = [f EXCEPT !.init = x] =>
              /\ Agree(f, g, {"ingest", "mpas", "restarts", "done", "wrf", "grb1", "grb"})
              /\ g.init = x
         /\ \A x : g = [f EXCEPT !.mpas = x, !.restarts = TRUE] =>
              Agree(f, g, {"ingest", "init", "wrf", "grb1", "grb"}) /\ g.mpas = x
         /\ \A x : g = [f EXCEPT !.wrf = x] =>
              /\ Agree(f, g, {"ingest", "init", "mpas", "restarts", "done", "grb1", "grb"})
              /\ g.wrf = x
         /\ \A x : g = [f EXCEPT !.grb1 = x] =>
              /\ Agree(f, g, {"ingest", "init", "mpas", "restarts", "done", "wrf"})
              /\ g.grb1 = x /\ g.grb = f.grb
         /\ \A x : g = [f EXCEPT !.grb = x] =>
              /\ Agree(f, g, {"ingest", "init", "mpas", "restarts", "done", "wrf"})
              /\ g.grb = x /\ g.grb1 = f.grb1
         /\ g = [f EXCEPT !.ingest = TRUE] =>
              /\ Agree(f, g, {"init", "mpas", "restarts", "done", "wrf", "grb1", "grb"})
              /\ g.ingest
         /\ g = [f EXCEPT !.done = TRUE] =>
              /\ Agree(f, g, {"ingest", "init", "wrf", "grb1", "grb"})
              /\ g.mpas = f.mpas /\ g.done
BY DEF Agree, CycleFiles

(* A job that is killed or loses its node leaves its cycle's files alone,  *)
(* unless it prepares the initial state or integrates.                     *)
LEMMA KillLeaves ==
  ASSUME NEW j, NEW x \in CutOff(j), FilesOf(j) \in CycleFiles
  PROVE  /\ st[j] \in {"preparing", "retrying"} =>
              Agree(FilesOf(j), x, {"ingest", "mpas", "restarts", "done", "wrf", "grb1", "grb"})
         /\ st[j] \notin {"preparing", "retrying", "integrating"} => x = FilesOf(j)
<1>1. CASE st[j] \in {"preparing", "retrying"}
  <2>1. PICK y : x = [FilesOf(j) EXCEPT !.init = y]
    BY <1>1 DEF CutOff
  <2> QED
    BY <1>1, <2>1 DEF Agree, CycleFiles
<1>2. CASE st[j] \notin {"preparing", "retrying"}
  BY <1>2 DEF CutOff
<1> QED
  BY <1>1, <1>2

(* Clean, ungrib, init.                                                    *)
LEMMA PreparationSound ==
  ASSUME IInv, DataType, PInv, ~ overlapped, kind[runs] = "start",
         NEW j \in Job, st[j] \in Running, Progress(j) \/ Fault(j), ~ Excused(runs)',
         j[2] \in {"CLEAN", "UNGR", "INIT"}
  PROVE  Sound(States', files'[date[j]], ungribLine', HitSet')
<1> DEFINE f == FilesOf(j)
           g == files'[date[j]]
<1>0. /\ j[1] = runs /\ j[2] \in Names /\ runs' = runs /\ Turn(States, j[2])
      /\ States[j[2]] = st[j] /\ st[j] \in Phases[j[2]]
      /\ ~ Excused(runs) /\ HitSet \subseteq HitSet'
      /\ Sound(States, f, ungribLine, HitSet) /\ f \in CycleFiles /\ f = files[date[j]]
      /\ \A x : Puts(j, x) => g = x
      /\ \A from, to : Goes(j, from, to) => st[j] = from /\ Becomes(States, States', j[2], to)
      /\ \A what : Hit(j, what) => HitSet' = HitSet \cup {j[2]}
      /\ j \notin oldLog
  BY StepFacts
<1>9. f \in CycleFiles
  BY <1>0
<1> HIDE DEF f, g
<1>1. CASE j[2] = "CLEAN"
  <2>1. ~ \E what : Hit(j, what)
    <3>1. ASSUME NEW what, Hit(j, what) PROVE FALSE
      <4>1. "CLEAN" \in HitSet'
        BY <1>0, <1>1, <3>1
      <4>2. "CLEAN" \notin HitSet'
        BY NotExcused DEF Excused, HitSet
      <4> QED
        BY <4>1, <4>2
    <3> QED
      BY <3>1
  <2>2. CleanRuns(j)
    <3>1. st[j] = "started"
      BY <1>0, <1>1 DEF Phases
    <3> QED
      BY <1>1, <2>1, <3>1 DEF Progress, Fault, TctlPublishes, UngribStarts,
         UngribConverts, UngribEnds, InitStarts, InitWorks, InitFails, ForecastSkips,
         ForecastRefuses, ForecastBegins, ForecastWrites, ForecastEnds, WrfSkips,
         WrfBegins, WrfEnds, UppStarts, Grb1Ends, GrbSkips, GrbBegins, GrbEnds,
         TimeLimit, Waits, UngribAborts, WrfAborts, Grb1Aborts, IsKilled,
         ForecastAborts, NodeFails, Forecast, Convert, Post
  <2>3. Puts(j, NoFiles) /\ Goes(j, "started", "ok")
    BY <2>2 DEF CleanRuns
  <2> QED
    BY <1>0, <1>1, <2>3, CleanIsSound DEF g
<1>2. CASE j[2] = "UNGR"
  <2>1. \/ UngribStarts(j) \/ UngribConverts(j) \/ UngribEnds(j) \/ UngribAborts(j)
        \/ TimeLimit(j) \/ IsKilled(j) \/ NodeFails(j)
    BY <1>2 DEF Progress, Fault, CleanRuns, TctlPublishes, InitStarts, InitWorks,
       InitFails, ForecastSkips, ForecastRefuses, ForecastBegins, ForecastWrites,
       ForecastEnds, WrfSkips, WrfBegins, WrfEnds, UppStarts, Grb1Ends, GrbSkips,
       GrbBegins, GrbEnds, WrfAborts, Grb1Aborts, ForecastAborts, Forecast, Convert, Post
  <2>2. Prepared(States, f, ungribLine)
    BY <1>0 DEF Sound
  <2>3. st[j] \in {"started", "converting", "polling"} /\ States["UNGR"] = st[j]
    BY <1>0, <1>2 DEF Phases
  <2>4. /\ Agree(f, g, {"init", "mpas", "restarts", "done", "wrf", "grb1", "grb"})
        /\ \E to : /\ Becomes(States, States', "UNGR", to)
                   /\ to = "converting" => ~ ungribLine'
                   /\ to = "polling" /\ ungribLine' => g.ingest
                   /\ to = "ok" => g.ingest
    <3>1. CASE UngribStarts(j)
      <4>1. Goes(j, "started", "converting") /\ g = f /\ ~ ungribLine'
        BY <1>0, <3>1 DEF f, g, UngribStarts
      <4> QED
        BY <1>0, <1>2, <4>1, SelfAgrees
    <3>2. CASE UngribConverts(j)
      <4>1. Goes(j, "converting", "polling")
        BY <3>2 DEF UngribConverts
      <4>2. g = [f EXCEPT !.ingest = TRUE]
        BY <1>0, <3>2 DEF f, g, UngribConverts
      <4>3. Agree(f, g, {"init", "mpas", "restarts", "done", "wrf", "grb1", "grb"}) /\ g.ingest
        BY <1>9, <4>2, PutsAgree
      <4> QED
        BY <1>0, <1>2, <4>1, <4>3
    <3>3. CASE UngribEnds(j)
      <4>1. Goes(j, "polling", "ok") /\ g = f /\ ungribLine
        BY <1>0, <3>3 DEF f, g, UngribEnds
      <4>2. f.ingest
        BY <1>0, <2>2, <2>3, <4>1 DEF Prepared
      <4> QED
        BY <1>0, <1>2, <4>1, <4>2, SelfAgrees
    <3>4. CASE UngribAborts(j)
      <4>1. Goes(j, "converting", "polling") /\ g = f /\ ungribLine' = ungribLine
        BY <1>0, <3>4 DEF f, g, UngribAborts
      <4>2. ~ ungribLine
        BY <1>0, <2>2, <2>3, <4>1 DEF Prepared
      <4> QED
        BY <1>0, <1>2, <4>1, <4>2, SelfAgrees
    <3>5. CASE TimeLimit(j)
      <4>1. Goes(j, st[j], "timeout") /\ g = f
        BY <1>0, <3>5 DEF f, g, TimeLimit
      <4> QED
        BY <1>0, <1>2, <4>1, SelfAgrees
    <3>6. CASE IsKilled(j) \/ NodeFails(j)
      <4>1. Goes(j, st[j], "timeout") \/ Goes(j, st[j], "failed")
        BY <1>2, <3>6, NodeLoss DEF IsKilled
      <4>2. g = f
        BY <1>0, <1>9, <2>3, <3>6, KillLeaves DEF f, g, IsKilled, NodeFails
      <4> QED
        BY <1>0, <1>2, <4>1, <4>2, SelfAgrees
    <3> QED
      BY <2>1, <3>1, <3>2, <3>3, <3>4, <3>5, <3>6
  <2> QED
    BY <1>0, <1>2, <2>3, <2>4, UngribIsSound DEF g
<1>3. CASE j[2] = "INIT"
  <2>1. \/ InitStarts(j) \/ InitWorks(j) \/ InitFails(j) \/ IsKilled(j) \/ NodeFails(j)
        \/ TimeLimit(j)
    BY <1>3 DEF Progress, Fault, CleanRuns, TctlPublishes, UngribStarts, UngribConverts,
       UngribEnds, UngribAborts, ForecastSkips, ForecastRefuses, ForecastBegins,
       ForecastWrites, ForecastEnds, WrfSkips, WrfBegins, WrfEnds, UppStarts, Grb1Ends,
       GrbSkips, GrbBegins, GrbEnds, WrfAborts, Grb1Aborts, ForecastAborts, Forecast,
       Convert, Post
  <2>2. f.ingest
    BY <1>0, <1>3 DEF Sound, Prepared
  <2>3. st[j] \in {"started", "preparing", "retrying"} /\ States["INIT"] = st[j]
    BY <1>0, <1>3 DEF Phases
  <2>4. /\ ungribLine' = ungribLine
        /\ Agree(f, g, {"ingest", "mpas", "restarts", "done", "wrf", "grb1", "grb"})
        /\ \E to : /\ Becomes(States, States', "INIT", to)
                   /\ to = "ok" => g.init = "good"
    <3>0. ASSUME NEW x, g = [f EXCEPT !.init = x]
          PROVE  /\ Agree(f, g, {"ingest", "mpas", "restarts", "done", "wrf", "grb1", "grb"})
                 /\ g.init = x
      BY <1>9, <3>0 DEF Agree, CycleFiles
    <3>1. CASE InitStarts(j)
      <4>1. Goes(j, "started", "preparing") /\ ungribLine' = ungribLine
        BY <3>1 DEF InitStarts, KeepsRest
      <4>2. g = [f EXCEPT !.init = "absent"]
        BY <1>0, <3>1 DEF f, g, InitStarts
      <4>3. Agree(f, g, {"ingest", "mpas", "restarts", "done", "wrf", "grb1", "grb"})
        BY <3>0, <4>2
      <4> QED
        BY <1>0, <1>3, <4>1, <4>3
    <3>2. CASE InitWorks(j)
      <4>1. (\E from : Goes(j, from, "ok")) /\ ungribLine' = ungribLine
        BY <3>2 DEF InitWorks, KeepsRest
      <4>2. g = [f EXCEPT !.init = "good"]
        BY <1>0, <3>2 DEF f, g, InitWorks
      <4>3. /\ Agree(f, g, {"ingest", "mpas", "restarts", "done", "wrf", "grb1", "grb"})
            /\ g.init = "good"
        BY <3>0, <4>2
      <4> QED
        BY <1>0, <1>3, <4>1, <4>3
    <3>3. CASE InitFails(j)
      <4>1. ungribLine' = ungribLine /\ Hit(j, st[j])
        BY <2>2, <3>3 DEF f, InitFails
      <4>2. \E x : g = [f EXCEPT !.init = x]
        BY <1>0, <3>3 DEF f, g, InitFails
      <4>3. Agree(f, g, {"ingest", "mpas", "restarts", "done", "wrf", "grb1", "grb"})
        BY <3>0, <4>2
      <4>4. st[j] # "retrying"
        BY <1>0, <1>3, <4>1, HitFacts
      <4>5. Goes(j, "preparing", "retrying")
        BY <3>3, <4>4 DEF InitFails, Goes
      <4> QED
        BY <1>0, <1>3, <4>1, <4>3, <4>5
    <3>4. CASE IsKilled(j) \/ NodeFails(j)
      <4>1. Goes(j, st[j], "timeout") \/ Goes(j, st[j], "failed")
        BY <1>3, <3>4, NodeLoss DEF IsKilled
      <4>2. ungribLine' = ungribLine
        BY <3>4 DEF IsKilled, NodeFails
      <4>3. PICK z \in CutOff(j) : g = z
        BY <1>0, <3>4 DEF g, IsKilled, NodeFails
      <4>4. Agree(f, g, {"ingest", "mpas", "restarts", "done", "wrf", "grb1", "grb"})
        BY <1>9, <2>3, <4>3, KillLeaves, SelfAgrees DEF f
      <4> QED
        BY <1>0, <1>3, <4>1, <4>2, <4>4
    <3>5. CASE TimeLimit(j)
      <4>1. Goes(j, st[j], "timeout") /\ g = f /\ ungribLine' = ungribLine
        BY <1>0, <3>5 DEF f, g, TimeLimit, KeepsRest
      <4> QED
        BY <1>0, <1>3, <4>1, SelfAgrees
    <3> QED
      BY <2>1, <3>1, <3>2, <3>3, <3>4, <3>5
  <2> QED
    BY <1>0, <1>3, <2>3, <2>4, InitIsSound DEF g
<1> QED
  BY <1>1, <1>2, <1>3

(* run.mpas.sh, twice.                                                     *)
LEMMA ForecastSound ==
  ASSUME IInv, DataType, PInv, ~ overlapped, kind[runs] = "start",
         NEW j \in Job, st[j] \in Running, Progress(j) \/ Fault(j), ~ Excused(runs)',
         j[2] \in {"MPAS1", "MPAS2"}
  PROVE  Sound(States', files'[date[j]], ungribLine', HitSet')
<1> DEFINE f == FilesOf(j)
           g == files'[date[j]]
           Outside == Agree(f, g, {"ingest", "init", "wrf", "grb1", "grb"})
<1>0. /\ j[1] = runs /\ j[2] \in Names /\ runs' = runs /\ Turn(States, j[2])
      /\ States[j[2]] = st[j] /\ st[j] \in Phases[j[2]]
      /\ ~ Excused(runs) /\ HitSet \subseteq HitSet'
      /\ Sound(States, f, ungribLine, HitSet) /\ f \in CycleFiles /\ f = files[date[j]]
      /\ \A x : Puts(j, x) => g = x
      /\ \A from, to : Goes(j, from, to) => st[j] = from /\ Becomes(States, States', j[2], to)
      /\ UNCHANGED faults => HitSet' = HitSet
      /\ \A what : Hit(j, what) => HitSet' = HitSet \cup {j[2]}
      /\ j \notin oldLog
  BY StepFacts
<1>1. /\ ForecastSkips(j) \/ ForecastRefuses(j) \/ ForecastBegins(j) \/ ForecastWrites(j)
           \/ ForecastEnds(j) \/ IsKilled(j) \/ ForecastAborts(j) \/ NodeFails(j)
      /\ st[j] \in {"started", "integrating", "finishing"}
  <2>1. st[j] \in {"started", "integrating", "finishing"}
    BY <1>0 DEF Phases
  <2> QED
    BY <2>1 DEF Progress, Fault, CleanRuns, TctlPublishes, UngribStarts, UngribConverts,
       UngribEnds, UngribAborts, InitStarts, InitWorks, InitFails, WrfSkips, WrfBegins,
       WrfEnds, UppStarts, Grb1Ends, GrbSkips, GrbBegins, GrbEnds, WrfAborts, Grb1Aborts,
       Convert, Post, TimeLimit, Waits
<1>2. ungribLine' = ungribLine
  BY <1>1 DEF ForecastSkips, ForecastRefuses, ForecastBegins, ForecastWrites, ForecastEnds,
     IsKilled, ForecastAborts, NodeFails, KeepsRest
<1>3. ASSUME NEW to, Becomes(States, States', j[2], to), HitSet' \in {HitSet, HitSet \cup {j[2]}},
             Outside,
             \/ st[j] = "started" /\ to = "ok" /\ g = f /\ (f.done \/ f.mpas # "absent")
             \/ st[j] = "started" /\ to = "failed" /\ g = f /\ f.init = "absent"
             \/ st[j] = "started" /\ to = "integrating" /\ g = f /\ ~ f.done
             \/ /\ st[j] = "integrating" /\ to = "finishing"
                /\ f.init = "good" /\ ~ f.restarts => g.mpas = "good"
             \/ st[j] = "finishing" /\ to = "ok" /\ g.mpas = f.mpas /\ g.done
             \/ st[j] = "started" /\ to \in Ended \cup {"pending"} /\ g = f /\ j[2] \in HitSet'
      PROVE  Sound(States', files'[date[j]], ungribLine', HitSet')
  <2> HIDE DEF f, g
  <2>1. Sound(States', g, ungribLine, HitSet')
    BY <1>0, <1>3, StatusesDiffer, ForecastIsSound
  <2> QED
    BY <1>2, <2>1 DEF g
<1>9. f \in CycleFiles
  BY <1>0
<1> HIDE DEF f, g
<1>4. CASE ForecastSkips(j) \/ ForecastRefuses(j) \/ ForecastBegins(j)
  <2>1. g = f /\ HitSet' = HitSet
    BY <1>0, <1>4 DEF f, g, ForecastSkips, ForecastRefuses, ForecastBegins, KeepsRest
  <2>2. Outside
    BY <2>1, SelfAgrees
  <2>3. CASE ForecastSkips(j)
    <3>1. Goes(j, "started", "ok") /\ (f.done \/ f.mpas # "absent")
      BY <2>3 DEF f, ForecastSkips
    <3> QED
      BY <1>0, <1>3, <2>1, <2>2, <3>1
  <2>4. CASE ForecastRefuses(j)
    <3>1. Goes(j, "started", "failed") /\ f.init = "absent"
      BY <2>4 DEF f, ForecastRefuses
    <3> QED
      BY <1>0, <1>3, <2>1, <2>2, <3>1
  <2>5. CASE ForecastBegins(j)
    <3>1. Goes(j, "started", "integrating") /\ ~ f.done
      BY <2>5 DEF f, ForecastBegins
    <3> QED
      BY <1>0, <1>3, <2>1, <2>2, <3>1
  <2> QED
    BY <1>4, <2>3, <2>4, <2>5
<1>5. CASE ForecastWrites(j)
  <2>1. Goes(j, "integrating", "finishing") /\ HitSet' = HitSet
    BY <1>0, <1>5 DEF ForecastWrites, KeepsRest
  <2>2. CASE FilesOf(j).restarts /\ UNCHANGED files
    <3>1. g = f /\ f.restarts
      BY <1>0, <2>2 DEF f, g
    <3> QED
      BY <1>0, <1>3, <2>1, <3>1, SelfAgrees
  <2>3. CASE ~ (FilesOf(j).restarts /\ UNCHANGED files)
    <3>1. PICK q \in {"good", "bad"} :
             /\ q = "bad" => f.init # "good" \/ f.restarts
             /\ g = [f EXCEPT !.mpas = q, !.restarts = TRUE]
      BY <1>0, <1>5, <2>3 DEF f, g, ForecastWrites
    <3>2. Outside /\ g.mpas = q
      BY <1>9, <3>1 DEF Agree, CycleFiles
    <3>3. f.init = "good" /\ ~ f.restarts => g.mpas = "good"
      BY <3>1, <3>2
    <3> QED
      BY <1>0, <1>3, <2>1, <3>2, <3>3
  <2> QED
    BY <2>2, <2>3
<1>6. CASE ForecastEnds(j)
  <2>1. Goes(j, "finishing", "ok") /\ HitSet' = HitSet
    BY <1>0, <1>6 DEF ForecastEnds, KeepsRest
  <2>2. g = [f EXCEPT !.done = TRUE]
    BY <1>0, <1>6 DEF f, g, ForecastEnds
  <2>3. Outside /\ g.mpas = f.mpas /\ g.done
    BY <1>9, <2>2 DEF Agree, CycleFiles
  <2> QED
    BY <1>0, <1>3, <2>1, <2>3
<1>7. CASE IsKilled(j) \/ ForecastAborts(j) \/ NodeFails(j)
  <2>1. PICK what : Hit(j, what) /\ what = st[j]
    BY <1>7 DEF IsKilled, ForecastAborts, NodeFails, Goes
  <2>2. st[j] = "started"
    <3>1. CASE j[2] = "MPAS1"
      BY <1>0, <1>1, <2>1, <3>1, HitFacts
    <3>2. CASE j[2] = "MPAS2"
      <4>1. "MPAS2" \in HitSet'
        BY <1>0, <2>1, <3>2
      <4>2. "MPAS1" \notin HitSet'
        BY <4>1 DEF HitSet, Excused
      <4>3. States["MPAS2"] \in Working => "MPAS1" \in HitSet
        BY <1>0 DEF Sound, Forecasted
      <4> QED
        BY <1>0, <1>1, <3>2, <4>2, <4>3 DEF Working
    <3> QED
      BY <3>1, <3>2
  <2>3. \E to \in Ended \cup {"pending"} : Goes(j, "started", to)
    BY <1>7, <2>2, NodeLoss DEF IsKilled, ForecastAborts, Goes, Ended
  <2>4. g = f
    BY <1>0, <1>7, <2>2, KillLeaves DEF f, g, IsKilled, ForecastAborts, NodeFails
  <2>5. HitSet' = HitSet \cup {j[2]}
    BY <1>0, <2>1
  <2> QED
    BY <1>0, <1>3, <2>2, <2>3, <2>4, <2>5, SelfAgrees
<1> QED
  BY <1>1, <1>4, <1>5, <1>6, <1>7

(* mpas2wrf.sh, twice.                                                     *)
LEMMA ConversionSound ==
  ASSUME IInv, DataType, PInv, ~ overlapped, kind[runs] = "start",
         NEW j \in Job, st[j] \in Running, Progress(j) \/ Fault(j), ~ Excused(runs)',
         j[2] \in {"WRF1", "WRF2"}
  PROVE  Sound(States', files'[date[j]], ungribLine', HitSet')
<1> DEFINE f == FilesOf(j)
           g == files'[date[j]]
           Outside == Agree(f, g, {"ingest", "init", "mpas", "restarts", "done", "grb1", "grb"})
<1>0. /\ j[2] \in Names /\ Turn(States, j[2]) /\ States[j[2]] = st[j] /\ st[j] \in Phases[j[2]]
      /\ ~ Excused(runs)
      /\ Sound(States, f, ungribLine, HitSet) /\ f \in CycleFiles /\ f = files[date[j]]
      /\ \A x : Puts(j, x) => g = x
      /\ \A from, to : Goes(j, from, to) => st[j] = from /\ Becomes(States, States', j[2], to)
      /\ UNCHANGED faults => HitSet' = HitSet
      /\ \A what : Hit(j, what) => HitSet' = HitSet \cup {j[2]}
  BY StepFacts
<1>1. /\ WrfSkips(j) \/ WrfBegins(j) \/ WrfEnds(j) \/ WrfAborts(j)
           \/ TimeLimit(j) \/ IsKilled(j) \/ NodeFails(j)
      /\ st[j] \in {"started", "converting"}
  <2>1. st[j] \in {"started", "converting"}
    BY <1>0 DEF Phases
  <2> QED
    BY <2>1 DEF Progress, Fault, CleanRuns, TctlPublishes, UngribStarts, UngribConverts,
       UngribEnds, UngribAborts, InitStarts, InitWorks, InitFails, ForecastSkips,
       ForecastRefuses, ForecastBegins, ForecastWrites, ForecastEnds, ForecastAborts,
       UppStarts, Grb1Ends, GrbSkips, GrbBegins, GrbEnds, Grb1Aborts, Forecast, Post
<1>2. ungribLine' = ungribLine
  BY <1>1 DEF WrfSkips, WrfBegins, WrfEnds, WrfAborts, TimeLimit, IsKilled, NodeFails, KeepsRest
<1>3. ASSUME NEW to, Becomes(States, States', j[2], to), HitSet' \in {HitSet, HitSet \cup {j[2]}},
             Outside,
             \/ st[j] = "started" /\ to = "ok" /\ g = f /\ f.wrf \in {"good", "bad"}
             \/ /\ st[j] = "started" /\ to = "converting"
                /\ f.wrf \notin {"good", "bad"} /\ g.wrf = "partial"
             \/ st[j] = "converting" /\ to = "ok" /\ g.wrf = Derived(f.mpas)
             \/ to \in Ended \cup {"pending"} /\ g = f /\ j[2] \in HitSet'
             \/ f.mpas \in {"absent", "partial"}
      PROVE  Sound(States', files'[date[j]], ungribLine', HitSet')
  <2> HIDE DEF f, g
  <2>1. ~ {"MPAS1", "MPAS2"} \subseteq HitSet
    BY <1>0, NotExcused
  <2>2. Sound(States', g, ungribLine, HitSet')
    BY <1>0, <1>3, <2>1, ConvertIsSound
  <2> QED
    BY <1>2, <2>2 DEF g
<1>9. f \in CycleFiles
  BY <1>0
<1> HIDE DEF f, g
<1>4. CASE WrfSkips(j)
  <2>1. Goes(j, "started", "ok") /\ g = f /\ HitSet' = HitSet /\ f.wrf \in {"good", "bad"}
    BY <1>0, <1>4 DEF f, g, WrfSkips, WrfComplete, KeepsRest
  <2> QED
    BY <1>0, <1>3, <2>1, SelfAgrees
<1>5. CASE WrfBegins(j)
  <2>1. Goes(j, "started", "converting") /\ HitSet' = HitSet /\ f.wrf \notin {"good", "bad"}
    BY <1>0, <1>5 DEF f, WrfBegins, WrfComplete, KeepsRest
  <2>2. g = [f EXCEPT !.wrf = "partial"]
    BY <1>0, <1>5 DEF f, g, WrfBegins
  <2>3. Outside /\ g.wrf = "partial"
    BY <1>9, <2>2 DEF Agree, CycleFiles
  <2> QED
    BY <1>0, <1>3, <2>1, <2>3
<1>6. CASE WrfEnds(j)
  <2>1. Goes(j, "converting", "ok") /\ HitSet' = HitSet
    BY <1>0, <1>6 DEF WrfEnds, KeepsRest
  <2>2. g = [f EXCEPT !.wrf = Derived(f.mpas)]
    BY <1>0, <1>6 DEF f, g, WrfEnds
  <2>3. Outside /\ g.wrf = Derived(f.mpas)
    BY <1>9, <2>2 DEF Agree, CycleFiles
  <2> QED
    BY <1>0, <1>3, <2>1, <2>3
<1>7. CASE WrfAborts(j) \/ IsKilled(j) \/ NodeFails(j)
  <2>1. HitSet' = HitSet \cup {j[2]}
    BY <1>0, <1>7 DEF WrfAborts, IsKilled, NodeFails
  <2>2. \E from, to : to \in Ended \cup {"pending"} /\ Goes(j, from, to)
    BY <1>7, NodeLoss DEF WrfAborts, IsKilled, Ended
  <2>3. g = f
    BY <1>0, <1>1, <1>7, KillLeaves DEF f, g, WrfAborts, IsKilled, NodeFails
  <2> QED
    BY <1>0, <1>3, <2>1, <2>2, <2>3, SelfAgrees
<1>8. CASE TimeLimit(j)
  <2>1. Goes(j, st[j], "timeout") /\ g = f /\ HitSet' = HitSet
    BY <1>0, <1>8 DEF f, g, TimeLimit, KeepsRest
  <2>2. f.mpas \in {"absent", "partial"}
    BY <1>1, <1>8 DEF f, TimeLimit, Waits, Post
  <2> QED
    BY <1>0, <1>3, <2>1, <2>2, SelfAgrees
<1> QED
  BY <1>1, <1>4, <1>5, <1>6, <1>7, <1>8

(* upp.mpas.sh, twice.                                                     *)
LEMMA PostSound ==
  ASSUME IInv, DataType, PInv, ~ overlapped, kind[runs] = "start",
         NEW j \in Job, st[j] \in Running, Progress(j) \/ Fault(j), ~ Excused(runs)',
         j[2] \in {"UPP1", "UPP2"}
  PROVE  Sound(States', files'[date[j]], ungribLine', HitSet')
<1> DEFINE f == FilesOf(j)
           g == files'[date[j]]
           Outside == Agree(f, g, {"ingest", "init", "mpas", "restarts", "done", "wrf"})
<1>0. /\ j[2] \in Names /\ Turn(States, j[2]) /\ States[j[2]] = st[j] /\ st[j] \in Phases[j[2]]
      /\ j[1] = runs /\ runs' = runs /\ ~ Excused(runs)
      /\ Sound(States, f, ungribLine, HitSet) /\ f \in CycleFiles /\ f = files[date[j]]
      /\ \A x : Puts(j, x) => g = x
      /\ \A from, to : Goes(j, from, to) => st[j] = from /\ Becomes(States, States', j[2], to)
      /\ UNCHANGED faults => HitSet' = HitSet
      /\ \A what : Hit(j, what) => HitSet' = HitSet \cup {j[2]}
  BY StepFacts
<1>1. /\ UppStarts(j) \/ Grb1Ends(j) \/ Grb1Aborts(j) \/ GrbSkips(j) \/ GrbBegins(j)
           \/ GrbEnds(j) \/ TimeLimit(j) \/ IsKilled(j) \/ NodeFails(j)
      /\ st[j] \in {"started", "makingGrb1", "grb1Made", "makingGrb"}
  <2>1. st[j] \in {"started", "makingGrb1", "grb1Made", "makingGrb"}
    BY <1>0 DEF Phases
  <2> QED
    BY <2>1 DEF Progress, Fault, CleanRuns, TctlPublishes, UngribStarts, UngribConverts,
       UngribEnds, UngribAborts, InitStarts, InitWorks, InitFails, ForecastSkips,
       ForecastRefuses, ForecastBegins, ForecastWrites, ForecastEnds, ForecastAborts,
       WrfSkips, WrfBegins, WrfEnds, WrfAborts, Forecast, Convert
<1>2. ungribLine' = ungribLine
  BY <1>1 DEF UppStarts, Grb1Ends, Grb1Aborts, GrbSkips, GrbBegins, GrbEnds, TimeLimit,
     IsKilled, NodeFails, KeepsRest
<1>3. ASSUME NEW to, Becomes(States, States', j[2], to), HitSet' \in {HitSet, HitSet \cup {j[2]}},
             Outside,
             \/ st[j] = "started" /\ to = "makingGrb1" /\ g = f
             \/ /\ st[j] = "makingGrb1" /\ to = "grb1Made" /\ g.grb = f.grb
                /\ g.grb1 = IF f.grb1 # "absent" THEN f.grb1 ELSE Derived(f.wrf)
             \/ /\ st[j] = "makingGrb1" /\ to = "grb1Made" /\ f.grb1 = "absent"
                /\ j[2] \in HitSet' /\ j[2] = "UPP2"
             \/ /\ st[j] = "grb1Made" /\ to = "ok" /\ g = f
                /\ f.grb # "absent" \/ f.grb1 = "absent"
             \/ st[j] = "grb1Made" /\ to = "makingGrb" /\ f.grb = "absent" /\ g.grb1 = f.grb1
             \/ /\ st[j] = "makingGrb" /\ to = "ok"
                /\ g.grb1 = f.grb1 /\ g.grb = Derived(f.grb1)
             \/ /\ to \in Ended \cup {"pending"} /\ g = f /\ j[2] \in HitSet'
                /\ j[2] = "UPP1" => st[j] # "makingGrb"
             \/ f.wrf \in {"absent", "partial"}
      PROVE  Sound(States', files'[date[j]], ungribLine', HitSet')
  <2> HIDE DEF f, g
  <2>1. ~ {"WRF1", "WRF2"} \subseteq HitSet
    BY <1>0, NotExcused
  <2>2. ~ {"UPP1", "UPP2"} \subseteq HitSet'
    BY DEF Excused, HitSet
  <2>3. Sound(States', g, ungribLine, HitSet')
    BY <1>0, <1>3, <2>1, <2>2, PostIsSound
  <2> QED
    BY <1>2, <2>3 DEF g
<1>9. f \in CycleFiles
  BY <1>0
<1> HIDE DEF f, g
<1>4. CASE UppStarts(j) \/ GrbSkips(j)
  <2>1. g = f /\ HitSet' = HitSet
    BY <1>0, <1>4 DEF f, g, UppStarts, GrbSkips, KeepsRest
  <2>2. \/ Goes(j, "started", "makingGrb1")
        \/ Goes(j, "grb1Made", "ok") /\ (f.grb # "absent" \/ f.grb1 = "absent")
    BY <1>4 DEF f, UppStarts, GrbSkips, GrbIsThere
  <2> QED
    BY <1>0, <1>3, <2>1, <2>2, SelfAgrees
<1>5. CASE Grb1Ends(j) \/ Grb1Aborts(j)
  <2>1. Goes(j, "makingGrb1", "grb1Made")
    BY <1>5 DEF Grb1Ends, Grb1Aborts
  <2>2. g = f \/ \E x : g = [f EXCEPT !.grb1 = x]
    BY <1>0, <1>5 DEF f, g, Grb1Ends, Grb1Aborts
  <2>3. Outside /\ g.grb = f.grb
    <3>1. CASE g = f
      BY <3>1, SelfAgrees
    <3>2. CASE g # f
      <4>1. PICK x : g = [f EXCEPT !.grb1 = x]
        BY <2>2, <3>2
      <4> QED
        BY <1>9, <4>1 DEF Agree, CycleFiles
    <3> QED
      BY <3>1, <3>2
  <2>4. CASE Grb1Ends(j)
    <3>1. HitSet' = HitSet
      BY <1>0, <2>4 DEF Grb1Ends, KeepsRest
    <3>2. g.grb1 = IF f.grb1 # "absent" THEN f.grb1 ELSE Derived(f.wrf)
      <4>1. CASE f.grb1 # "absent"
        BY <1>0, <2>4, <4>1 DEF f, g, Grb1Ends
      <4>2. CASE f.grb1 = "absent"
        <5>1. g = [f EXCEPT !.grb1 = Derived(f.wrf)]
          BY <1>0, <2>4, <4>2 DEF f, g, Grb1Ends
        <5> QED
          BY <1>9, <4>2, <5>1 DEF CycleFiles
      <4> QED
        BY <4>1, <4>2
    <3> QED
      BY <1>0, <1>3, <2>1, <2>3, <3>1, <3>2
  <2>5. CASE Grb1Aborts(j)
    <3>1. Hit(j, "grb1") /\ f.grb1 = "absent"
      BY <2>5 DEF f, Grb1Aborts
    <3>2. HitSet' = HitSet \cup {j[2]}
      BY <1>0, <3>1
    <3>3. j[2] # "UPP1"
      BY <1>0, <3>1, HitFacts
    <3> QED
      BY <1>0, <1>3, <2>1, <2>3, <3>1, <3>2, <3>3
  <2> QED
    BY <1>5, <2>4, <2>5
<1>6. CASE GrbBegins(j)
  <2>1. Goes(j, "grb1Made", "makingGrb") /\ HitSet' = HitSet /\ f.grb = "absent"
    BY <1>0, <1>6 DEF f, GrbBegins, GrbIsThere, KeepsRest
  <2>2. PICK x : g = [f EXCEPT !.grb = x]
    BY <1>0, <1>6 DEF f, g, GrbBegins
  <2>3. Outside /\ g.grb1 = f.grb1
    BY <1>9, <2>2 DEF Agree, CycleFiles
  <2> QED
    BY <1>0, <1>3, <2>1, <2>3
<1>7. CASE GrbEnds(j)
  <2>1. Goes(j, "makingGrb", "ok") /\ HitSet' = HitSet
    BY <1>0, <1>7 DEF GrbEnds, KeepsRest
  <2>2. g = [f EXCEPT !.grb = Derived(f.grb1)]
    BY <1>0, <1>7 DEF f, g, GrbEnds
  <2>3. Outside /\ g.grb1 = f.grb1 /\ g.grb = Derived(f.grb1)
    BY <1>9, <2>2 DEF Agree, CycleFiles
  <2> QED
    BY <1>0, <1>3, <2>1, <2>3
<1>8. CASE IsKilled(j) \/ NodeFails(j)
  <2>1. Hit(j, st[j])
    BY <1>8 DEF IsKilled, NodeFails
  <2>2. HitSet' = HitSet \cup {j[2]} /\ (j[2] = "UPP1" => st[j] # "makingGrb")
    BY <1>0, <2>1, HitFacts
  <2>3. \E from, to : to \in Ended \cup {"pending"} /\ Goes(j, from, to)
    BY <1>8, NodeLoss DEF IsKilled, Ended
  <2>4. g = f
    BY <1>0, <1>1, <1>8, KillLeaves DEF f, g, IsKilled, NodeFails
  <2> QED
    BY <1>0, <1>3, <2>2, <2>3, <2>4, SelfAgrees
<1>10. CASE TimeLimit(j)
  <2>1. Goes(j, st[j], "timeout") /\ g = f /\ HitSet' = HitSet
    BY <1>0, <1>10 DEF f, g, TimeLimit, KeepsRest
  <2>2. f.wrf \in {"absent", "partial"}
    BY <1>1, <1>10 DEF f, TimeLimit, Waits, Convert
  <2> QED
    BY <1>0, <1>3, <2>1, <2>2, SelfAgrees
<1> QED
  BY <1>1, <1>4, <1>5, <1>6, <1>7, <1>8, <1>10

LEMMA RunningSound ==
  ASSUME IInv, DataType, PInv, ~ overlapped, kind[runs] = "start",
         NEW j \in Job, st[j] \in Running, Progress(j) \/ Fault(j), ~ Excused(runs)'
  PROVE  Sound(States', files'[date[j]], ungribLine', HitSet')
<1>1. CASE j[2] = "TCTL"
  <2>0. /\ j[2] \in Names /\ States[j[2]] = st[j] /\ st[j] = "started"
        /\ HitSet \subseteq HitSet'
        /\ Sound(States, files[date[j]], ungribLine, HitSet)
        /\ FilesOf(j) = files[date[j]]
        /\ \A x : Puts(j, x) => files'[date[j]] = x
        /\ \A from, to : Goes(j, from, to) => Becomes(States, States', j[2], to)
    <3>1. st[j] \in {"started"}
      BY <1>1, StepFacts DEF Phases
    <3> QED
      BY <3>1, StepFacts
  <2>1. TctlPublishes(j) \/ IsKilled(j) \/ NodeFails(j)
    BY <1>1, <2>0 DEF Progress, Fault, CleanRuns, UngribStarts, UngribConverts,
       UngribEnds, UngribAborts, InitStarts, InitWorks, InitFails, ForecastSkips,
       ForecastRefuses, ForecastBegins, ForecastWrites, ForecastEnds, ForecastAborts,
       WrfSkips, WrfBegins, WrfEnds, WrfAborts, UppStarts, Grb1Ends, GrbSkips, GrbBegins,
       GrbEnds, Grb1Aborts, TimeLimit, Waits, Forecast, Convert, Post
  <2>2. \E to : Becomes(States, States', "TCTL", to)
    BY <1>1, <2>0, <2>1 DEF TctlPublishes, IsKilled, NodeFails
  <2>3. files'[date[j]] = files[date[j]] /\ ungribLine' = ungribLine
    <3>1. FilesOf(j) \in CycleFiles
      BY StepFacts
    <3> QED
      BY <2>0, <2>1, <3>1, KillLeaves DEF TctlPublishes, IsKilled, NodeFails
  <2> QED
    BY <1>1, <2>0, <2>2, <2>3, PublishIsSound
<1>2. j[2] \in Names
  BY JobFacts
<1> QED
  BY <1>1, <1>2, NamesAre, PreparationSound, ForecastSound, ConversionSound, PostSound
-----------------------------------------------------------------------------
(* The other steps *)

LEMMA UnbegunIsSound ==
  ASSUME NEW s, NEW f, NEW line, NEW h, \A n \in Names : s[n] \notin Running \cup Ended
  PROVE  Sound(s, f, line, h)
<1>1. /\ \A n \in {"CLEAN", "UNGR", "INIT", "MPAS1", "MPAS2"} : s[n] \notin Running \cup Ended
      /\ \A n \in {"WRF1", "WRF2", "UPP1", "UPP2"} : s[n] \notin Running \cup Ended
  BY NamesAre
<1>2. /\ {"converting", "polling", "ok"} \subseteq Running \cup Ended
      /\ {"integrating", "finishing", "grb1Made", "makingGrb"} \subseteq Running
  BY DEF Running, Ended
<1> QED
  BY <1>1, <1>2 DEF Sound, Prepared, Forecasted, Converted, Posted, Over, Fine, Working

(* What a script does before it submits happens while its own chain is not *)
(* yet there.                                                              *)
LEMMA BeforeSubmission ==
  ASSUME IInv, NEW step, step \notin Names, Does(step), UNCHANGED <<runs, kind>>,
         NEW j \in Job, j[1] = runs
  PROVE  st[j] = "unsubmitted"
<1>1. 10 - Len(todo') < First(runs) /\ Len(todo') = Len(todo) - 1 /\ Len(todo) \in Nat
  BY Done DEF IInv
<1>2. First(runs) \in {1, 4} /\ Rank[j[2]] \in 1..10
  BY JobFacts, RankFacts DEF First
<1>3. CASE Rank[j[2]] >= First(runs)
  BY <1>1, <1>2, <1>3 DEF IInv, SubmittedIsHead
<1>4. CASE Rank[j[2]] < First(runs)
  BY <1>2, <1>4 DEF IInv, SubmittedIsHead
<1> QED
  BY <1>2, <1>3, <1>4

LEMMA NotNames == {"edit", "cancel", "rotate"} \cap Names = {}
BY NamesAre

LEMMA QuietSound ==
  ASSUME IInv, PInv, [Next]_vars, ~ overlapped, runs > 0, kind[runs] = "start",
         ~ Excused(runs)', runs' = runs,
         ~ \E j \in Job : st[j] \in Running /\ (Progress(j) \/ Fault(j))
  PROVE  /\ UNCHANGED <<files, kind, dateOf, overlapped>>
         /\ Sound(States', files[dateOf[runs]], ungribLine', HitSet')
<1>0. runs \in Chain /\ st \in [Job -> Status] /\ runs \in Nat
  BY BoundAssumption DEF IInv, CoreType, Chain
<1>1. \A n \in Names : /\ <<runs, n>> \in Job
                       /\ States[n] = st[<<runs, n>>] /\ States'[n] = st'[<<runs, n>>]
  BY <1>0, JobFacts DEF States
<1>2. ~ \E s \in {"start", "restart"}, d \in Dates : RunScript(s, d)
  BY <1>0 DEF RunScript
<1>3. \/ EditModelenv \/ CancelQueue \/ RotateLogs
      \/ \E j \in Job : Submit(j) \/ SubmitFails(j) \/ StartJob(j) \/ NeverStarts(j)
      \/ UNCHANGED vars
  BY <1>2 DEF Next, Script, Slurm
<1>4. /\ UNCHANGED <<files, kind, dateOf, overlapped>> /\ faults \subseteq faults'
      /\ ungribLine' = ungribLine \/ ungribLine' = FALSE
  BY <1>3 DEF EditModelenv, CancelQueue, RotateLogs, Submit, SubmitFails, StartJob,
     NeverStarts, Hit, vars, scriptVars, jobVars
<1>5. HitSet \subseteq HitSet' /\ ~ Excused(runs)
  BY <1>4, FaultsStay
<1>6. Sound(States, files[dateOf[runs]], ungribLine, HitSet)
  BY <1>5 DEF PInv, ChainIsSound
<1> DEFINE Kept(n) == States'[n] = States[n]
           Quiet(n) == \/ Kept(n)
                       \/ /\ States[n] \notin Running \cup Ended
                          /\ States'[n] \notin Ended
                          /\ States'[n] \in Running => States'[n] = "started"
           Ready(n, m) == States'[n] = "started" => States[n] = "started" \/ States[m] = "ok"
           Goal == (\A n \in Names : Quiet(n)) /\ Ready("INIT", "UNGR") /\ Ready("MPAS1", "INIT")
           Idle(n) == States[n] \notin Running \cup Ended /\ States'[n] \notin Running \cup Ended
<1>7. ASSUME \A n \in Names : Kept(n) \/ Idle(n) PROVE Goal
  <2>1. \A n \in Names : Quiet(n)
    BY <1>7
  <2>2. Kept("INIT") \/ Idle("INIT")
    BY <1>7, NamesAre
  <2>3. Kept("MPAS1") \/ Idle("MPAS1")
    BY <1>7, NamesAre
  <2>4. "started" \in Running
    BY DEF Running
  <2> QED
    BY <2>1, <2>2, <2>3, <2>4
<1> HIDE DEF Goal
<1>8. ASSUME EditModelenv \/ RotateLogs \/ UNCHANGED vars PROVE Goal
  <2>1. st' = st
    BY <1>8 DEF EditModelenv, RotateLogs, vars, jobVars
  <2>2. \A n \in Names : Kept(n)
    BY <1>1, <2>1
  <2> QED
    BY <1>7, <2>2
<1>9. ASSUME CancelQueue PROVE Goal
  <2>1. ASSUME NEW n \in Names PROVE Kept(n)
    <3>1. st[<<runs, n>>] = "unsubmitted"
      BY <1>1, <1>9, BeforeSubmission, NotNames DEF CancelQueue
    <3>2. "unsubmitted" \notin Running \cup Waiting
      BY DEF Running, Waiting
    <3> QED
      BY <1>1, <1>9, <3>1, <3>2 DEF CancelQueue
  <2> QED
    BY <1>7, <2>1
<1>10. ASSUME \E j \in Job : Submit(j) \/ SubmitFails(j) \/ NeverStarts(j) PROVE Goal
  <2>1. PICK j \in Job : Submit(j) \/ SubmitFails(j) \/ NeverStarts(j)
    BY <1>10
  <2>2. PICK to \in {"pending", "rejected", "stuck"} : st' = [st EXCEPT ![j] = to]
    BY <2>1 DEF Submit, SubmitFails, NeverStarts
  <2>3. st[j] \notin Running \cup Ended
    <3>1. CASE NeverStarts(j)
      BY <3>1 DEF NeverStarts, Running, Ended
    <3>2. CASE Submit(j) \/ SubmitFails(j)
      <4>1. j[1] = runs /\ Does(j[2]) /\ UNCHANGED <<runs, kind>>
        BY <3>2 DEF Submit, SubmitFails
      <4>2. Rank[j[2]] = 10 - Len(todo') /\ Len(todo') = Len(todo) - 1 /\ Len(todo) \in Nat
        BY <4>1, JobFacts, Done DEF IInv
      <4>3. st[j] = "unsubmitted"
        BY <4>1, <4>2 DEF IInv, SubmittedIsHead
      <4> QED
        BY <4>3, Disjoint
    <3> QED
      BY <2>1, <3>1, <3>2
  <2>4. to \notin Running \cup Ended
    BY DEF Running, Ended
  <2>5. ASSUME NEW n \in Names
        PROVE  Kept(n) \/ Idle(n)
    BY <1>0, <1>1, <2>2, <2>3, <2>4
  <2> QED
    BY <1>7, <2>5
<1>11. ASSUME \E j \in Job : StartJob(j) PROVE Goal
  <2>1. PICK j \in Job : StartJob(j)
    BY <1>11
  <2>2. /\ st[j] = "pending" /\ Eligible(j) /\ st' = [st EXCEPT ![j] = "started"]
        /\ st[j] \notin Running \cup Ended /\ "started" \notin Ended
    BY <2>1 DEF StartJob, Running, Ended
  <2>3. ASSUME NEW n \in Names PROVE Quiet(n)
    BY <1>0, <1>1, <2>2
  <2>4. Ready("INIT", "UNGR")
    <3>1. CASE j = <<runs, "INIT">>
      <4>1. HasNeed(j) /\ Need(j) = <<runs, "UNGR">> /\ j[2] \in AfterOk
        BY <3>1 DEF HasNeed, Need, Needs, AfterOk
      <4> QED
        BY <1>1, <2>2, <4>1, NamesAre DEF Eligible
    <3>2. CASE j # <<runs, "INIT">>
      BY <1>0, <1>1, <2>2, <3>2, NamesAre
    <3> QED
      BY <3>1, <3>2
  <2>5. Ready("MPAS1", "INIT")
    <3>1. CASE j = <<runs, "MPAS1">>
      <4>1. HasNeed(j) /\ Need(j) = <<runs, "INIT">> /\ j[2] \in AfterOk
        BY <3>1 DEF HasNeed, Need, Needs, AfterOk
      <4> QED
        BY <1>1, <2>2, <4>1, NamesAre DEF Eligible
    <3>2. CASE j # <<runs, "MPAS1">>
      BY <1>0, <1>1, <2>2, <3>2, NamesAre
    <3> QED
      BY <3>1, <3>2
  <2> QED
    BY <2>3, <2>4, <2>5 DEF Goal
<1>12. Goal
  BY <1>3, <1>8, <1>9, <1>10, <1>11
<1>13. Sound(States', files[dateOf[runs]], ungribLine', HitSet')
  <2>1. ungribLine' => ungribLine
    BY <1>4
  <2> QED
    BY <1>5, <1>6, <1>12, <2>1, QuietIsSound DEF Goal
<1> QED
  BY <1>4, <1>13

LEMMA ChainStep ==
  ASSUME IInv, DataType, PInv, [Next]_vars
  PROVE  ChainIsSound'
<1>0. runs \in Nat
  BY BoundAssumption DEF IInv, CoreType
<1> SUFFICES ASSUME ~ overlapped', runs' > 0, kind'[runs'] = "start", ~ Excused(runs)'
             PROVE  Sound(States', files'[dateOf'[runs']], ungribLine', HitSet')
  BY DEF ChainIsSound
<1>1. CASE \E s \in {"start", "restart"}, d \in Dates : RunScript(s, d)
  <2>1. runs' = runs + 1 /\ st' = st /\ runs' \in Chain
    <3>1. runs' = runs + 1 /\ st' = st /\ runs < MaxScripts
      BY <1>1 DEF RunScript, jobVars
    <3> QED
      BY <1>0, <3>1, BoundAssumption DEF Chain
  <2>2. ASSUME NEW n \in Names PROVE States'[n] \notin Running \cup Ended
    <3>1. States'[n] = st'[<<runs', n>>] /\ <<runs', n>> \in Job
      BY <2>1, <2>2, JobFacts DEF States
    <3>2. st[<<runs', n>>] = "unsubmitted"
      BY <1>0, <2>1, <3>1 DEF IInv, SubmittedIsHead
    <3> QED
      BY <2>1, <3>1, <3>2, Disjoint
  <2> QED
    BY <2>2, UnbegunIsSound
<1>2. CASE \E j \in Job : st[j] \in Running /\ (Progress(j) \/ Fault(j))
  <2>1. PICK j \in Job : st[j] \in Running /\ (Progress(j) \/ Fault(j))
    BY <1>2
  <2>2. UNCHANGED <<runs, kind, dateOf, overlapped, date>>
    BY <2>1, RunningKeeps
  <2>3. ~ overlapped /\ kind[runs] = "start"
    BY <2>2
  <2>4. date[j] = dateOf[runs]
    BY <2>1, <2>3, RunningChain
  <2>5. Sound(States', files'[date[j]], ungribLine', HitSet')
    BY <2>1, <2>3, RunningSound
  <2> QED
    BY <2>2, <2>4, <2>5
<1>3. CASE /\ ~ \E s \in {"start", "restart"}, d \in Dates : RunScript(s, d)
           /\ ~ \E j \in Job : st[j] \in Running /\ (Progress(j) \/ Fault(j))
  <2>1. UNCHANGED <<runs, kind, dateOf, files, overlapped>>
    BY <1>3 DEF Next, Script, Slurm, EditModelenv, CancelQueue, RotateLogs, Submit,
       SubmitFails, StartJob, NeverStarts, vars, scriptVars, jobVars
  <2> QED
    BY <1>3, <2>1, QuietSound
<1> QED
  BY <1>1, <1>2, <1>3

LEMMA LogsStep ==
  ASSUME IInv, DataType, LogsAreOld, [Next]_vars
  PROVE  LogsAreOld'
<1>0. runs \in Nat /\ (\A j \in Job : j[1] \in Nat) /\ oldLog \subseteq Job
  BY JobFacts, BoundAssumption DEF IInv, CoreType, DataType
<1>1. CASE \E s \in {"start", "restart"}, d \in Dates : RunScript(s, d)
  <2>1. runs' = runs + 1 /\ oldLog' = oldLog
    BY <1>1 DEF RunScript, jobVars
  <2>2. ASSUME NEW j \in oldLog PROVE j[1] < runs + 1
    <3>1. j[1] < runs /\ j[1] \in Nat
      BY <1>0 DEF LogsAreOld
    <3> QED
      BY <1>0, <3>1
  <2> QED
    BY <2>1, <2>2 DEF LogsAreOld
<1>2. CASE RotateLogs
  <2>1. Does("rotate") /\ UNCHANGED <<runs, kind>>
    BY <1>2 DEF RotateLogs
  <2>2. ASSUME NEW j \in Job, st[j] \in Running PROVE j[1] < runs
    <3>1. j[1] # runs
      BY <2>1, <2>2, BeforeSubmission, NotNames, Disjoint
    <3>2. j[1] <= runs
      BY <2>2, Disjoint DEF IInv, SubmittedIsHead
    <3> QED
      BY <1>0, <3>1, <3>2
  <2> QED
    BY <1>2, <2>1, <2>2 DEF RotateLogs, LogsAreOld
<1>3. CASE \E j \in Job : st[j] \in Running /\ (Progress(j) \/ Fault(j))
  <2>1. PICK j \in Job : st[j] \in Running /\ (Progress(j) \/ Fault(j))
    BY <1>3
  <2>2. oldLog' \subseteq oldLog
    <3>1. \E from, to : Goes(j, from, to)
      BY <2>1 DEF Progress, Fault, CleanRuns, TctlPublishes, UngribStarts, UngribConverts,
         UngribEnds, InitStarts, InitWorks, InitFails, ForecastSkips, ForecastRefuses,
         ForecastBegins, ForecastWrites, ForecastEnds, WrfSkips, WrfBegins, WrfEnds,
         UppStarts, Grb1Ends, GrbSkips, GrbBegins, GrbEnds, TimeLimit, UngribAborts,
         WrfAborts, Grb1Aborts, IsKilled, ForecastAborts, NodeFails
    <3> QED
      BY <3>1 DEF Goes
  <2>3. runs' = runs
    BY <2>1, RunningKeeps
  <2> QED
    BY <2>2, <2>3 DEF LogsAreOld
<1>4. CASE EditModelenv \/ CancelQueue \/ UNCHANGED vars
           \/ \E j \in Job : Submit(j) \/ SubmitFails(j) \/ StartJob(j) \/ NeverStarts(j)
  BY <1>4 DEF EditModelenv, CancelQueue, Submit, SubmitFails, StartJob, NeverStarts, vars,
     scriptVars, jobVars, LogsAreOld
<1> QED
  BY <1>1, <1>2, <1>3, <1>4 DEF Next, Script, Slurm

(* Each job of a chain of restart.mpas needs the number of the one before: *)
(* the script has not got that of the first, nor of one that was refused.  *)
LEMMA CutStep ==
  ASSUME IInv, RestartIsCut, [Next]_vars
  PROVE  RestartIsCut'
<1>0. /\ st \in [Job -> Status] /\ runs \in Nat /\ kind \in [Chain -> {"start", "restart"}]
      /\ "MPAS1" \in Names
  BY NamesAre, BoundAssumption DEF IInv, CoreType
<1> SUFFICES ASSUME NEW m \in Job, kind'[m[1]] = "restart", m[2] # "MPAS1"
             PROVE  st'[m] \in {"unsubmitted", "rejected"}
  BY DEF RestartIsCut
<1> DEFINE c == m[1]
<1>1. c \in Chain /\ c \in Nat /\ m[2] \in Names /\ m = <<c, m[2]>> /\ Rank[m[2]] \in 1..10
  BY JobFacts, RankFacts
<1>2. kind[c] = "restart" => st[m] \in {"unsubmitted", "rejected"}
  BY DEF RestartIsCut
<1> HIDE DEF c
<1>3. CASE \E s \in {"start", "restart"}, d \in Dates : RunScript(s, d)
  <2>1. st' = st /\ (c # runs + 1 => kind'[c] = kind[c])
    BY <1>0, <1>3 DEF RunScript, jobVars
  <2>2. CASE c = runs + 1
    <3>1. st[m] = "unsubmitted"
      BY <1>0, <1>1, <2>2 DEF IInv, SubmittedIsHead
    <3> QED
      BY <2>1, <3>1
  <2> QED
    BY <1>2, <2>1, <2>2 DEF c
<1>4. CASE kind' = kind
  <2>1. kind[c] = "restart" /\ st[m] \in {"unsubmitted", "rejected"}
    BY <1>2, <1>4 DEF c
  <2>2. CASE CancelQueue
    <3>1. st[m] \notin Running \cup Waiting
      BY <2>1 DEF Running, Waiting
    <3> QED
      BY <1>1, <2>1, <2>2, <3>1 DEF CancelQueue
  <2>3. CASE \E j \in Job : Submits(j)
    <3>1. PICK j \in Job : Submits(j)
      BY <2>3
    <3>2. CASE j = m
      <4>1. c = runs /\ First(c) = 4 /\ Len(todo') = Len(todo) - 1 /\ Len(todo) \in Nat
            /\ Rank[m[2]] = 10 - Len(todo') /\ Rank[m[2]] >= 4
        <5>1. c = runs /\ First(c) = 4 /\ Does(m[2]) /\ UNCHANGED <<runs, kind>>
          BY <2>1, <3>1, <3>2 DEF Submits, First, c
        <5> QED
          BY <1>1, <5>1, Done DEF IInv
      <4>2. HasNeed(m) /\ Need(m) \in Job /\ Need(m)[1] = c /\ Rank[Need(m)[2]] = Rank[m[2]] - 1
        BY <1>1, <4>1, NeedFacts, RankFacts DEF HasNeed, c
      <4>3. Rank[m[2]] > 4
        BY <1>0, <1>1, <4>1, RankFacts
      <4>4. st[Need(m)] # "unsubmitted"
        BY <4>1, <4>2, <4>3 DEF IInv, SubmittedIsHead
      <4>5. ASSUME Need(m)[2] = "MPAS1" PROVE Refused(m)
        BY <2>1, <4>2, <4>5 DEF Refused, PrintsNumber
      <4>6. ASSUME Need(m)[2] # "MPAS1" PROVE Refused(m)
        BY <2>1, <4>2, <4>4, <4>6 DEF Refused, RestartIsCut
      <4>7. Refused(m)
        BY <4>5, <4>6
      <4>8. st' = [st EXCEPT ![m] = "rejected"]
        BY <3>1, <3>2, <4>7 DEF Submits
      <4> QED
        BY <1>0, <4>8
    <3>3. CASE j # m
      <4>1. st'[m] = st[m]
        BY <1>0, <1>1, <3>1, <3>3 DEF Submits
      <4> QED
        BY <2>1, <4>1
    <3> QED
      BY <3>2, <3>3
  <2>4. CASE \E j \in Job : StartJob(j) \/ NeverStarts(j) \/ Moves(j)
    <3>1. PICK j \in Job : StartJob(j) \/ NeverStarts(j) \/ Moves(j)
      BY <2>4
    <3>2. j # m
      BY <2>1, <3>1, Disjoint DEF StartJob, NeverStarts, Moves
    <3>3. st'[m] = st[m]
      BY <1>0, <1>1, <3>1, <3>2 DEF StartJob, NeverStarts, Moves
    <3> QED
      BY <2>1, <3>3
  <2>5. CASE UNCHANGED st
    BY <2>1, <2>5
  <2>6. CASE \E s \in {"start", "restart"}, d \in Dates : RunScript(s, d)
    BY <1>3, <2>6
  <2> QED
    BY <2>2, <2>3, <2>4, <2>5, <2>6, EveryStep DEF EditModelenv, jobVars, controlVars
<1>5. kind' = kind \/ \E s \in {"start", "restart"}, d \in Dates : RunScript(s, d)
  BY EveryStep DEF EditModelenv, CancelQueue, Submits, StartJob, NeverStarts, Moves,
     controlVars, scriptVars
<1> QED
  BY <1>3, <1>4, <1>5

(* A job is in no phase but those of its kind.                             *)
LEMMA PhasesStep ==
  ASSUME IInv, OwnPhases, [Next]_vars
  PROVE  OwnPhases'
<1>0. st \in [Job -> Status] /\ \A j \in Job : j[2] \in Names
  BY JobFacts DEF IInv, CoreType
<1>1. CASE \E j \in Job : st[j] \in Running /\ (Progress(j) \/ Fault(j))
  <2>1. PICK j \in Job : st[j] \in Running /\ (Progress(j) \/ Fault(j))
    BY <1>1
  <2>2. st[j] \in Phases[j[2]] /\ j[2] \in Names
    BY <1>0, <2>1 DEF OwnPhases
  <2>3. PICK from, to : Goes(j, from, to) /\ (to \in Running => to \in Phases[j[2]])
    <3>1. CASE Progress(j)
      BY <2>2, <3>1 DEF Progress, CleanRuns, TctlPublishes, UngribStarts, UngribConverts,
         UngribEnds, InitStarts, InitWorks, InitFails, Forecast, ForecastSkips, ForecastRefuses,
         ForecastBegins, ForecastWrites, ForecastEnds, Convert, WrfSkips, WrfBegins, WrfEnds,
         Post, UppStarts, Grb1Ends, GrbSkips, GrbBegins, GrbEnds, TimeLimit, Phases, Running
    <3>2. CASE Fault(j)
      BY <2>2, <3>2, NodeLoss DEF Fault, UngribAborts, Convert, WrfAborts, Post, Grb1Aborts,
         IsKilled, ForecastAborts, Phases, Running
    <3> QED
      BY <2>1, <3>1, <3>2
  <2>4. st' = [st EXCEPT ![j] = to]
    BY <2>3 DEF Goes
  <2>5. st'[j] = to /\ \A k \in Job : k # j => st'[k] = st[k]
    BY <1>0, <2>4
  <2> QED
    BY <2>3, <2>5 DEF OwnPhases
<1>2. CASE \E j \in Job : StartJob(j)
  <2>1. PICK j \in Job : st' = [st EXCEPT ![j] = "started"]
    BY <1>2 DEF StartJob
  <2>2. "started" \in Phases[j[2]]
    BY <1>0, NamesAre DEF Phases
  <2>3. st'[j] = "started" /\ \A k \in Job : k # j => st'[k] = st[k]
    BY <1>0, <2>1
  <2> QED
    BY <2>2, <2>3 DEF OwnPhases
<1>3. CASE \E j \in Job : Submit(j) \/ SubmitFails(j) \/ NeverStarts(j)
  <2>1. PICK j \in Job : \E to \in {"pending", "rejected", "stuck"} : st' = [st EXCEPT ![j] = to]
    BY <1>3 DEF Submit, SubmitFails, NeverStarts
  <2>2. st'[j] \notin Running /\ \A k \in Job : k # j => st'[k] = st[k]
    BY <1>0, <2>1 DEF Running
  <2> QED
    BY <2>2 DEF OwnPhases
<1>4. CASE CancelQueue
  <2>1. \A j \in Job : st'[j] \in Running => st'[j] = st[j]
    BY <1>4, Disjoint DEF CancelQueue
  <2> QED
    BY <2>1 DEF OwnPhases
<1>5. CASE UNCHANGED st
  BY <1>5 DEF OwnPhases
<1>6. \/ \E j \in Job : st[j] \in Running /\ (Progress(j) \/ Fault(j))
      \/ \E j \in Job : StartJob(j)
      \/ \E j \in Job : Submit(j) \/ SubmitFails(j) \/ NeverStarts(j)
      \/ CancelQueue \/ UNCHANGED st
  BY DEF Next, Script, Slurm, RunScript, EditModelenv, RotateLogs, vars, jobVars
<1> QED
  BY <1>1, <1>2, <1>3, <1>4, <1>5, <1>6

LEMMA InitPInv == Init => PInv
<1> SUFFICES ASSUME Init PROVE PInv
  OBVIOUS
<1>1. \A j \in Job : st[j] = "unsubmitted" /\ kind[j[1]] = "start"
  BY JobFacts DEF Init
<1>2. OwnPhases
  BY <1>1, Disjoint DEF OwnPhases
<1>3. ChainIsSound /\ LogsAreOld
  BY DEF Init, ChainIsSound, LogsAreOld
<1>4. RestartIsCut
  BY DEF Init, RestartIsCut
<1> QED
  BY <1>2, <1>3, <1>4 DEF PInv

LEMMA NextPInv == IInv /\ DataType /\ PInv /\ [Next]_vars => PInv'
BY ChainStep, LogsStep, CutStep, PhasesStep DEF PInv

(* The cycle is announced by the last job of a chain of start.mpas: both   *)
(* post-processing jobs have ended, and one of them was not hit.           *)
LEMMA Published == IInv /\ PInv => PublishedIsComplete
<1> SUFFICES ASSUME IInv, PInv, ~ overlapped, runs \in Chain, st[<<runs, "TCTL">>] = "ok",
                    ~ Excused(runs)
             PROVE  files[dateOf[runs]].grb1 = "good" /\ files[dateOf[runs]].grb = "good"
  BY DEF PublishedIsComplete
<1>1. /\ {"MPAS2", "UPP1", "UPP2", "TCTL"} \subseteq Names /\ runs > 0
      /\ \A n \in Names : <<runs, n>> \in Job /\ <<runs, n>>[1] = runs /\ <<runs, n>>[2] = n
  BY NamesAre, JobFacts
<1>2. todo \in Seq(Steps) /\ kind[runs] \in {"start", "restart"} /\ First(runs) \in {1, 4}
  BY DEF IInv, CoreType, First, Steps
<1>3. Len(todo) = 0
  <2>1. Len(todo) \in Nat
    BY <1>2
  <2>2. ~ (Rank["TCTL"] > 10 - Len(todo))
    BY <1>1, Disjoint DEF IInv, SubmittedIsHead, Ended
  <2> QED
    BY <2>1, <2>2 DEF Rank
<1>4. ASSUME NEW n \in {"MPAS2", "UPP1", "UPP2"} PROVE st[<<runs, n>>] \in Ended
  <2>1. Rank[n] < Rank["TCTL"] /\ Rank[n] \in 5..9
    BY DEF Rank
  <2>2. st[<<runs, n>>] \in Ended \cup {"unsubmitted"}
    BY <1>1, <2>1 DEF IInv, InOrder, Ended
  <2>3. Rank[n] <= 10 - Len(todo) /\ Rank[n] >= First(runs)
    BY <1>2, <1>3, <2>1
  <2>4. st[<<runs, n>>] # "unsubmitted"
    BY <1>1, <2>3 DEF IInv, SubmittedIsHead
  <2> QED
    BY <2>2, <2>4
<1>5. kind[runs] = "start"
  BY <1>1, <1>2, <1>4, Disjoint DEF PInv, RestartIsCut
<1>6. Posted(States, files[dateOf[runs]], HitSet)
  BY <1>1, <1>5 DEF PInv, ChainIsSound, Sound
<1>7. PICK n \in {"UPP1", "UPP2"} : n \notin HitSet
  BY NotExcused
<1>8. Fine(States, HitSet, n)
  BY <1>1, <1>4, <1>7 DEF Fine, Over, States
<1> QED
  BY <1>6, <1>8 DEF Posted

(* What toctl.mpas.sh announces is whole: when the last job of the latest  *)
(* chain has ended and no script was run over a live queue, both GRIB      *)
(* products of the cycle are good, unless the faults were among those that *)
(* the second jobs do not make up for (Excused).                           *)
THEOREM PublishedProductsAreComplete == Spec => []PublishedIsComplete
<1>1. Init => IInv /\ DataType /\ PInv
  BY InitIInv, InitPInv, CycleFilesFacts DEF Init, DataType
<1>2. (IInv /\ DataType /\ PInv) /\ [Next]_vars => (IInv /\ DataType /\ PInv)'
  BY NextIInv, NextData, NextPInv
<1>3. IInv /\ DataType /\ PInv => PublishedIsComplete
  BY Published
<1> QED
  BY <1>1, <1>2, <1>3, PTL DEF Spec

(* restart.mpas calls sbatch without --parsable for the first job and      *)
(* gives its answer, a sentence, as the number the second depends on: of   *)
(* the jobs of such a chain none but the first is ever accepted, whatever  *)
(* the queue does and even if no command fails.                            *)
THEOREM RestartSubmitsOneJob == Spec => []RestartIsCut
<1>1. Init => IInv /\ RestartIsCut
  BY InitIInv, InitPInv DEF PInv
<1>2. (IInv /\ RestartIsCut) /\ [Next]_vars => (IInv /\ RestartIsCut)'
  BY NextIInv, CutStep
<1> QED
  BY <1>1, <1>2, PTL DEF Spec
=============================================================================
