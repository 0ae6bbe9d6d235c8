---------------------------- MODULE AtmCore_proofs -----------------------------
(***************************************************************************)
(* Proofs about the run loop of the atmosphere core, for every horizon,    *)
(* all intervals and any number of failures.                               *)
(***************************************************************************)
EXTENDS AtmCore, TLAPS

(* The output alarm of stream x, in general. *)
Sound(a, x) ==
  /\ a \in AlarmType
  /\ a.recurring /\ a.isSet
  /\ a.interval = IntervalOf(x)

LEMMA Intervals ==
  ASSUME NEW x \in StreamNames
  PROVE  IntervalOf(x) \in Nat /\ IntervalOf(x) > 0
BY AtmCoreAssumption DEF StreamNames, IntervalOf

LEMMA RingingMeans ==
  ASSUME NEW x \in StreamNames, NEW a, Sound(a, x), NEW now \in Int
  PROVE  IsRinging("forward", now, a, 0) <=> a.prev + IntervalOf(x) <= now
<1>1. a.prev \in Int /\ a.recurring /\ a.isSet /\ a.interval = IntervalOf(x)
  BY DEF Sound, AlarmType
<1>2. Threshold("forward", a) = a.prev + IntervalOf(x)
  BY <1>1 DEF Threshold, NextRingTime, Ahead
<1>3. Ahead("forward", now, 0) = now
  BY DEF Ahead
<1>4. QED
  BY <1>1, <1>2, <1>3 DEF IsRinging, InRingingEnvelope, Reached

LEMMA AddedAlarmSound ==
  ASSUME NEW x \in StreamNames, NEW s \in Int
  PROVE  Sound(AddedAlarm(x, s), x) /\ AddedAlarm(x, s).prev = s - IntervalOf(x)
<1> DEFINE I == IntervalOf(x)
           a == [recurring |-> TRUE, isSet |-> TRUE, ringTime |-> s,
                 interval |-> I, prev |-> s - I]
<1>1. I \in Nat /\ I > 0
  BY Intervals
<1>2. NewAlarm("forward", s, I) = a
  BY <1>1 DEF NewAlarm, Ahead
<1>3. DivisionRemainder(s - s, I) = 0
  BY <1>1 DEF DivisionRemainder
<1>4. AddedAlarm(x, s) = a
  <2>1. a.recurring /\ ~ (s > s) /\ a.interval = I
    OBVIOUS
  <2>2. AdjustAlarm("forward", s, s, a) = [a EXCEPT !.prev = s - (I - 0)]
    BY <1>3, <2>1 DEF AdjustAlarm
  <2>3. s - (I - 0) = a.prev
    BY <1>1
  <2>4. [a EXCEPT !.prev = a.prev] = a
    OBVIOUS
  <2>5. QED
    BY <1>2, <2>2, <2>3, <2>4 DEF AddedAlarm
<1>5. a \in AlarmType
  BY <1>1 DEF AlarmType
<1>6. QED
  BY <1>4, <1>5 DEF Sound

(* Once silenced, an alarm next rings after the time it was silenced at. *)
LEMMA SilencedSound ==
  ASSUME NEW x \in StreamNames, NEW a, Sound(a, x), NEW now \in Int
  PROVE  /\ Sound(Silenced(a, now), x)
         /\ Silenced(a, now).prev + IntervalOf(x) > now
         /\ Silenced(a, now).prev >= a.prev
<1> DEFINE I == IntervalOf(x)
<1>1. I \in Nat /\ I > 0
  BY Intervals
<1>2. a \in AlarmType /\ a.recurring /\ a.isSet /\ a.interval = I /\ a.prev \in Int
  BY DEF Sound, AlarmType
<1>3. CASE ~ IsRinging("forward", now, a, 0)
  <2>1. Silenced(a, now) = a
    BY <1>3 DEF Silenced
  <2>2. QED
    BY <1>1, <1>2, <1>3, <2>1, RingingMeans
<1>4. CASE IsRinging("forward", now, a, 0)
  <2>1. a.prev + I <= now
    BY <1>4, RingingMeans
  <2>2. Ahead("forward", now, 0) = now
    BY DEF Ahead
  <2>3. Silenced(a, now) = [a EXCEPT !.prev = RingTimeWithin("forward", now, a)]
    BY <1>2, <1>4, <2>2 DEF Silenced, ResetAlarm, IsRinging
  <2>4. DivisionRemainder(now - a.prev, I) \in 0..(I - 1)
    <3>1. ~ (now - a.prev < I) /\ now - a.prev \in Int
      BY <1>1, <1>2, <2>1
    <3>2. DivisionRemainder(now - a.prev, I) = (now - a.prev) % I
      BY <1>1, <3>1 DEF DivisionRemainder
    <3>3. (now - a.prev) % I \in 0..(I - 1)
      BY <1>1, <3>1
    <3>4. QED
      BY <3>2, <3>3
  <2>5. RingTimeWithin("forward", now, a) = now - DivisionRemainder(now - a.prev, I)
    BY <1>2 DEF RingTimeWithin
  <2>6. RingTimeWithin("forward", now, a) \in Int /\ RingTimeWithin("forward", now, a) + I > now
    BY <1>1, <2>4, <2>5
  <2>7. Silenced(a, now) \in AlarmType
    BY <1>2, <2>3, <2>6 DEF AlarmType
  <2>8. /\ Silenced(a, now).recurring = a.recurring
        /\ Silenced(a, now).isSet = a.isSet
        /\ Silenced(a, now).interval = a.interval
        /\ Silenced(a, now).prev = RingTimeWithin("forward", now, a)
    BY <1>2, <2>3 DEF AlarmType
  <2>9. Silenced(a, now).prev >= a.prev
    BY <1>1, <1>2, <2>1, <2>6, <2>8
  <2>10. QED
    BY <1>2, <2>6, <2>7, <2>8, <2>9 DEF Sound
<1>5. QED
  BY <1>3, <1>4
--------------------------------------------------------------------------------
States == {"absent", "partial", "whole"}

(* An alarm of a living attempt next rings after the time in               *)
(* restart_timestamp.                                                      *)
AheadOfStamp ==
  pc # "down" => \A x \in StreamNames, s \in stamp : alarm[x].prev + IntervalOf(x) > s

WritingDue == pc = "writing" => at <= Len(StreamOrder) /\ Ringing(Stream)

(* A restart that was due has been written once its turn is over, unless   *)
(* an error is going to be returned.                                       *)
RestartWritten ==
  Rewrites =>
    /\ ierr # "clobber"
    /\ pc \in {"output", "writing"} /\ at > 1 /\ ierr = "noerr" /\ Ringing("restart")
         => disk["restart"][clock] = "whole"
    /\ pc = "stamping" => disk["restart"][clock] = "whole"

StampSingle == \A s, t \in stamp : s = t

IInv == TypeOK /\ StampSingle /\ AheadOfStamp /\ WritingDue /\ RestartWritten /\ StampIsSound

LEMMA Order ==
  /\ Len(StreamOrder) = 2
  /\ StreamOrder[1] = "restart" /\ StreamOrder[2] = "output"
BY DEF StreamOrder

LEMMA StreamAt ==
  ASSUME at \in 1..2
  PROVE  Stream \in StreamNames /\ (at = 1 <=> Stream = "restart")
BY Order DEF Stream, StreamNames

LEMMA AlarmsSound ==
  ASSUME TypeOK, NEW x \in StreamNames
  PROVE  /\ Sound(alarm[x], x)
         /\ Ringing(x) <=> alarm[x].prev + IntervalOf(x) <= clock
<1>1. Sound(alarm[x], x)
  BY DEF TypeOK, Sound
<1>2. clock \in Int
  BY AtmCoreAssumption DEF TypeOK, Times
<1>3. QED
  BY <1>1, <1>2, RingingMeans DEF Ringing

(* A file is only touched at a time after the one in restart_timestamp. *)
LEMMA TouchesAhead ==
  ASSUME IInv, (Due /\ ~ Refused) \/ pc = "writing"
  PROVE  /\ at \in 1..2 /\ Stream \in StreamNames /\ Ringing(Stream)
         /\ \A s \in stamp : clock > s
<1>1. at \in 1..2 /\ Ringing(Stream) /\ pc # "down"
  BY Order DEF IInv, TypeOK, WritingDue, Due
<1>2. Stream \in StreamNames
  BY <1>1, StreamAt
<1>3. alarm[Stream].prev + IntervalOf(Stream) <= clock
  BY <1>1, <1>2, AlarmsSound DEF IInv
<1>4. \A s \in stamp : alarm[Stream].prev + IntervalOf(Stream) > s
  BY <1>1, <1>2 DEF IInv, AheadOfStamp
<1>5. alarm[Stream].prev + IntervalOf(Stream) \in Int
  BY <1>2, Intervals DEF IInv, TypeOK, AlarmType
<1>6. QED
  BY <1>1, <1>2, <1>3, <1>4, <1>5, AtmCoreAssumption DEF IInv, TypeOK, Times

LEMMA TouchKeeps ==
  ASSUME IInv, (Due /\ ~ Refused) \/ pc = "writing",
         NEW v \in States,
         disk' = disk \/ disk' = [disk EXCEPT ![Stream][clock] = v],
         UNCHANGED <<stamp, mode>>
  PROVE  /\ disk' \in [StreamNames -> [Times -> States]]
         /\ StampIsSound'
<1>1. Stream \in StreamNames /\ clock \in Times /\ (\A s \in stamp : clock # s)
  <2>1. \A s \in stamp : clock > s
    BY TouchesAhead
  <2>2. \A s \in stamp : s \in Int
    BY AtmCoreAssumption DEF IInv, TypeOK, Times
  <2>3. QED
    BY <2>1, <2>2, TouchesAhead, AtmCoreAssumption DEF IInv, TypeOK, Times
<1>2. disk \in [StreamNames -> [Times -> States]]
  BY DEF IInv, TypeOK, States
<1>3. disk' \in [StreamNames -> [Times -> States]]
  BY <1>1, <1>2
<1>4. "restart" \in StreamNames /\ stamp \subseteq Times
  BY DEF StreamNames, IInv, TypeOK
<1>5. \A s \in stamp : disk'["restart"][s] = disk["restart"][s]
  BY <1>1, <1>2, <1>4
<1>6. StampIsSound'
  BY <1>5 DEF IInv, StampIsSound, StampNamesWholeRestart, Rewrites
<1>7. QED
  BY <1>3, <1>6
--------------------------------------------------------------------------------
LEMMA InitEstablishes == ASSUME Init PROVE IInv
<1>1. 0 \in Times
  BY AtmCoreAssumption DEF Times
<1>2. \A x \in StreamNames : Sound(AddedAlarm(x, 0), x)
  BY AddedAlarmSound
<1>3. /\ alarm \in [StreamNames -> AlarmType]
      /\ \A x \in StreamNames : alarm[x].recurring /\ alarm[x].isSet
                             /\ alarm[x].interval = IntervalOf(x)
  BY <1>2 DEF Init, Sound
<1>4. 0 \in 0..MaxFailures /\ 1 \in 1..Len(StreamOrder) + 1
  BY AtmCoreAssumption, Order
<1>5. disk \in [StreamNames -> [Times -> {"absent", "partial", "whole"}]]
  BY DEF Init
<1>6. TypeOK
  BY <1>1, <1>3, <1>4, <1>5 DEF Init, TypeOK
<1>7. StampSingle /\ AheadOfStamp /\ WritingDue /\ RestartWritten /\ StampIsSound
  BY DEF Init, StampSingle, AheadOfStamp, WritingDue, RestartWritten, StampIsSound, StampNamesWholeRestart
<1>8. QED
  BY <1>6, <1>7 DEF IInv

(* A launched attempt has its alarms ahead of the time it resumed from. *)
LEMMA BeginKeeps ==
  ASSUME IInv, NEW s \in Times, NEW doRestart \in BOOLEAN, Begin(s, doRestart),
         resumed' \subseteq Times,
         stamp = {} \/ (doRestart /\ \A t \in stamp : t = s)
  PROVE  IInv'
<1>1. s \in Int
  BY AtmCoreAssumption DEF Times
<1>2. \A x \in StreamNames : Sound(AddedAlarm(x, s), x) /\ AddedAlarm(x, s).prev = s - IntervalOf(x)
  BY <1>1, AddedAlarmSound
<1>3. \A x \in StreamNames :
        /\ Sound(Silenced(AddedAlarm(x, s), s), x)
        /\ Silenced(AddedAlarm(x, s), s).prev + IntervalOf(x) > s
  BY <1>1, <1>2, SilencedSound
<1>4. \A x \in StreamNames : Sound(alarm'[x], x)
  BY <1>2, <1>3 DEF Begin, InitialAlarm
<1>5. /\ alarm' \in [StreamNames -> AlarmType]
      /\ \A x \in StreamNames : alarm'[x].recurring /\ alarm'[x].isSet
                             /\ alarm'[x].interval = IntervalOf(x)
  BY <1>4 DEF Begin, Sound
<1>6. /\ pc' = "output" /\ clock' = s /\ start' = s /\ at' = 1 /\ ierr' = "noerr"
      /\ UNCHANGED <<mode, disk, stamp, failures>>
  BY DEF Begin, files
<1>7. 1 \in 1..Len(StreamOrder) + 1
  BY Order
<1>8. TypeOK'
  BY <1>5, <1>6, <1>7 DEF IInv, TypeOK
<1>9. AheadOfStamp'
  <2>1. CASE stamp = {}
    BY <1>6, <2>1 DEF AheadOfStamp
  <2>2. CASE doRestart /\ \A t \in stamp : t = s
    BY <1>3, <1>6, <2>2 DEF AheadOfStamp, Begin, InitialAlarm
  <2>3. QED
    BY <2>1, <2>2
<1>10. WritingDue' /\ RestartWritten'
  BY <1>6 DEF WritingDue, RestartWritten
<1>11. StampSingle' /\ StampIsSound'
  BY <1>6 DEF IInv, StampSingle, StampIsSound, StampNamesWholeRestart, Rewrites
<1>12. QED
  BY <1>8, <1>9, <1>10, <1>11 DEF IInv

LEMMA LaunchKeeps ==
  ASSUME IInv, LaunchCold \/ LaunchFromStamp
  PROVE  IInv'
<1>1. CASE LaunchCold
  <2>1. stamp = {} /\ Begin(0, FALSE) /\ resumed' = resumed
    BY <1>1 DEF LaunchCold
  <2>2. 0 \in Times /\ resumed' \subseteq Times
    BY <2>1, AtmCoreAssumption DEF IInv, TypeOK, Times
  <2>3. QED
    BY <2>1, <2>2, BeginKeeps
<1>2. CASE LaunchFromStamp
  <2>1. PICK s \in stamp : Begin(s, TRUE) /\ resumed' = resumed \cup {s}
    BY <1>2 DEF LaunchFromStamp
  <2>2. s \in Times /\ resumed' \subseteq Times
    BY <2>1 DEF IInv, TypeOK
  <2>3. \A t \in stamp : t = s
    BY <2>1 DEF IInv, StampSingle
  <2>4. QED
    BY <2>1, <2>2, <2>3, BeginKeeps
<1>3. QED
  BY <1>1, <1>2

LEMMA SkipKeeps ==
  ASSUME IInv, SkipStream \/ RefuseStream
  PROVE  IInv'
<1>1. at \in 1..2 /\ at' = at + 1 /\ pc = "output" /\ pc' = "output"
  BY Order DEF IInv, TypeOK, SkipStream, RefuseStream, Due
<1>2. UNCHANGED <<mode, disk, stamp, clock, start, alarm, failures, resumed>>
  BY DEF SkipStream, RefuseStream, files
<1>3. ierr' = ierr \/ ierr' = "clobber"
  BY DEF SkipStream, RefuseStream
<1>4. at' \in 1..Len(StreamOrder) + 1
  BY <1>1, Order
<1>5. TypeOK'
  BY <1>1, <1>2, <1>3, <1>4 DEF IInv, TypeOK
<1>6. StampSingle' /\ AheadOfStamp' /\ WritingDue' /\ StampIsSound'
  BY <1>1, <1>2 DEF IInv, StampSingle, AheadOfStamp, WritingDue, StampIsSound, StampNamesWholeRestart, Rewrites
<1>7. RestartWritten'
  <2>1. SUFFICES ASSUME Rewrites PROVE RestartWritten'
    BY <1>2 DEF RestartWritten, Rewrites
  <2>2. SkipStream
    BY <1>1, <2>1, StreamAt DEF RefuseStream, Refused, Rewrites
  <2>3. ierr' = ierr
    BY <2>2 DEF SkipStream
  <2>4. CASE at = 1
    BY <1>1, <1>2, <2>1, <2>2, <2>3, <2>4, StreamAt DEF SkipStream, RestartWritten, IInv, Ringing, Rewrites
  <2>5. CASE at > 1
    BY <1>1, <1>2, <2>1, <2>3, <2>5 DEF RestartWritten, IInv, Ringing, Rewrites
  <2>6. QED
    BY <1>1, <2>4, <2>5
<1>8. QED
  BY <1>5, <1>6, <1>7 DEF IInv

LEMMA OpenKeeps ==
  ASSUME IInv, OpenStream
  PROVE  IInv'
<1>1. /\ pc = "output" /\ pc' = "writing" /\ Due /\ ~ Refused
      /\ disk' = disk \/ disk' = [disk EXCEPT ![Stream][clock] = "partial"]
      /\ UNCHANGED <<mode, stamp, clock, start, alarm, at, ierr, failures, resumed>>
  BY DEF OpenStream, Due
<1>2. at \in 1..2 /\ Stream \in StreamNames /\ Ringing(Stream)
  BY <1>1, TouchesAhead
<1>3. disk' \in [StreamNames -> [Times -> States]] /\ StampIsSound'
  BY <1>1, TouchKeeps DEF States
<1>4. TypeOK'
  BY <1>1, <1>3 DEF IInv, TypeOK, States
<1>5. StampSingle' /\ AheadOfStamp'
  BY <1>1 DEF IInv, StampSingle, AheadOfStamp
<1>6. WritingDue'
  BY <1>1, <1>2, Order DEF WritingDue, Ringing, Stream
<1>7. RestartWritten'
  <2>1. ASSUME at > 1 PROVE disk'["restart"] = disk["restart"]
    BY <1>1, <1>2, <2>1, StreamAt DEF IInv, TypeOK, StreamNames
  <2>2. QED
    BY <1>1, <2>1 DEF IInv, RestartWritten, Rewrites, Ringing
<1>8. QED
  BY <1>3, <1>4, <1>5, <1>6, <1>7 DEF IInv

LEMMA CloseKeeps ==
  ASSUME IInv, CloseStream
  PROVE  IInv'
<1>1. /\ pc = "writing" /\ pc' = "output" /\ at' = at + 1
      /\ disk' = [disk EXCEPT ![Stream][clock] = "whole"]
      /\ UNCHANGED <<mode, stamp, clock, start, alarm, ierr, failures, resumed>>
  BY DEF CloseStream
<1>2. at \in 1..2 /\ Stream \in StreamNames /\ Ringing(Stream)
  BY <1>1, TouchesAhead
<1>3. disk' \in [StreamNames -> [Times -> States]] /\ StampIsSound'
  BY <1>1, TouchKeeps DEF States
<1>4. at' \in 1..Len(StreamOrder) + 1
  BY <1>1, <1>2, Order
<1>5. TypeOK'
  BY <1>1, <1>3, <1>4 DEF IInv, TypeOK, States
<1>6. StampSingle' /\ AheadOfStamp' /\ WritingDue'
  BY <1>1 DEF IInv, StampSingle, AheadOfStamp, WritingDue
<1>7. RestartWritten'
  <2>1. disk \in [StreamNames -> [Times -> States]] /\ clock \in Times
    BY DEF IInv, TypeOK, States
  <2>2. ASSUME at = 1 PROVE disk'["restart"][clock] = "whole"
    BY <1>1, <1>2, <2>1, <2>2, StreamAt
  <2>3. ASSUME at > 1 PROVE disk'["restart"] = disk["restart"]
    BY <1>1, <1>2, <2>1, <2>3, StreamAt DEF StreamNames
  <2>4. QED
    BY <1>1, <1>2, <2>2, <2>3 DEF IInv, RestartWritten, Rewrites, Ringing
<1>8. QED
  BY <1>3, <1>5, <1>6, <1>7 DEF IInv

LEMMA FailKeeps ==
  ASSUME IInv, FailStream
  PROVE  IInv'
<1>1. /\ (Due /\ ~ Refused) \/ pc = "writing"
      /\ disk' = disk \/ disk' = [disk EXCEPT ![Stream][clock] = "partial"]
      /\ ierr' = "error" /\ pc' = "output" /\ at' = at + 1
      /\ failures' = failures + 1 /\ failures < MaxFailures
      /\ UNCHANGED <<mode, stamp, clock, start, alarm, resumed>>
  BY DEF FailStream
<1>2. at \in 1..2 /\ pc # "down"
  BY <1>1, TouchesAhead DEF Due
<1>3. disk' \in [StreamNames -> [Times -> States]] /\ StampIsSound'
  BY <1>1, TouchKeeps DEF States
<1>4. at' \in 1..Len(StreamOrder) + 1 /\ failures' \in 0..MaxFailures
  BY <1>1, <1>2, Order, AtmCoreAssumption DEF IInv, TypeOK
<1>5. TypeOK'
  BY <1>1, <1>3, <1>4 DEF IInv, TypeOK, States
<1>6. StampSingle' /\ AheadOfStamp' /\ WritingDue' /\ RestartWritten'
  BY <1>1, <1>2 DEF IInv, StampSingle, AheadOfStamp, WritingDue, RestartWritten
<1>7. QED
  BY <1>3, <1>5, <1>6 DEF IInv

LEMMA CrashKeeps ==
  ASSUME IInv, Crash
  PROVE  IInv'
<1>1. /\ pc' = "down" /\ failures' = failures + 1 /\ failures < MaxFailures
      /\ UNCHANGED <<mode, stamp, clock, start, alarm, at, ierr, resumed>>
      /\ disk' = disk \/ (pc = "writing" /\ disk' = [disk EXCEPT ![Stream][clock] = "partial"])
  BY DEF Crash
<1>2. disk' \in [StreamNames -> [Times -> States]] /\ StampIsSound'
  <2>1. CASE disk' = disk
    BY <1>1, <2>1 DEF IInv, TypeOK, States, StampIsSound, StampNamesWholeRestart, Rewrites
  <2>2. CASE pc = "writing" /\ disk' = [disk EXCEPT ![Stream][clock] = "partial"]
    BY <1>1, <2>2, TouchKeeps DEF States
  <2>3. QED
    BY <1>1, <2>1, <2>2
<1>3. failures' \in 0..MaxFailures
  BY <1>1, AtmCoreAssumption DEF IInv, TypeOK
<1>4. TypeOK'
  BY <1>1, <1>2, <1>3 DEF IInv, TypeOK, States
<1>5. StampSingle' /\ AheadOfStamp' /\ WritingDue' /\ RestartWritten'
  BY <1>1 DEF IInv, StampSingle, AheadOfStamp, WritingDue, RestartWritten, Rewrites
<1>6. QED
  BY <1>2, <1>4, <1>5 DEF IInv
LEMMA ResetKeeps ==
  ASSUME TypeOK, ResetAlarms
  PROVE  /\ alarm' \in [StreamNames -> AlarmType]
         /\ \A x \in StreamNames :
              /\ alarm'[x].recurring /\ alarm'[x].isSet /\ alarm'[x].interval = IntervalOf(x)
              /\ alarm'[x].prev + IntervalOf(x) > clock
              /\ alarm'[x].prev >= alarm[x].prev
<1>1. clock \in Int
  BY AtmCoreAssumption DEF TypeOK, Times
<1>2. \A x \in StreamNames :
        /\ Sound(Silenced(alarm[x], clock), x)
        /\ Silenced(alarm[x], clock).prev + IntervalOf(x) > clock
        /\ Silenced(alarm[x], clock).prev >= alarm[x].prev
  BY <1>1, AlarmsSound, SilencedSound
<1>3. QED
  BY <1>2 DEF ResetAlarms, Sound

LEMMA NoStampKeeps ==
  ASSUME IInv, NoStamp
  PROVE  IInv'
<1>1. /\ pc = "output" /\ pc' = "stepping" /\ ResetAlarms
      /\ UNCHANGED <<mode, disk, stamp, clock, start, at, ierr, failures, resumed>>
  BY DEF NoStamp, Written, files
<1>2. TypeOK'
  BY <1>1, ResetKeeps DEF IInv, TypeOK
<1>3. AheadOfStamp'
  <2>1. SUFFICES ASSUME NEW x \in StreamNames, NEW s \in stamp
                 PROVE  alarm'[x].prev + IntervalOf(x) > s
    BY <1>1 DEF AheadOfStamp
  <2>2. alarm[x].prev + IntervalOf(x) > s
    BY <1>1 DEF IInv, AheadOfStamp
  <2>3. alarm'[x].prev >= alarm[x].prev
    BY <1>1, ResetKeeps DEF IInv
  <2>4. alarm[x].prev \in Int /\ alarm'[x].prev \in Int /\ IntervalOf(x) \in Int /\ s \in Int
    BY <1>2, Intervals, AtmCoreAssumption DEF IInv, TypeOK, AlarmType, Times
  <2>5. QED
    BY <2>2, <2>3, <2>4
<1>4. StampSingle' /\ WritingDue' /\ RestartWritten' /\ StampIsSound'
  BY <1>1 DEF IInv, StampSingle, WritingDue, RestartWritten, StampIsSound, StampNamesWholeRestart, Rewrites
<1>5. QED
  BY <1>2, <1>3, <1>4 DEF IInv

LEMMA StampKeeps ==
  ASSUME IInv, OpenStamp \/ WriteStamp
  PROVE  IInv'
<1>1. CASE OpenStamp
  <2>1. /\ pc = "output" /\ at > 2 /\ pc' = "stamping" /\ ierr # "error" /\ Ringing("restart")
        /\ stamp' = {}
        /\ UNCHANGED <<mode, disk, clock, start, alarm, at, ierr, failures, resumed>>
    BY <1>1, Order DEF OpenStamp, Written, StampDue
  <2>2. TypeOK'
    BY <2>1 DEF IInv, TypeOK
  <2>3. StampSingle' /\ AheadOfStamp' /\ WritingDue' /\ StampIsSound'
    BY <2>1 DEF StampSingle, AheadOfStamp, WritingDue, StampIsSound, StampNamesWholeRestart
  <2>4. ierr \in {"noerr", "clobber", "error"} /\ at \in Int
    BY DEF IInv, TypeOK
  <2>5. RestartWritten'
    BY <2>1, <2>4 DEF IInv, RestartWritten, Rewrites
  <2>6. QED
    BY <2>2, <2>3, <2>5 DEF IInv
<1>2. CASE WriteStamp
  <2>1. /\ pc = "stamping" /\ pc' = "stepping" /\ stamp' = {clock} /\ ResetAlarms
        /\ UNCHANGED <<mode, disk, clock, start, at, ierr, failures, resumed>>
    BY <1>2 DEF WriteStamp
  <2>2. TypeOK'
    BY <2>1, ResetKeeps DEF IInv, TypeOK
  <2>3. AheadOfStamp'
    BY <2>1, ResetKeeps DEF IInv, AheadOfStamp
  <2>4. StampSingle' /\ WritingDue' /\ RestartWritten'
    BY <2>1 DEF IInv, StampSingle, WritingDue, RestartWritten, Rewrites
  <2>5. StampIsSound'
    BY <2>1 DEF IInv, RestartWritten, StampIsSound, StampNamesWholeRestart, Rewrites
  <2>6. QED
    BY <2>2, <2>3, <2>4, <2>5 DEF IInv
<1>3. QED
  BY <1>1, <1>2

LEMMA StepKeeps ==
  ASSUME IInv, Step
  PROVE  IInv'
<1>1. /\ pc = "stepping" /\ clock < Horizon
      /\ clock' = clock + 1 /\ pc' = "output" /\ at' = 1 /\ ierr' = "noerr"
      /\ UNCHANGED <<mode, disk, stamp, start, alarm, failures, resumed>>
  BY DEF Step, files
<1>2. clock' \in Times /\ at' \in 1..Len(StreamOrder) + 1
  BY <1>1, Order, AtmCoreAssumption DEF IInv, TypeOK, Times
<1>3. TypeOK'
  BY <1>1, <1>2 DEF IInv, TypeOK
<1>4. StampSingle' /\ AheadOfStamp' /\ WritingDue' /\ RestartWritten'
  BY <1>1 DEF IInv, StampSingle, AheadOfStamp, WritingDue, RestartWritten
<1>5. StampIsSound'
  BY <1>1 DEF IInv, StampIsSound, StampNamesWholeRestart, Rewrites
<1>6. QED
  BY <1>3, <1>4, <1>5 DEF IInv

LEMMA StopKeeps ==
  ASSUME IInv, Abort \/ Finish
  PROVE  IInv'
<1>1. /\ pc' \in {"down", "finished"} /\ pc # "down"
      /\ UNCHANGED <<mode, disk, stamp, clock, start, alarm, at, ierr, failures, resumed>>
  BY DEF Abort, Finish, Written, files
<1>2. TypeOK'
  BY <1>1 DEF IInv, TypeOK
<1>3. StampSingle' /\ AheadOfStamp' /\ WritingDue' /\ RestartWritten' /\ StampIsSound'
  BY <1>1 DEF IInv, StampSingle, AheadOfStamp, WritingDue, RestartWritten, StampIsSound,
              StampNamesWholeRestart, Rewrites
<1>4. QED
  BY <1>2, <1>3 DEF IInv

LEMMA NextKeeps ==
  ASSUME IInv, [Next]_vars
  PROVE  IInv'
<1>1. CASE LaunchCold \/ LaunchFromStamp
  BY <1>1, LaunchKeeps
<1>2. CASE SkipStream \/ RefuseStream
  BY <1>2, SkipKeeps
<1>3. CASE OpenStream
  BY <1>3, OpenKeeps
<1>4. CASE CloseStream
  BY <1>4, CloseKeeps
<1>5. CASE FailStream
  BY <1>5, FailKeeps
<1>6. CASE Abort \/ Finish
  BY <1>6, StopKeeps
<1>7. CASE OpenStamp \/ WriteStamp
  BY <1>7, StampKeeps
<1>8. CASE NoStamp
  BY <1>8, NoStampKeeps
<1>9. CASE Step
  BY <1>9, StepKeeps
<1>10. CASE Crash
  BY <1>10, CrashKeeps
<1>11. CASE UNCHANGED vars
  <2>1. UNCHANGED <<mode, disk, stamp, pc, clock, start, alarm, at, ierr, failures, resumed>>
    BY <1>11 DEF vars, files, process
  <2>2. QED
    BY <2>1 DEF IInv, TypeOK, StampSingle, AheadOfStamp, WritingDue, RestartWritten, StampIsSound,
                StampNamesWholeRestart, Rewrites, Ringing, Stream
<1>12. QED
  BY <1>1, <1>2, <1>3, <1>4, <1>5, <1>6, <1>7, <1>8, <1>9, <1>10, <1>11 DEF Next, Proceed

\* The inductive invariant: the time loop of the core keeps it through writes,
\* errors, crashes and new attempts.
THEOREM Invariance == Spec => []IInv
<1>1. Init => IInv
  BY InitEstablishes
<1>2. IInv /\ [Next]_vars => IInv'
  BY NextKeeps
<1>3. QED
  BY <1>1, <1>2, PTL DEF Spec

(* Type correctness of the run loop (atm_core_run) over all attempts.      *)
THEOREM AtmCoreTypeCorrect == Spec => []TypeOK
<1>1. IInv => TypeOK
  BY DEF IInv
<1>2. QED
  BY <1>1, Invariance, PTL

(* Where no stream refuses to replace a file, restart_timestamp only names *)
(* a whole restart file (mpas_atm_core.F:887), whatever crashed when.      *)
THEOREM TimestampIsSound == Spec => []StampIsSound
<1>1. IInv => StampIsSound
  BY DEF IInv
<1>2. QED
  BY <1>1, Invariance, PTL
--------------------------------------------------------------------------------
LEMMA TouchKeepsPast ==
  ASSUME IInv, (Due /\ ~ Refused) \/ pc = "writing",
         NEW v, disk' = [disk EXCEPT ![Stream][clock] = v],
         NEW s \in stamp, NEW x \in StreamNames, NEW t \in 0..s
  PROVE  disk'[x][t] = disk[x][t]
<1>1. clock > s /\ Stream \in StreamNames
  BY TouchesAhead
<1>2. s \in Times /\ clock \in Times /\ disk \in [StreamNames -> [Times -> States]]
  BY DEF IInv, TypeOK, States
<1>3. t \in Times /\ t # clock
  BY <1>1, <1>2, AtmCoreAssumption DEF Times
<1>4. QED
  BY <1>1, <1>2, <1>3

LEMMA StepKeepsPast ==
  ASSUME IInv, [Next]_vars, NEW s \in stamp, NEW x \in StreamNames, NEW t \in 0..s
  PROVE  disk'[x][t] = disk[x][t]
<1>1. CASE disk' = disk
  BY <1>1
<1>2. CASE OpenStream
  BY <1>1, <1>2, TouchKeepsPast DEF OpenStream
<1>3. CASE CloseStream
  BY <1>3, TouchKeepsPast DEF CloseStream
<1>4. CASE FailStream
  BY <1>1, <1>4, TouchKeepsPast DEF FailStream
<1>5. CASE Crash
  BY <1>1, <1>5, TouchKeepsPast DEF Crash
<1>6. CASE Proceed /\ ~ OpenStream /\ ~ CloseStream
  BY <1>1, <1>6 DEF Proceed, LaunchCold, LaunchFromStamp, Begin, SkipStream, RefuseStream,
                    Abort, OpenStamp, WriteStamp, NoStamp, Step, Finish, files
<1>7. CASE UNCHANGED vars
  BY <1>1, <1>7 DEF vars, files
<1>8. QED
  BY <1>2, <1>3, <1>4, <1>5, <1>6, <1>7 DEF Next

(* A resumed attempt leaves the files of its predecessors alone: no step   *)
(* touches a file of a time up to the one in restart_timestamp.            *)
THEOREM PastFilesAreKept == Spec => PastIsKept
<1>1. IInv /\ [Next]_vars =>
        [\A s \in stamp, x \in StreamNames : \A t \in 0..s : disk'[x][t] = disk[x][t]]_vars
  BY StepKeepsPast
<1>2. QED
  BY <1>1, Invariance, PTL DEF Spec, PastIsKept
--------------------------------------------------------------------------------
(* Completeness: the files of all times that the alarms have passed.       *)

(* Output of time 0 is written, a restart file of time 0 is not.           *)
Wanted(x, t) ==
  /\ t % IntervalOf(x) = 0
  /\ IF x = "restart" THEN t > 0 ELSE t \notin resumed

Done(x, h) == \A t \in Times : t <= h /\ Wanted(x, t) => disk[x][t] = "whole"

(* A living attempt has an alarm on the grid, at most one interval behind  *)
(* the clock, and less than one when output is over.                       *)
OnTime ==
  pc # "down" => \A x \in StreamNames :
    /\ alarm[x].prev % IntervalOf(x) = 0
    /\ alarm[x].prev + IntervalOf(x) >= clock
    /\ pc \in {"stepping", "finished"} => alarm[x].prev + IntervalOf(x) > clock

(* The streams whose turn is over. *)
Passed(x) == pc = "stamping" \/ (pc \in {"output", "writing"} /\ (at > 2 \/ (at = 2 /\ x = "restart")))

DueIsWritten ==
  \A x \in StreamNames :
    Passed(x) /\ Ringing(x) /\ (pc = "stamping" \/ ierr = "noerr") => disk[x][clock] = "whole"

NoClobber == ierr # "clobber"

PassedIsDone ==
  /\ pc # "down" => \A x \in StreamNames : Done(x, alarm[x].prev)
  /\ \A s \in stamp, x \in StreamNames : Done(x, s)
  /\ \A s \in stamp : s % RestartInterval = 0

(* The timestamp is only written when a restart was due, and the loop     *)
(* only left at the stop time.                                             *)
LoopOrder ==
  /\ pc = "stamping" => Ringing("restart")
  /\ pc = "finished" => clock >= Horizon

GInv == Rewrites => OnTime /\ DueIsWritten /\ NoClobber /\ PassedIsDone /\ LoopOrder

Multiple(I, x) == \E k \in Int : x = I * k

LEMMA MultipleIsRemainderFree ==
  ASSUME NEW I \in Nat, I > 0, NEW x \in Int
  PROVE  Multiple(I, x) <=> x % I = 0
<1>1. Multiple(I, x) => x % I = 0
  BY DEF Multiple
<1>2. x % I = 0 => Multiple(I, x)
  BY DEF Multiple
<1>3. QED
  BY <1>1, <1>2

LEMMA NeighbourMultiple ==
  ASSUME NEW I \in Nat, I > 0, NEW x \in Int, x % I = 0
  PROVE  (x + I) % I = 0 /\ (x - I) % I = 0
<1>1. PICK k \in Int : x = I * k
  BY MultipleIsRemainderFree DEF Multiple
<1>2. x + I = I * (k + 1) /\ x - I = I * (k - 1) /\ k + 1 \in Int /\ k - 1 \in Int
  BY <1>1
<1>3. QED
  BY <1>2, MultipleIsRemainderFree DEF Multiple

LEMMA NoMultipleBetween ==
  ASSUME NEW I \in Nat, I > 0, NEW x \in Int, NEW y \in Int,
         x % I = 0, y % I = 0, x < y + I
  PROVE  x <= y
<1>1. PICK j \in Int : x = I * j
  BY MultipleIsRemainderFree DEF Multiple
<1>2. PICK k \in Int : y = I * k
  BY MultipleIsRemainderFree DEF Multiple
<1>3. ASSUME j > k PROVE FALSE
  <2>1. j >= k + 1
    BY <1>3
  <2>2. I * j >= I * (k + 1)
    BY <2>1
  <2>3. I * (k + 1) = I * k + I
    OBVIOUS
  <2>4. QED
    BY <1>1, <1>2, <2>2, <2>3
<1>4. j <= k
  BY <1>3
<1>5. I * j <= I * k
  BY <1>4
<1>6. QED
  BY <1>1, <1>2, <1>5

LEMMA RestartTimesAreOutputTimes ==
  ASSUME NEW s \in Int, s % RestartInterval = 0, NEW x \in StreamNames
  PROVE  s % IntervalOf(x) = 0
<1>1. RestartInterval \in Nat /\ RestartInterval > 0 /\ OutputInterval \in Nat /\ OutputInterval > 0
  BY AtmCoreAssumption
<1>2. PICK j \in Int : s = RestartInterval * j
  BY <1>1, MultipleIsRemainderFree DEF Multiple
<1>3. PICK k \in Int : RestartInterval = OutputInterval * k
  BY <1>1, MultipleIsRemainderFree, AtmCoreAssumption DEF Multiple
<1>4. s = OutputInterval * (k * j) /\ k * j \in Int
  BY <1>1, <1>2, <1>3
<1>5. s % OutputInterval = 0
  BY <1>1, <1>4, MultipleIsRemainderFree DEF Multiple
<1>6. QED
  BY <1>5 DEF IntervalOf

(* An alarm that rings on time has rung now. *)
LEMMA SilencedOnTime ==
  ASSUME NEW x \in StreamNames, NEW a, Sound(a, x), NEW now \in Int,
         a.prev + IntervalOf(x) >= now
  PROVE  Silenced(a, now).prev = IF a.prev + IntervalOf(x) = now THEN now ELSE a.prev
<1> DEFINE I == IntervalOf(x)
<1>1. I \in Nat /\ I > 0
  BY Intervals
<1>2. a \in AlarmType /\ a.recurring /\ a.isSet /\ a.interval = I /\ a.prev \in Int
  BY DEF Sound, AlarmType
<1>3. CASE a.prev + I = now
  <2>1. IsRinging("forward", now, a, 0) /\ Ahead("forward", now, 0) = now
    BY <1>1, <1>2, <1>3, RingingMeans DEF Ahead
  <2>2. Silenced(a, now) = [a EXCEPT !.prev = RingTimeWithin("forward", now, a)]
    BY <1>2, <2>1 DEF Silenced, ResetAlarm, IsRinging
  <2>3. now - a.prev = I /\ I % I = 0
    BY <1>1, <1>2, <1>3
  <2>4. DivisionRemainder(now - a.prev, I) = 0
    BY <1>1, <2>3 DEF DivisionRemainder
  <2>5. RingTimeWithin("forward", now, a) = now
    BY <1>2, <2>4 DEF RingTimeWithin
  <2>6. QED
    BY <1>2, <1>3, <2>2, <2>5 DEF AlarmType
<1>4. CASE a.prev + I # now
  <2>1. ~ IsRinging("forward", now, a, 0)
    BY <1>1, <1>2, <1>4, RingingMeans
  <2>2. QED
    BY <1>4, <2>1 DEF Silenced
<1>5. QED
  BY <1>3, <1>4

LEMMA GridBasics ==
  ASSUME IInv
  PROVE  /\ clock \in Times /\ clock \in Int /\ clock >= 0
         /\ Times \subseteq Int
         /\ disk \in [StreamNames -> [Times -> States]] /\ stamp \subseteq Times
         /\ \A x \in StreamNames :
              /\ Sound(alarm[x], x) /\ alarm[x].prev \in Int
              /\ IntervalOf(x) \in Nat /\ IntervalOf(x) > 0
              /\ Ringing(x) <=> alarm[x].prev + IntervalOf(x) <= clock
<1>1. TypeOK
  BY DEF IInv
<1>2. clock \in Times /\ Horizon \in Nat
  BY <1>1, AtmCoreAssumption DEF TypeOK
<1>3. \A x \in StreamNames : alarm[x].prev \in Int
  BY <1>1 DEF TypeOK, AlarmType
<1>4. QED
  BY <1>1, <1>2, <1>3, AlarmsSound, Intervals DEF TypeOK, Times, States

(* Touching the file of the clock's time leaves what is done done. *)
LEMMA TouchKeepsDone ==
  ASSUME IInv, Rewrites, PassedIsDone, (Due /\ ~ Refused) \/ pc = "writing",
         NEW v \in States,
         disk' = disk \/ disk' = [disk EXCEPT ![Stream][clock] = v],
         UNCHANGED <<stamp, alarm, resumed>>
  PROVE  PassedIsDone'
<1>1. /\ Stream \in StreamNames /\ Ringing(Stream) /\ pc # "down"
      /\ \A s \in stamp : clock > s
  BY TouchesAhead DEF Due
<1>2. alarm[Stream].prev < clock
  BY <1>1, GridBasics
<1>3. ASSUME NEW x \in StreamNames, NEW h \in Int, Done(x, h), x = Stream => h < clock
      PROVE  Done(x, h)'
  <2>1. SUFFICES ASSUME NEW t \in Times, t <= h, Wanted(x, t)
                 PROVE  disk'[x][t] = "whole"
    BY DEF Done, Wanted
  <2>2. disk[x][t] = "whole"
    BY <1>3, <2>1 DEF Done
  <2>3. x = Stream => t # clock
    BY <1>3, <2>1, GridBasics
  <2>4. QED
    BY <1>1, <2>1, <2>2, <2>3, GridBasics
<1>4. \A x \in StreamNames : Done(x, alarm[x].prev)'
  BY <1>1, <1>2, <1>3, GridBasics DEF PassedIsDone, Done
<1>5. \A s \in stamp : s \in Int
  BY GridBasics, AtmCoreAssumption DEF Times
<1>6. \A s \in stamp, x \in StreamNames : Done(x, s)'
  BY <1>1, <1>3, <1>5 DEF PassedIsDone
<1>7. QED
  BY <1>4, <1>6 DEF PassedIsDone, Done

(* Once the alarms are silenced after output, all is done up to now. *)
LEMMA ResetOnTime ==
  ASSUME IInv, GInv, Rewrites, ResetAlarms, UNCHANGED <<disk, resumed, clock>>,
         pc = "stamping" \/ (Written /\ ierr # "error")
  PROVE  \A x \in StreamNames :
           /\ alarm'[x].prev \in Int
           /\ alarm'[x].prev % IntervalOf(x) = 0
           /\ alarm'[x].prev + IntervalOf(x) > clock
           /\ Done(x, alarm[x].prev)'
           /\ Done(x, clock)'
<1>1. TAKE x \in StreamNames
<1> DEFINE I == IntervalOf(x)
           a == alarm[x]
<1>2. /\ Sound(a, x) /\ a.prev \in Int /\ I \in Nat /\ I > 0 /\ clock \in Int /\ clock >= 0
      /\ Ringing(x) <=> a.prev + I <= clock
  BY GridBasics
<1>3. OnTime /\ DueIsWritten /\ NoClobber /\ PassedIsDone
  BY DEF GInv
<1>4. pc # "down" /\ Passed(x) /\ (pc = "stamping" \/ ierr = "noerr")
  BY <1>3, Order DEF Written, Passed, NoClobber, IInv, TypeOK
<1>5. a.prev % I = 0 /\ a.prev + I >= clock /\ Done(x, a.prev)
  BY <1>3, <1>4 DEF OnTime, PassedIsDone
<1>6. alarm'[x] = Silenced(a, clock)
  BY DEF ResetAlarms
<1>7. alarm'[x].prev = IF a.prev + I = clock THEN clock ELSE a.prev
  BY <1>2, <1>5, <1>6, SilencedOnTime
<1>8. a.prev + I = clock => clock % I = 0
  <2>1. (a.prev + I) % I = 0
    <3>1. a.prev \in Int /\ I \in Nat /\ I > 0 /\ a.prev % I = 0
      BY <1>2, <1>5
    <3>2. QED
      BY <3>1, NeighbourMultiple
  <2>2. QED
    BY <2>1
<1>9. alarm'[x].prev \in Int /\ alarm'[x].prev % I = 0 /\ alarm'[x].prev + I > clock
  BY <1>2, <1>5, <1>7, <1>8
<1>10. a.prev + I = clock => disk[x][clock] = "whole"
  BY <1>2, <1>3, <1>4 DEF DueIsWritten
<1>11. Done(x, clock)
  <2>1. SUFFICES ASSUME NEW t \in Times, t <= clock, Wanted(x, t)
                 PROVE  disk[x][t] = "whole"
    BY DEF Done
  <2>2. t \in Int /\ t % I = 0 /\ t <= clock /\ t >= 0
    BY <1>2, <2>1, GridBasics DEF Wanted, Times
  <2>3. t < alarm'[x].prev + I
    BY <1>2, <1>9, <2>2
  <2>4. t <= alarm'[x].prev
    BY <1>2, <1>9, <2>2, <2>3, NoMultipleBetween
  <2>5. CASE t <= a.prev
    BY <1>2, <1>5, <2>1, <2>2, <2>5 DEF Done
  <2>6. CASE t > a.prev
    <3>1. a.prev + I = clock
      BY <1>2, <1>7, <2>2, <2>4, <2>6
    <3>2. ASSUME t < a.prev + I PROVE FALSE
      <4>1. a.prev \in Int /\ I \in Nat /\ I > 0 /\ a.prev % I = 0 /\ t \in Int /\ t % I = 0
        BY <1>2, <1>5, <2>2
      <4>2. t <= a.prev
        BY <3>2, <4>1, NoMultipleBetween
      <4>3. QED
        BY <2>6, <4>1, <4>2
    <3>3. t = clock
      BY <1>2, <2>2, <3>1, <3>2
    <3>4. QED
      BY <1>10, <3>1, <3>3
  <2>7. QED
    BY <1>2, <2>2, <2>5, <2>6
<1>12. Done(x, clock)'
  BY <1>11 DEF Done, Wanted
<1>13. alarm'[x].prev <= clock \/ alarm'[x].prev = a.prev
  BY <1>2, <1>7
<1>14. Done(x, alarm[x].prev)'
  <2>1. CASE alarm'[x].prev = a.prev
    BY <1>5, <2>1 DEF Done, Wanted
  <2>2. CASE alarm'[x].prev <= clock
    BY <1>2, <1>9, <1>12, <2>2, GridBasics DEF Done
  <2>3. QED
    BY <1>13, <2>1, <2>2
<1>15. QED
  BY <1>9, <1>12, <1>14
--------------------------------------------------------------------------------
LEMMA GInitially == ASSUME Init PROVE GInv
<1>1. pc = "down" /\ stamp = {} /\ ierr = "noerr"
  BY DEF Init
<1>2. OnTime /\ DueIsWritten /\ NoClobber /\ PassedIsDone /\ LoopOrder
  BY <1>1 DEF OnTime, DueIsWritten, Passed, NoClobber, PassedIsDone, LoopOrder
<1>3. QED
  BY <1>2 DEF GInv

LEMMA ColdStartIsOnTime ==
  ASSUME Rewrites, stamp = {}, Begin(0, FALSE), UNCHANGED resumed
  PROVE  GInv'
<1>1. /\ pc' = "output" /\ clock' = 0 /\ at' = 1 /\ ierr' = "noerr"
      /\ UNCHANGED <<mode, disk, stamp>>
  BY DEF Begin, files
<1>2. alarm'["restart"] = Silenced(AddedAlarm("restart", 0), 0)
      /\ alarm'["output"] = AddedAlarm("output", 0)
  BY DEF Begin, InitialAlarm, StreamNames
<1>3. \A x \in StreamNames :
        /\ IntervalOf(x) \in Nat /\ IntervalOf(x) > 0
        /\ Sound(AddedAlarm(x, 0), x) /\ AddedAlarm(x, 0).prev = 0 - IntervalOf(x)
  BY AddedAlarmSound, Intervals
<1>4. \A x \in StreamNames : 0 % IntervalOf(x) = 0 /\ (0 - IntervalOf(x)) % IntervalOf(x) = 0
  <2>1. TAKE x \in StreamNames
  <2>2. IntervalOf(x) \in Nat /\ IntervalOf(x) > 0
    BY <1>3
  <2>3. 0 % IntervalOf(x) = 0
    BY <2>2
  <2>4. (0 - IntervalOf(x)) % IntervalOf(x) = 0
    BY <2>2, <2>3, NeighbourMultiple
  <2>5. QED
    BY <2>3, <2>4
<1>5. "restart" \in StreamNames /\ "output" \in StreamNames
  BY DEF StreamNames
<1>6. alarm'["restart"].prev = 0
  <2>1. AddedAlarm("restart", 0).prev + IntervalOf("restart") = 0
    BY <1>3, <1>5
  <2>2. QED
    BY <1>2, <1>3, <1>5, <2>1, SilencedOnTime
<1>7. alarm'["output"].prev = 0 - IntervalOf("output")
  BY <1>2, <1>3, <1>5
<1>8. \A x \in StreamNames : x = "restart" \/ x = "output"
  BY DEF StreamNames
<1>9. OnTime'
  <2>1. alarm'["restart"].prev % IntervalOf("restart") = 0 /\ alarm'["output"].prev % IntervalOf("output") = 0
    BY <1>4, <1>5, <1>6, <1>7
  <2>2. /\ alarm'["restart"].prev + IntervalOf("restart") >= 0
        /\ alarm'["output"].prev + IntervalOf("output") >= 0
    BY <1>3, <1>5, <1>6, <1>7
  <2>3. ASSUME NEW x \in StreamNames
        PROVE  alarm'[x].prev % IntervalOf(x) = 0 /\ alarm'[x].prev + IntervalOf(x) >= 0
    BY <1>8, <2>1, <2>2
  <2>4. QED
    BY <1>1, <2>3 DEF OnTime
<1>10. Done("restart", alarm["restart"].prev)'
  BY <1>6 DEF Done, Wanted, Times
<1>11. Done("output", alarm["output"].prev)'
  <2>1. alarm'["output"].prev < 0
    BY <1>3, <1>5, <1>7
  <2>2. QED
    BY <1>7, <2>1, <1>3, <1>5 DEF Done, Times
<1>12. PassedIsDone'
  BY <1>1, <1>8, <1>10, <1>11 DEF PassedIsDone
<1>13. DueIsWritten' /\ NoClobber' /\ LoopOrder'
  BY <1>1 DEF DueIsWritten, Passed, NoClobber, LoopOrder
<1>14. QED
  BY <1>9, <1>12, <1>13 DEF GInv

(* The alarms of a resumed attempt are set at the time it resumes from,    *)
(* which is on the grid of the restarts, hence on that of the output.      *)
LEMMA ResumedStartIsOnTime ==
  ASSUME IInv, GInv, Rewrites, NEW s \in stamp, Begin(s, TRUE), resumed' = resumed \cup {s}
  PROVE  GInv'
<1>1. /\ pc' = "output" /\ clock' = s /\ at' = 1 /\ ierr' = "noerr"
      /\ UNCHANGED <<mode, disk, stamp>>
  BY DEF Begin, files
<1>2. s \in Int /\ PassedIsDone
  BY GridBasics DEF GInv
<1>3. \A x \in StreamNames : Done(x, s) /\ s % RestartInterval = 0
  BY <1>2 DEF PassedIsDone
<1>4. ASSUME NEW x \in StreamNames
      PROVE  alarm'[x].prev = s /\ s % IntervalOf(x) = 0 /\ s + IntervalOf(x) > s
  <2>1. Sound(AddedAlarm(x, s), x) /\ AddedAlarm(x, s).prev = s - IntervalOf(x)
    BY <1>2, AddedAlarmSound
  <2>2. IntervalOf(x) \in Nat /\ IntervalOf(x) > 0
    BY Intervals
  <2>3. AddedAlarm(x, s).prev + IntervalOf(x) = s
    BY <1>2, <2>1, <2>2
  <2>4. Silenced(AddedAlarm(x, s), s).prev = s
    BY <1>2, <2>1, <2>3, SilencedOnTime
  <2>5. alarm'[x] = Silenced(AddedAlarm(x, s), s)
    BY DEF Begin, InitialAlarm
  <2>6. s % IntervalOf(x) = 0
    BY <1>2, <1>3, RestartTimesAreOutputTimes
  <2>7. QED
    BY <1>2, <2>2, <2>4, <2>5, <2>6
<1>5. OnTime'
  <2>1. ASSUME NEW x \in StreamNames
        PROVE  alarm'[x].prev % IntervalOf(x) = 0 /\ alarm'[x].prev + IntervalOf(x) >= s
    <3>1. alarm'[x].prev = s /\ s % IntervalOf(x) = 0 /\ IntervalOf(x) \in Nat
      BY <1>4, Intervals
    <3>2. QED
      BY <1>2, <3>1
  <2>2. QED
    BY <1>1, <2>1 DEF OnTime
<1>6. ASSUME NEW x \in StreamNames, NEW h, Done(x, h) PROVE Done(x, h)'
  BY <1>1, <1>6 DEF Done, Wanted
<1>7. \A x \in StreamNames : Done(x, s)'
  BY <1>3, <1>6
<1>8. \A x \in StreamNames : Done(x, alarm[x].prev)'
  BY <1>4, <1>7 DEF Done
<1>9. \A t \in stamp', x \in StreamNames : Done(x, t)'
  <2>1. \A t \in stamp' : t = s
    BY <1>1 DEF IInv, StampSingle
  <2>2. QED
    BY <1>7, <2>1
<1>10. PassedIsDone'
  BY <1>1, <1>2, <1>8, <1>9 DEF PassedIsDone
<1>11. DueIsWritten' /\ NoClobber' /\ LoopOrder'
  BY <1>1 DEF DueIsWritten, Passed, NoClobber, LoopOrder
<1>12. QED
  BY <1>5, <1>10, <1>11 DEF GInv

(* Where only the position in the streams and the files change, the alarms *)
(* stay on time.                                                           *)
LEMMA StayOnTime ==
  ASSUME OnTime, UNCHANGED <<alarm, clock>>,
         pc # "down", pc' \notin {"stepping", "finished"}
  PROVE  OnTime'
BY DEF OnTime

LEMMA SkipStaysComplete ==
  ASSUME IInv, GInv, Rewrites, SkipStream \/ RefuseStream
  PROVE  GInv'
<1>1. at \in 1..2 /\ at' = at + 1 /\ pc = "output" /\ pc' = "output"
  BY Order DEF IInv, TypeOK, SkipStream, RefuseStream, Due
<1>2. UNCHANGED <<mode, disk, stamp, clock, alarm, resumed>>
  BY DEF SkipStream, RefuseStream, files
<1>3. ierr' = ierr /\ ~ Ringing(Stream)
  <2>1. Stream \in StreamNames
    BY <1>1, StreamAt
  <2>2. SkipStream
    BY <2>1 DEF RefuseStream, Refused, Rewrites
  <2>3. QED
    BY <2>2 DEF SkipStream
<1>4. OnTime' /\ NoClobber' /\ LoopOrder'
  BY <1>1, <1>2, <1>3, StayOnTime DEF GInv, NoClobber, LoopOrder
<1>5. PassedIsDone'
  BY <1>1, <1>2 DEF GInv, PassedIsDone, Done, Wanted
<1>6. DueIsWritten'
  <2>1. SUFFICES ASSUME NEW x \in StreamNames, Passed(x)', Ringing(x), ierr = "noerr"
                 PROVE  disk[x][clock] = "whole"
    BY <1>1, <1>2, <1>3 DEF DueIsWritten, Ringing
  <2>2. x # Stream
    BY <1>3, <2>1
  <2>3. Passed(x)
    BY <1>1, <2>1, <2>2, Order DEF Passed, Stream, StreamNames
  <2>4. QED
    BY <2>1, <2>3 DEF GInv, DueIsWritten
<1>7. QED
  BY <1>4, <1>5, <1>6 DEF GInv

LEMMA OpenStaysComplete ==
  ASSUME IInv, GInv, Rewrites, OpenStream
  PROVE  GInv'
<1>1. /\ pc = "output" /\ pc' = "writing" /\ Due /\ ~ Refused
      /\ disk' = disk \/ disk' = [disk EXCEPT ![Stream][clock] = "partial"]
      /\ UNCHANGED <<mode, stamp, clock, alarm, at, ierr, resumed>>
  BY DEF OpenStream, Due
<1>2. at \in 1..2 /\ Stream \in StreamNames
  BY <1>1, TouchesAhead
<1>3. PassedIsDone'
  BY <1>1, TouchKeepsDone DEF GInv, States
<1>4. OnTime' /\ NoClobber' /\ LoopOrder'
  BY <1>1, StayOnTime DEF GInv, NoClobber, LoopOrder
<1>5. DueIsWritten'
  <2>1. SUFFICES ASSUME NEW x \in StreamNames, Passed(x)', Ringing(x), ierr = "noerr"
                 PROVE  disk'[x][clock] = "whole"
    BY <1>1 DEF DueIsWritten, Ringing
  <2>2. Passed(x) /\ x # Stream
    BY <1>1, <1>2, <2>1, StreamAt DEF Passed
  <2>3. disk'[x] = disk[x]
    BY <1>1, <1>2, <2>2, GridBasics
  <2>4. QED
    BY <2>1, <2>2, <2>3 DEF GInv, DueIsWritten
<1>6. QED
  BY <1>3, <1>4, <1>5 DEF GInv

LEMMA CloseStaysComplete ==
  ASSUME IInv, GInv, Rewrites, CloseStream
  PROVE  GInv'
<1>1. /\ pc = "writing" /\ pc' = "output" /\ at' = at + 1
      /\ disk' = [disk EXCEPT ![Stream][clock] = "whole"]
      /\ UNCHANGED <<mode, stamp, clock, alarm, ierr, resumed>>
  BY DEF CloseStream
<1>2. at \in 1..2 /\ Stream \in StreamNames
  BY <1>1, TouchesAhead
<1>3. PassedIsDone'
  BY <1>1, TouchKeepsDone DEF GInv, States
<1>4. OnTime' /\ NoClobber' /\ LoopOrder'
  BY <1>1, StayOnTime DEF GInv, NoClobber, LoopOrder
<1>5. DueIsWritten'
  <2>1. SUFFICES ASSUME NEW x \in StreamNames, Passed(x)', Ringing(x), ierr = "noerr"
                 PROVE  disk'[x][clock] = "whole"
    BY <1>1 DEF DueIsWritten, Ringing
  <2>2. CASE x = Stream
    BY <1>1, <1>2, <2>2, GridBasics
  <2>3. CASE x # Stream
    <3>1. Passed(x)
      BY <1>1, <1>2, <2>1, <2>3, Order DEF Passed, Stream, StreamNames
    <3>2. disk'[x] = disk[x]
      BY <1>1, <1>2, <2>3, GridBasics
    <3>3. QED
      BY <2>1, <3>1, <3>2 DEF GInv, DueIsWritten
  <2>4. QED
    BY <2>2, <2>3
<1>6. QED
  BY <1>3, <1>4, <1>5 DEF GInv

LEMMA FailStaysComplete ==
  ASSUME IInv, GInv, Rewrites, FailStream
  PROVE  GInv'
<1>1. /\ (Due /\ ~ Refused) \/ pc = "writing"
      /\ disk' = disk \/ disk' = [disk EXCEPT ![Stream][clock] = "partial"]
      /\ ierr' = "error" /\ pc' = "output"
      /\ UNCHANGED <<mode, stamp, clock, alarm, resumed>>
  BY DEF FailStream
<1>2. PassedIsDone'
  BY <1>1, TouchKeepsDone DEF GInv, States
<1>3. OnTime' /\ NoClobber' /\ LoopOrder' /\ DueIsWritten'
  BY <1>1, StayOnTime DEF GInv, NoClobber, LoopOrder, DueIsWritten, Due
<1>4. QED
  BY <1>2, <1>3 DEF GInv

LEMMA EndStaysComplete ==
  ASSUME IInv, GInv, Rewrites, Abort \/ Finish \/ Crash
  PROVE  GInv'
<1>1. CASE Abort
  BY <1>1 DEF Abort, files, GInv, OnTime, DueIsWritten, Passed, NoClobber, PassedIsDone, LoopOrder, Done, Wanted
<1>2. CASE Finish
  BY <1>2 DEF Finish, files, GInv, OnTime, DueIsWritten, Passed, NoClobber, PassedIsDone, LoopOrder, Done, Wanted
<1>3. CASE Crash
  <2>1. /\ pc' = "down" /\ UNCHANGED <<stamp, alarm, resumed, ierr>>
        /\ disk' = disk \/ (pc = "writing" /\ disk' = [disk EXCEPT ![Stream][clock] = "partial"])
    BY <1>3 DEF Crash
  <2>2. PassedIsDone'
    <3>1. CASE disk' = disk
      BY <2>1, <3>1 DEF GInv, PassedIsDone, Done, Wanted
    <3>2. CASE pc = "writing" /\ disk' = [disk EXCEPT ![Stream][clock] = "partial"]
      BY <2>1, <3>2, TouchKeepsDone DEF GInv, States
    <3>3. QED
      BY <2>1, <3>1, <3>2
  <2>3. OnTime' /\ NoClobber' /\ LoopOrder' /\ DueIsWritten'
    BY <2>1 DEF GInv, OnTime, NoClobber, LoopOrder, DueIsWritten, Passed
  <2>4. QED
    BY <2>2, <2>3 DEF GInv
<1>4. QED
  BY <1>1, <1>2, <1>3

LEMMA OpenStampStaysComplete ==
  ASSUME IInv, GInv, Rewrites, OpenStamp
  PROVE  GInv'
<1>1. /\ pc = "output" /\ pc' = "stamping" /\ at > 2 /\ ierr # "error" /\ Ringing("restart")
      /\ stamp' = {} /\ UNCHANGED <<mode, disk, clock, alarm, ierr, resumed>>
  BY Order DEF OpenStamp, Written, StampDue
<1>2. ierr = "noerr"
  BY <1>1 DEF GInv, NoClobber, IInv, TypeOK
<1>3. OnTime' /\ NoClobber' /\ LoopOrder' /\ PassedIsDone'
  BY <1>1, StayOnTime DEF GInv, NoClobber, LoopOrder, PassedIsDone, Done, Wanted, Ringing
<1>4. DueIsWritten'
  BY <1>1, <1>2 DEF GInv, DueIsWritten, Passed, Ringing
<1>5. QED
  BY <1>3, <1>4 DEF GInv

LEMMA ResetStaysComplete ==
  ASSUME IInv, GInv, Rewrites, WriteStamp \/ NoStamp
  PROVE  GInv'
<1>1. /\ pc # "down" /\ pc' = "stepping" /\ ResetAlarms
      /\ UNCHANGED <<mode, disk, clock, ierr, resumed>>
      /\ pc = "stamping" \/ (Written /\ ierr # "error")
      /\ (pc = "stamping" /\ stamp' = {clock}) \/ stamp' = stamp
  BY DEF WriteStamp, NoStamp, files, Written
<1>2. \A x \in StreamNames :
        /\ alarm'[x].prev % IntervalOf(x) = 0
        /\ alarm'[x].prev + IntervalOf(x) > clock
        /\ Done(x, alarm[x].prev)'
        /\ Done(x, clock)'
  BY <1>1, ResetOnTime
<1>3. \A x \in StreamNames : alarm'[x].prev \in Int /\ IntervalOf(x) \in Nat
  BY <1>1, ResetOnTime, Intervals
<1>4. OnTime'
  <2>1. ASSUME NEW x \in StreamNames
        PROVE  alarm'[x].prev + IntervalOf(x) >= clock
    BY <1>2, <1>3, GridBasics
  <2>2. QED
    BY <1>1, <1>2, <2>1 DEF OnTime
<1>5. pc = "stamping" => clock % RestartInterval = 0
  <2>1. SUFFICES ASSUME pc = "stamping" PROVE clock % RestartInterval = 0
    OBVIOUS
  <2>2. "restart" \in StreamNames /\ IntervalOf("restart") = RestartInterval
    BY DEF StreamNames, IntervalOf
  <2>3. Ringing("restart") /\ OnTime
    BY <2>1 DEF GInv, LoopOrder
  <2>4. alarm["restart"].prev % RestartInterval = 0 /\ alarm["restart"].prev + RestartInterval >= clock
    BY <2>1, <2>2, <2>3 DEF OnTime
  <2>5. clock = alarm["restart"].prev + RestartInterval
    BY <2>2, <2>3, <2>4, GridBasics
  <2>6. alarm["restart"].prev \in Int /\ RestartInterval \in Nat /\ RestartInterval > 0
    BY <2>2, GridBasics
  <2>7. (alarm["restart"].prev + RestartInterval) % RestartInterval = 0
    BY <2>4, <2>6, NeighbourMultiple
  <2>8. QED
    BY <2>5, <2>7
<1>6. ASSUME NEW x \in StreamNames, NEW h, Done(x, h) PROVE Done(x, h)'
  BY <1>1, <1>6 DEF Done, Wanted
<1>7. PassedIsDone'
  <2>1. \A s \in stamp', x \in StreamNames : Done(x, s)'
    <3>1. CASE stamp' = stamp
      BY <1>6, <3>1 DEF GInv, PassedIsDone
    <3>2. CASE stamp' = {clock}
      <4>1. \A s \in stamp' : s = clock'
        BY <1>1, <3>2
      <4>2. \A x \in StreamNames : Done(x, clock)'
        BY <1>2
      <4>3. QED
        BY <4>1, <4>2 DEF Done
    <3>3. QED
      BY <1>1, <3>1, <3>2
  <2>2. \A s \in stamp' : s % RestartInterval = 0
    BY <1>1, <1>5 DEF GInv, PassedIsDone
  <2>3. QED
    BY <1>2, <2>1, <2>2 DEF PassedIsDone
<1>8. DueIsWritten' /\ NoClobber' /\ LoopOrder'
  BY <1>1 DEF GInv, DueIsWritten, Passed, NoClobber, LoopOrder
<1>9. QED
  BY <1>4, <1>7, <1>8 DEF GInv

LEMMA StepStaysComplete ==
  ASSUME IInv, GInv, Rewrites, Step
  PROVE  GInv'
<1>1. /\ pc = "stepping" /\ pc' = "output" /\ clock' = clock + 1 /\ at' = 1 /\ ierr' = "noerr"
      /\ UNCHANGED <<mode, disk, stamp, alarm, resumed>>
  BY DEF Step, files
<1>2. OnTime'
  <2>1. ASSUME NEW x \in StreamNames
        PROVE  alarm[x].prev % IntervalOf(x) = 0 /\ alarm[x].prev + IntervalOf(x) >= clock + 1
    <3>1. alarm[x].prev % IntervalOf(x) = 0 /\ alarm[x].prev + IntervalOf(x) > clock
      BY <1>1 DEF GInv, OnTime
    <3>2. QED
      BY <3>1, GridBasics
  <2>2. QED
    BY <1>1, <2>1 DEF OnTime
<1>3. PassedIsDone'
  BY <1>1 DEF GInv, PassedIsDone, Done, Wanted
<1>4. DueIsWritten' /\ NoClobber' /\ LoopOrder'
  BY <1>1 DEF DueIsWritten, Passed, NoClobber, LoopOrder
<1>5. QED
  BY <1>2, <1>3, <1>4 DEF GInv
--------------------------------------------------------------------------------
LEMMA GStep == ASSUME IInv, GInv, [Next]_vars PROVE GInv'
<1>1. mode' = mode
  BY DEF Next, Proceed, LaunchCold, LaunchFromStamp, Begin, SkipStream, RefuseStream, OpenStream,
         CloseStream, Abort, OpenStamp, WriteStamp, NoStamp, Step, Finish, FailStream, Crash, vars
<1>2. CASE ~ Rewrites
  BY <1>1, <1>2 DEF GInv, Rewrites
<1>3. CASE Rewrites
  <2>1. CASE LaunchCold
    BY <1>3, <2>1, ColdStartIsOnTime DEF LaunchCold
  <2>2. CASE LaunchFromStamp
    BY <1>3, <2>2, ResumedStartIsOnTime DEF LaunchFromStamp
  <2>3. CASE SkipStream \/ RefuseStream
    BY <1>3, <2>3, SkipStaysComplete
  <2>4. CASE OpenStream
    BY <1>3, <2>4, OpenStaysComplete
  <2>5. CASE CloseStream
    BY <1>3, <2>5, CloseStaysComplete
  <2>6. CASE FailStream
    BY <1>3, <2>6, FailStaysComplete
  <2>7. CASE Abort \/ Finish \/ Crash
    BY <1>3, <2>7, EndStaysComplete
  <2>8. CASE OpenStamp
    BY <1>3, <2>8, OpenStampStaysComplete
  <2>9. CASE WriteStamp \/ NoStamp
    BY <1>3, <2>9, ResetStaysComplete
  <2>10. CASE Step
    BY <1>3, <2>10, StepStaysComplete
  <2>11. CASE UNCHANGED vars
    BY <2>11 DEF vars, files, process, GInv, Rewrites, OnTime, DueIsWritten, Passed, NoClobber,
                 PassedIsDone, LoopOrder, Done, Wanted, Ringing
  <2>12. QED
    BY <2>1, <2>2, <2>3, <2>4, <2>5, <2>6, <2>7, <2>8, <2>9, <2>10, <2>11 DEF Next, Proceed
<1>4. QED
  BY <1>2, <1>3

LEMMA DoneIsComplete ==
  ASSUME NEW h \in 0..Horizon, Done("restart", h), Done("output", h)
  PROVE  CompleteTo(h)
<1>1. \A t \in 0..h : t \in Times /\ t <= h
  BY AtmCoreAssumption DEF Times
<1>2. QED
  BY <1>1 DEF Done, Wanted, IntervalOf, CompleteTo

LEMMA GInvImplies == ASSUME IInv, GInv PROVE GridComplete
<1>1. SUFFICES ASSUME Rewrites
               PROVE  /\ \A s \in stamp : CompleteTo(s)
                      /\ pc = "finished" => CompleteTo(Horizon)
  BY DEF GridComplete
<1>2. "restart" \in StreamNames /\ "output" \in StreamNames /\ PassedIsDone /\ OnTime /\ LoopOrder
  BY <1>1 DEF StreamNames, GInv
<1>3. ASSUME NEW s \in stamp PROVE CompleteTo(s)
  <2>1. s \in 0..Horizon
    BY GridBasics DEF Times
  <2>2. Done("restart", s) /\ Done("output", s)
    BY <1>2 DEF PassedIsDone
  <2>3. QED
    BY <2>1, <2>2, DoneIsComplete
<1>4. ASSUME pc = "finished" PROVE CompleteTo(Horizon)
  <2>1. ASSUME NEW x \in StreamNames PROVE Done(x, Horizon)
    <3>1. Done(x, alarm[x].prev) /\ alarm[x].prev % IntervalOf(x) = 0
          /\ alarm[x].prev + IntervalOf(x) > clock /\ clock >= Horizon
      BY <1>2, <1>4 DEF OnTime, PassedIsDone, LoopOrder
    <3>2. SUFFICES ASSUME NEW t \in Times, t <= Horizon, Wanted(x, t) PROVE disk[x][t] = "whole"
      BY DEF Done
    <3>3. /\ t \in Int /\ t % IntervalOf(x) = 0 /\ alarm[x].prev \in Int
          /\ IntervalOf(x) \in Nat /\ IntervalOf(x) > 0 /\ t < alarm[x].prev + IntervalOf(x)
      BY <3>1, <3>2, GridBasics, AtmCoreAssumption DEF Wanted
    <3>4. t <= alarm[x].prev
      BY <3>1, <3>3, NoMultipleBetween
    <3>5. QED
      BY <3>1, <3>2, <3>4 DEF Done
  <2>2. Horizon \in 0..Horizon
    BY AtmCoreAssumption
  <2>3. QED
    BY <1>2, <2>1, <2>2, DoneIsComplete
<1>5. QED
  BY <1>3, <1>4

(* The files of all times up to the one in restart_timestamp, and of the   *)
(* whole forecast once it has finished, are whole, whatever attempts       *)
(* crashed where (the alarms of a resumed attempt are on the same grid).   *)
THEOREM GridIsComplete == Spec => []GridComplete
<1>1. Init => GInv
  BY GInitially
<1>2. IInv /\ GInv /\ [Next]_vars => GInv'
  BY GStep
<1>3. IInv /\ GInv => GridComplete
  BY GInvImplies
<1>4. QED
  BY <1>1, <1>2, <1>3, Invariance, PTL DEF Spec
================================================================================
