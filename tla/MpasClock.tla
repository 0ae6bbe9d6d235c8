-------------------------------- MODULE MpasClock ------------------------------
(***************************************************************************)
(* A clock of framework/mpas_timekeeping.F and the operations its callers  *)
(* have: the clock advances by its time step or by one given for the       *)
(* occasion, gets another time step, is set to another time or turned      *)
(* around, and its alarms are added, removed, reset and aligned with a     *)
(* reference time, in any order.                                           *)
(***************************************************************************)
EXTENDS Alarms, FiniteSets

CONSTANTS
  AlarmIDs,             (* names of alarms                                     *)
  StartTime, StopTime,  (* bound: the clock's times are in StartTime..StopTime *)
  TimeSteps,            (* magnitudes of the time steps in use                 *)
  Intervals,            (* ring intervals in use; 0 is a one-shot alarm        *)
  LookAheads,           (* the optional interval argument, 0 when absent       *)
  None                  (* no alarm by that name                               *)

ASSUME ClockAssumption ==
  /\ StartTime \in Int /\ StopTime \in Int /\ StartTime <= StopTime
  /\ TimeSteps \subseteq Nat \ {0}
  /\ Intervals \subseteq Nat /\ LookAheads \subseteq Nat

Times == StartTime .. StopTime

VARIABLES
  now,        (* MPAS_NOW                                                      *)
  direction,  (* MPAS_FORWARD or MPAS_BACKWARD                                 *)
  step,       (* the signed time step                                          *)
  alarms,     (* the alarm list, by name                                       *)
  origin      (* history: the time each alarm was last defined relative to     *)

vars == <<now, direction, step, alarms, origin>>

(* A time step in the direction dir. Every caller that gives one gives it  *)
(* in the direction of its clock (mpas_forcing.F:1259, mpas_li_time_       *)
(* integration.F:193, mpas_ocn_init_global_ocean.F:2707).                  *)
Along(dir) == IF dir = "forward" THEN TimeSteps ELSE {- s : s \in TimeSteps}

Defined == {a \in AlarmIDs : alarms[a] # None}
Recurring == {a \in Defined : alarms[a].recurring}

(* mpas_create_clock *)
Init ==
  /\ now = StartTime
  /\ direction = "forward"
  /\ step \in TimeSteps
  /\ alarms = [a \in AlarmIDs |-> None]
  /\ origin = [a \in AlarmIDs |-> StartTime]

(* An alarm whose name is in use is refused. *)
AddAlarm(a, time, interval) ==
  /\ a \notin Defined
  /\ alarms' = [alarms EXCEPT ![a] = NewAlarm(direction, time, interval)]
  /\ origin' = [origin EXCEPT ![a] = time]
  /\ UNCHANGED <<now, direction, step>>

RemoveAlarm(a) ==
  /\ a \in Defined
  /\ alarms' = [alarms EXCEPT ![a] = None]
  /\ UNCHANGED <<now, direction, step, origin>>

(* By the clock's time step, or by the optional timeStep: that one is set, *)
(* used once and the clock's own put back.                                 *)
AdvanceClock(by) ==
  /\ now + by \in Times
  /\ now' = now + by
  /\ UNCHANGED <<direction, step, alarms, origin>>

SetClockTimeStep(s) ==
  /\ step' = s
  /\ UNCHANGED <<now, direction, alarms, origin>>

Calibrated(dir, time) ==
  [a \in AlarmIDs |-> IF a \in Defined THEN CalibrateAlarm(dir, time, alarms[a]) ELSE None]

SetClockTime(time) ==
  /\ now' = time
  /\ alarms' = Calibrated(direction, time)
  /\ UNCHANGED <<direction, step, origin>>

(* Mutant of SetClockDirection: the time step keeps its sign. *)
SetClockDirectionOnly(dir) ==
  /\ dir # direction
  /\ direction' = dir
  /\ alarms' = Calibrated(dir, now)
  /\ UNCHANGED <<now, step, origin>>

(* Nothing happens when the clock runs that way already. *)
SetClockDirection(dir) ==
  /\ dir # direction
  /\ direction' = dir
  /\ step' = - step
  /\ alarms' = Calibrated(dir, now)
  /\ UNCHANGED <<now, origin>>

ResetClockAlarm(a, look) ==
  /\ a \in Defined
  /\ alarms' = [alarms EXCEPT ![a] = ResetAlarm(direction, now, alarms[a], look)]
  /\ UNCHANGED <<now, direction, step, origin>>

AdjustAlarmToReferenceTime(a, ref) ==
  /\ a \in Defined
  /\ alarms' = [alarms EXCEPT ![a] = AdjustAlarm(direction, now, ref, alarms[a])]
  /\ origin' = [origin EXCEPT ![a] = ref]
  /\ UNCHANGED <<now, direction, step>>

Next ==
  \/ \E by \in {step} \cup Along(direction) : AdvanceClock(by)
  \/ \E s \in Along(direction) : SetClockTimeStep(s)
  \/ \E time \in Times : SetClockTime(time)
  \/ \E dir \in Directions : SetClockDirection(dir)
  \/ \E a \in AlarmIDs :
       \/ \E time \in Times, interval \in Intervals : AddAlarm(a, time, interval)
       \/ RemoveAlarm(a)
       \/ \E look \in LookAheads : ResetClockAlarm(a, look)
       \/ \E ref \in Times : AdjustAlarmToReferenceTime(a, ref)

Spec == Init /\ [][Next]_vars
--------------------------------------------------------------------------------
AlarmType ==
  [recurring : BOOLEAN, isSet : BOOLEAN, ringTime : Int, interval : Nat, prev : Int]

TypeOK ==
  /\ now \in Times
  /\ direction \in Directions
  /\ step \in Along(direction)
  /\ \A a \in Defined : alarms[a] \in AlarmType /\ (alarms[a].recurring <=> alarms[a].interval > 0)
  /\ DOMAIN alarms = AlarmIDs
  /\ origin \in [AlarmIDs -> Times]

(* Whatever is done to the clock and in whatever order, the ring times of  *)
(* a recurring alarm stay a whole number of intervals from the time it was *)
(* defined relative to.                                                    *)
RingsOnGrid ==
  \A a \in Recurring : (alarms[a].prev - origin[a]) % alarms[a].interval = 0

(* The first ring time of the alarm at or beyond time n, in the clock's    *)
(* direction.                                                              *)
FirstFrom(a, n) ==
  LET I == alarms[a].interval
  IN  IF direction = "forward" THEN n + ((origin[a] - n) % I)
                               ELSE n - ((n - origin[a]) % I)

(* A reset alarm is silent, and rings next at the first ring time that the *)
(* caller has not looked at yet: none is skipped, none rings twice.        *)
ResetSkipsNothing ==
  [][\A a \in Recurring, look \in LookAheads :
       ResetClockAlarm(a, look) /\ InRingingEnvelope(direction, now, alarms[a], look)
         => NextRingTime(direction, alarms'[a])
              = FirstFrom(a, Ahead(direction, now, look + 1))]_vars

(* After a jump or a turn, the pending ring of every alarm is the first    *)
(* one at or beyond the time the clock shows, in the direction it runs.    *)
CalibratedRingsNext ==
  [][(\E time \in Times : SetClockTime(time)) \/ (\E dir \in Directions : SetClockDirection(dir))
       => \A a \in Recurring : NextRingTime(direction', alarms'[a]) = FirstFrom(a, now)']_vars

(* In a clock that runs forward, an alarm aligned with a reference time    *)
(* rings within one interval from now.                                     *)
AdjustedRingsSoon ==
  [][\A a \in Recurring, ref \in Times :
       AdjustAlarmToReferenceTime(a, ref) /\ direction = "forward"
         => LET next == NextRingTime(direction, alarms'[a])
            IN  now <= next /\ next <= now + alarms[a].interval]_vars
================================================================================
