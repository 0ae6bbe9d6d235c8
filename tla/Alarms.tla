--------------------------------- MODULE Alarms --------------------------------
(***************************************************************************)
(* The alarms of an MPAS clock (framework/mpas_timekeeping.F), as          *)
(* operators on one alarm.  Times and intervals are whole numbers of one   *)
(* unit; calendar intervals (months, years) are not modelled.              *)
(*                                                                         *)
(* A recurring alarm keeps the time it last rang; it rings again one       *)
(* interval later, in the direction in which the clock runs.               *)
(***************************************************************************)
EXTENDS Integers

Directions == {"forward", "backward"}

(* The time i after t, seen in the clock's direction. *)
Ahead(dir, t, i) == IF dir = "forward" THEN t + i ELSE t - i

(* Time t is reached when the clock shows n. *)
Reached(dir, t, n) == IF dir = "forward" THEN t <= n ELSE t >= n

(* mpas_add_clock_alarm; interval 0 stands for the absent argument. *)
NewAlarm(dir, time, interval) ==
  [recurring |-> interval > 0,
   isSet     |-> TRUE,
   ringTime  |-> time,
   interval  |-> interval,
   prev      |-> Ahead(dir, time, - interval)]

(* mpas_alarm_get_next_ring_time, of a recurring alarm *)
NextRingTime(dir, a) == Ahead(dir, a.prev, a.interval)

Threshold(dir, a) == IF a.recurring THEN NextRingTime(dir, a) ELSE a.ringTime

InRingingEnvelope(dir, now, a, look) ==
  Reached(dir, Threshold(dir, a), Ahead(dir, now, look))

IsRinging(dir, now, a, look) == a.isSet /\ InRingingEnvelope(dir, now, a, look)

(* What mpas_interval_division leaves: no remainder for a zero divisor,    *)
(* and the numerator itself wherever it is below the divisor, negative or  *)
(* not.                                                                    *)
DivisionRemainder(num, den) ==
  IF den = 0 THEN 0 ELSE IF num < den THEN num ELSE num % den

(* Mutant of RingTimeWithin: the alarm is considered to have rung now. *)
RingTimeNow(dir, n, a) == n

(* Mutant of RingTimeWithin: one interval further, wherever the clock is. *)
NextRingOnly(dir, n, a) == NextRingTime(dir, a)

(* The last ring time of the alarm that n has reached. *)
RingTimeWithin(dir, n, a) ==
  IF dir = "forward"
  THEN n - DivisionRemainder(n - a.prev, a.interval)
  ELSE n + DivisionRemainder(a.prev - n, a.interval)

(* mpas_reset_clock_alarm *)
ResetAlarm(dir, now, a, look) ==
  IF ~ InRingingEnvelope(dir, now, a, look) THEN a
  ELSE IF ~ a.recurring THEN [a EXCEPT !.isSet = FALSE]
  ELSE [a EXCEPT !.prev = RingTimeWithin(dir, Ahead(dir, now, look), a)]

(* Mutant of AdjustAlarm: the reference time is taken to be in the past. *)
AdjustAlarmToPast(dir, now, ref, a) ==
  IF ~ a.recurring THEN a
  ELSE [a EXCEPT !.prev = now - DivisionRemainder(now - ref, a.interval)]

(* mpas_adjust_alarm_to_reference_time *)
AdjustAlarm(dir, now, ref, a) ==
  IF ~ a.recurring THEN a
  ELSE IF IF dir = "forward" THEN now > ref ELSE now < ref
  THEN [a EXCEPT !.prev = now - DivisionRemainder(now - ref, a.interval)]
  ELSE [a EXCEPT !.prev = now - (a.interval - DivisionRemainder(ref - now, a.interval))]

(* The ring times around now: strictly before it, and strictly after it.   *)
NegativeNeighbor(now, a) == now - 1 - ((now - 1 - a.prev) % a.interval)
PositiveNeighbor(now, a) == now + 1 + ((a.prev - now - 1) % a.interval)

(* Mutant of CalibrateAlarm: the neighbours are not chosen by direction. *)
CalibrateForward(dir, now, a) ==
  IF ~ a.recurring
  THEN [a EXCEPT !.isSet = TRUE]
  ELSE [a EXCEPT !.prev = NegativeNeighbor(now, a)]

(* mpas_calibrate_alarms, for one alarm *)
CalibrateAlarm(dir, now, a) ==
  IF ~ a.recurring
  THEN [a EXCEPT !.isSet = TRUE]
  ELSE [a EXCEPT !.prev = IF dir = "forward" THEN NegativeNeighbor(now, a)
                                             ELSE PositiveNeighbor(now, a)]
================================================================================
