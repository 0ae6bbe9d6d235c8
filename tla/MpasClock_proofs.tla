----------------------------- MODULE MpasClock_proofs --------------------------
(***************************************************************************)
(* Proofs about the ring times of a clock's alarms, for all times,         *)
(* intervals and look-aheads: they stay on their grid, and after a reset,  *)
(* a calibration or an alignment the next one is where it should be.       *)
(***************************************************************************)
EXTENDS MpasClock, TLAPS

Multiple(I, x) == \E k \in Int : x = I * k

LEMMA MultipleIsRemainderFree ==
  ASSUME NEW I \in Nat, I > 0, NEW x \in Int
  PROVE  Multiple(I, x) <=> x % I = 0
<1>1. Multiple(I, x) => x % I = 0
  BY DEF Multiple
<1>2. x % I = 0 => Multiple(I, x)
  BY DEF Multiple
<1>3. QED
  BY <1>1, <1>2

LEMMA MultiplesAdd ==
  ASSUME NEW I \in Nat, NEW x \in Int, NEW y \in Int, Multiple(I, x), Multiple(I, y)
  PROVE  Multiple(I, x + y)
<1>1. PICK j \in Int : x = I * j
  BY DEF Multiple
<1>2. PICK k \in Int : y = I * k
  BY DEF Multiple
<1>3. x + y = I * (j + k) /\ j + k \in Int
  BY <1>1, <1>2
<1>4. QED
  BY <1>3 DEF Multiple

LEMMA MultiplesNegate ==
  ASSUME NEW I \in Nat, NEW x \in Int, Multiple(I, x)
  PROVE  Multiple(I, - x)
<1>1. PICK j \in Int : x = I * j
  BY DEF Multiple
<1>2. - x = I * (- j) /\ - j \in Int
  BY <1>1
<1>3. QED
  BY <1>2 DEF Multiple

LEMMA MultipleOfItself ==
  ASSUME NEW I \in Nat
  PROVE  Multiple(I, I) /\ Multiple(I, 0)
<1>1. I = I * 1 /\ 0 = I * 0
  OBVIOUS
<1>2. QED
  BY <1>1 DEF Multiple

LEMMA RemainderDivides ==
  ASSUME NEW I \in Nat, I > 0, NEW x \in Int
  PROVE  x % I \in Int /\ Multiple(I, x - (x % I))
BY DEF Multiple

(* Interval division leaves a whole number of intervals short of the       *)
(* numerator, negative numerators included.                                *)
LEMMA DivisionLeavesMultiple ==
  ASSUME NEW I \in Nat, I > 0, NEW x \in Int
  PROVE  DivisionRemainder(x, I) \in Int /\ Multiple(I, x - DivisionRemainder(x, I))
<1>1. CASE x < I
  <2>1. DivisionRemainder(x, I) = x /\ x - x = 0
    BY <1>1 DEF DivisionRemainder
  <2>2. QED
    BY <2>1, MultipleOfItself
<1>2. CASE ~ (x < I)
  <2>1. DivisionRemainder(x, I) = x % I
    BY <1>2 DEF DivisionRemainder
  <2>2. QED
    BY <2>1, RemainderDivides
<1>3. QED
  BY <1>1, <1>2
--------------------------------------------------------------------------------
(* An alarm whose ring times are a whole number of intervals from time o.  *)
OnGrid(a, o) ==
  /\ a \in AlarmType
  /\ a.recurring <=> a.interval > 0
  /\ a.recurring => Multiple(a.interval, a.prev - o)

LEMMA NewAlarmOnGrid ==
  ASSUME NEW dir \in Directions, NEW time \in Int, NEW i \in Nat
  PROVE  OnGrid(NewAlarm(dir, time, i), time)
<1> DEFINE a == NewAlarm(dir, time, i)
<1>1. Ahead(dir, time, - i) \in {time - i, time + i}
  BY DEF Ahead
<1>2. /\ a.interval = i /\ (a.recurring <=> i > 0)
      /\ a.prev = Ahead(dir, time, - i)
  BY DEF NewAlarm
<1>3. (i > 0) \in BOOLEAN
  OBVIOUS
<1>4. a \in AlarmType
  BY <1>1, <1>3 DEF NewAlarm, AlarmType
<1>5. a.prev - time = i \/ a.prev - time = - i
  BY <1>1, <1>2
<1>6. Multiple(i, i) /\ Multiple(i, - i)
  BY MultipleOfItself, MultiplesNegate
<1>7. QED
  BY <1>2, <1>4, <1>5, <1>6 DEF OnGrid

(* Moving the last ring time by whole intervals keeps the alarm on grid. *)
LEMMA ShiftOnGrid ==
  ASSUME NEW o \in Int, NEW a, OnGrid(a, o), a.recurring, NEW p \in Int,
         Multiple(a.interval, p - a.prev)
  PROVE  OnGrid([a EXCEPT !.prev = p], o)
<1>1. a.interval \in Nat /\ a.prev \in Int /\ Multiple(a.interval, a.prev - o)
  BY DEF OnGrid, AlarmType
<1>2. Multiple(a.interval, (p - a.prev) + (a.prev - o))
  BY <1>1, MultiplesAdd
<1>3. (p - a.prev) + (a.prev - o) = p - o
  BY <1>1
<1>4. QED
  BY <1>2, <1>3 DEF OnGrid, AlarmType

LEMMA ResetOnGrid ==
  ASSUME NEW dir \in Directions, NEW n \in Int, NEW look \in Nat, NEW o \in Int,
         NEW a, OnGrid(a, o)
  PROVE  OnGrid(ResetAlarm(dir, n, a, look), o)
<1>1. CASE ~ InRingingEnvelope(dir, n, a, look)
  BY <1>1 DEF ResetAlarm
<1>2. CASE InRingingEnvelope(dir, n, a, look) /\ ~ a.recurring
  BY <1>2 DEF ResetAlarm, OnGrid, AlarmType
<1>3. CASE InRingingEnvelope(dir, n, a, look) /\ a.recurring
  <2>1. PICK m \in Int : m = Ahead(dir, n, look)
    BY DEF Ahead
  <2>2. a.interval \in Nat /\ a.interval > 0 /\ a.prev \in Int
    BY <1>3 DEF OnGrid, AlarmType
  <2>3. PICK p : p = RingTimeWithin(dir, m, a)
    OBVIOUS
  <2>4. p \in Int /\ Multiple(a.interval, p - a.prev)
    <3>1. CASE dir = "forward"
      <4>1. PICK x \in Int : x = m - a.prev
        BY <2>2
      <4>2. p - a.prev = x - DivisionRemainder(x, a.interval) /\ p \in Int
        BY <2>2, <2>3, <3>1, <4>1, DivisionLeavesMultiple DEF RingTimeWithin
      <4>3. QED
        BY <2>2, <4>2, DivisionLeavesMultiple
    <3>2. CASE dir # "forward"
      <4>1. PICK x \in Int : x = a.prev - m
        BY <2>2
      <4>2. p - a.prev = - (x - DivisionRemainder(x, a.interval)) /\ p \in Int
            /\ x - DivisionRemainder(x, a.interval) \in Int
        BY <2>2, <2>3, <3>2, <4>1, DivisionLeavesMultiple DEF RingTimeWithin
      <4>3. QED
        BY <2>2, <4>2, DivisionLeavesMultiple, MultiplesNegate
    <3>3. QED
      BY <3>1, <3>2
  <2>5. ResetAlarm(dir, n, a, look) = [a EXCEPT !.prev = p]
    BY <1>3, <2>1, <2>3 DEF ResetAlarm
  <2>6. QED
    BY <1>3, <2>4, <2>5, ShiftOnGrid
<1>4. QED
  BY <1>1, <1>2, <1>3

LEMMA CalibrateOnGrid ==
  ASSUME NEW dir \in Directions, NEW n \in Int, NEW o \in Int, NEW a, OnGrid(a, o)
  PROVE  OnGrid(CalibrateAlarm(dir, n, a), o)
<1>1. CASE ~ a.recurring
  BY <1>1 DEF CalibrateAlarm, OnGrid, AlarmType
<1>2. CASE a.recurring
  <2>1. a.interval \in Nat /\ a.interval > 0 /\ a.prev \in Int
    BY <1>2 DEF OnGrid, AlarmType
  <2>2. NegativeNeighbor(n, a) \in Int /\ Multiple(a.interval, NegativeNeighbor(n, a) - a.prev)
    <3>1. PICK x \in Int : x = n - 1 - a.prev
      BY <2>1
    <3>2. NegativeNeighbor(n, a) - a.prev = x - (x % a.interval) /\ NegativeNeighbor(n, a) \in Int
      BY <2>1, <3>1, RemainderDivides DEF NegativeNeighbor
    <3>3. QED
      BY <2>1, <3>2, RemainderDivides
  <2>3. PositiveNeighbor(n, a) \in Int /\ Multiple(a.interval, PositiveNeighbor(n, a) - a.prev)
    <3>1. PICK x \in Int : x = a.prev - n - 1
      BY <2>1
    <3>2. /\ PositiveNeighbor(n, a) - a.prev = - (x - (x % a.interval))
          /\ PositiveNeighbor(n, a) \in Int /\ x - (x % a.interval) \in Int
      BY <2>1, <3>1, RemainderDivides DEF PositiveNeighbor
    <3>3. QED
      BY <2>1, <3>2, RemainderDivides, MultiplesNegate
  <2>4. QED
    BY <1>2, <2>2, <2>3, ShiftOnGrid DEF CalibrateAlarm
<1>3. QED
  BY <1>1, <1>2

(* Aligned with a reference time, the alarm is on the grid of that time,   *)
(* whatever its own was, in either direction.                              *)
LEMMA AdjustOnGrid ==
  ASSUME NEW dir \in Directions, NEW n \in Int, NEW ref \in Int, NEW o \in Int,
         NEW a, OnGrid(a, o)
  PROVE  OnGrid(AdjustAlarm(dir, n, ref, a), ref)
<1>1. CASE ~ a.recurring
  BY <1>1 DEF AdjustAlarm, OnGrid
<1>2. CASE a.recurring
  <2>1. a.interval \in Nat /\ a.interval > 0
    BY <1>2 DEF OnGrid, AlarmType
  <2>2. PICK past : past = n - DivisionRemainder(n - ref, a.interval)
    OBVIOUS
  <2>3. PICK future : future = n - (a.interval - DivisionRemainder(ref - n, a.interval))
    OBVIOUS
  <2>4. past \in Int /\ Multiple(a.interval, past - ref)
    <3>1. PICK x \in Int : x = n - ref
      OBVIOUS
    <3>2. past - ref = x - DivisionRemainder(x, a.interval) /\ past \in Int
      BY <2>1, <2>2, <3>1, DivisionLeavesMultiple
    <3>3. QED
      BY <2>1, <3>2, DivisionLeavesMultiple
  <2>5. future \in Int /\ Multiple(a.interval, future - ref)
    <3>1. PICK x \in Int : x = ref - n
      OBVIOUS
    <3>2. PICK d \in Int : d = DivisionRemainder(x, a.interval) /\ Multiple(a.interval, x - d)
      BY <2>1, DivisionLeavesMultiple
    <3>3. Multiple(a.interval, (x - d) + a.interval)
      BY <2>1, <3>2, MultipleOfItself, MultiplesAdd
    <3>4. future - ref = - ((x - d) + a.interval) /\ future \in Int
      BY <2>1, <2>3, <3>1, <3>2
    <3>5. QED
      BY <2>1, <3>3, <3>4, MultiplesNegate
  <2>6. AdjustAlarm(dir, n, ref, a) \in {[a EXCEPT !.prev = past], [a EXCEPT !.prev = future]}
    BY <1>2, <2>2, <2>3 DEF AdjustAlarm
  <2>7. QED
    BY <1>2, <2>4, <2>5, <2>6 DEF OnGrid, AlarmType
<1>3. QED
  BY <1>1, <1>2
--------------------------------------------------------------------------------
GridInv == \A a \in Defined : OnGrid(alarms[a], origin[a])

(* Every variable keeps its type, and the sign of the time step follows    *)
(* the clock's direction.                                                  *)
THEOREM TypeCorrect == Spec => [](TypeOK /\ GridInv)
<1>1. Init => TypeOK /\ GridInv
  BY ClockAssumption DEF Init, TypeOK, GridInv, Times, Directions, Defined, Along
<1>2. TypeOK /\ GridInv /\ [Next]_vars => (TypeOK /\ GridInv)'
  <2> SUFFICES ASSUME TypeOK, GridInv, [Next]_vars PROVE TypeOK' /\ GridInv'
    OBVIOUS
  <2>0. /\ now \in Int /\ \A t \in Times : t \in Int
        /\ direction \in Directions /\ DOMAIN alarms = AlarmIDs
        /\ \A a \in AlarmIDs : origin[a] \in Int
    BY ClockAssumption DEF TypeOK, Times
  <2>1. ASSUME NEW b \in AlarmIDs, NEW v, NEW o \in Times,
               v = None \/ OnGrid(v, o),
               alarms' = [alarms EXCEPT ![b] = v], origin' = [origin EXCEPT ![b] = o],
               UNCHANGED <<now, direction, step>>
        PROVE  TypeOK' /\ GridInv'
    <3>1. ASSUME NEW a \in Defined' PROVE OnGrid(alarms'[a], origin'[a])
      <4>1. CASE a = b
        BY <2>0, <2>1, <3>1, <4>1 DEF Defined, TypeOK
      <4>2. CASE a # b
        BY <2>0, <2>1, <3>1, <4>2 DEF Defined, TypeOK, GridInv
      <4>3. QED
        BY <4>1, <4>2
    <3>2. QED
      BY <2>0, <2>1, <3>1 DEF TypeOK, GridInv, OnGrid
  <2>2. ASSUME NEW dir \in Directions, NEW t \in Times,
               alarms' = Calibrated(dir, t), direction' = dir, now' = t,
               step' \in Along(dir), UNCHANGED origin
        PROVE  TypeOK' /\ GridInv'
    <3>1. ASSUME NEW a \in Defined' PROVE OnGrid(alarms'[a], origin'[a])
      <4>1. a \in Defined /\ alarms'[a] = CalibrateAlarm(dir, t, alarms[a])
        BY <2>2, <3>1 DEF Defined, Calibrated
      <4>2. QED
        BY <2>0, <2>2, <4>1, CalibrateOnGrid DEF GridInv, Defined
    <3>2. QED
      BY <2>0, <2>2, <3>1 DEF TypeOK, GridInv, OnGrid, Calibrated
  <2>3. ASSUME NEW by, AdvanceClock(by) \/ (by \in Along(direction) /\ SetClockTimeStep(by))
        PROVE  TypeOK' /\ GridInv'
    BY <2>3 DEF AdvanceClock, SetClockTimeStep, TypeOK, GridInv, Defined
  <2>4. ASSUME NEW t \in Times, SetClockTime(t) PROVE TypeOK' /\ GridInv'
    BY <2>2, <2>4 DEF SetClockTime, TypeOK
  <2>5. ASSUME NEW dir \in Directions, SetClockDirection(dir) PROVE TypeOK' /\ GridInv'
    <3>1. step' \in Along(dir)
      BY <2>5, ClockAssumption DEF SetClockDirection, TypeOK, Directions, Along
    <3>2. now \in Times /\ now' = now /\ alarms' = Calibrated(dir, now) /\ direction' = dir
          /\ UNCHANGED origin
      BY <2>5 DEF SetClockDirection, TypeOK
    <3>3. QED
      BY <2>2, <3>1, <3>2
  <2>6. ASSUME NEW b \in AlarmIDs, NEW t \in Times, NEW i \in Intervals, AddAlarm(b, t, i)
        PROVE  TypeOK' /\ GridInv'
    <3>1. OnGrid(NewAlarm(direction, t, i), t)
      BY <2>0, ClockAssumption, NewAlarmOnGrid
    <3>2. QED
      BY <2>1, <2>6, <3>1 DEF AddAlarm
  <2>7. ASSUME NEW b \in AlarmIDs, RemoveAlarm(b) PROVE TypeOK' /\ GridInv'
    <3>1. origin[b] \in Times /\ origin' = [origin EXCEPT ![b] = origin[b]]
      BY <2>7 DEF RemoveAlarm, TypeOK
    <3>2. QED
      BY <2>1, <2>7, <3>1 DEF RemoveAlarm
  <2>8. ASSUME NEW b \in AlarmIDs, NEW look \in LookAheads, ResetClockAlarm(b, look)
        PROVE  TypeOK' /\ GridInv'
    <3>1. origin[b] \in Times /\ origin' = [origin EXCEPT ![b] = origin[b]]
      BY <2>8 DEF ResetClockAlarm, TypeOK
    <3>2. OnGrid(ResetAlarm(direction, now, alarms[b], look), origin[b])
      BY <2>0, <2>8, ClockAssumption, ResetOnGrid DEF ResetClockAlarm, GridInv
    <3>3. QED
      BY <2>1, <2>8, <3>1, <3>2 DEF ResetClockAlarm
  <2>9. ASSUME NEW b \in AlarmIDs, NEW ref \in Times, AdjustAlarmToReferenceTime(b, ref)
        PROVE  TypeOK' /\ GridInv'
    <3>1. OnGrid(AdjustAlarm(direction, now, ref, alarms[b]), ref)
      BY <2>0, <2>9, AdjustOnGrid DEF AdjustAlarmToReferenceTime, GridInv
    <3>2. QED
      BY <2>1, <2>9, <3>1 DEF AdjustAlarmToReferenceTime
  <2>10. CASE UNCHANGED vars
    BY <2>10 DEF vars, TypeOK, GridInv, Defined
  <2>11. QED
    BY <2>3, <2>4, <2>5, <2>6, <2>7, <2>8, <2>9, <2>10 DEF Next
<1>3. QED
  BY <1>1, <1>2, PTL DEF Spec

(* Resets with any look-ahead, jumps, turns and alignments, in any order,  *)
(* never take a recurring alarm off the grid it was last defined on.       *)
THEOREM RingTimesStayOnGrid == Spec => []RingsOnGrid
<1>1. TypeOK /\ GridInv => RingsOnGrid
  <2> SUFFICES ASSUME TypeOK, GridInv, NEW a \in Recurring
               PROVE  (alarms[a].prev - origin[a]) % alarms[a].interval = 0
    BY DEF RingsOnGrid
  <2>1. /\ a \in Defined /\ alarms[a].recurring
        /\ OnGrid(alarms[a], origin[a]) /\ origin[a] \in Int
    BY ClockAssumption DEF Recurring, Defined, GridInv, TypeOK, Times
  <2>2. PICK I \in Nat : I = alarms[a].interval /\ I > 0
    BY <2>1 DEF OnGrid, AlarmType
  <2>3. PICK x \in Int : x = alarms[a].prev - origin[a]
    BY <2>1 DEF OnGrid, AlarmType
  <2>4. Multiple(I, x)
    BY <2>1, <2>2, <2>3 DEF OnGrid
  <2>5. QED
    BY <2>2, <2>3, <2>4, MultipleIsRemainderFree
<1>2. QED
  BY <1>1, TypeCorrect, PTL
--------------------------------------------------------------------------------
(* Between n (excluded) and n + I there is one point of a grid of step I.  *)
LEMMA OnePointPerInterval ==
  ASSUME NEW I \in Nat, I > 0, NEW n \in Int, NEW x \in Int, NEW y \in Int,
         n < x, x <= n + I, n < y, y <= n + I, Multiple(I, x - y)
  PROVE  x = y
<1>1. PICK k \in Int : x - y = I * k
  BY DEF Multiple
<1>2. CASE k >= 1
  <2>1. I * k = I + I * (k - 1) /\ I * (k - 1) >= 0
    BY <1>2
  <2>2. QED
    BY <1>1, <2>1
<1>3. CASE k <= -1
  <2>1. I * k = - I - I * (- k - 1) /\ I * (- k - 1) >= 0
    BY <1>3
  <2>2. QED
    BY <1>1, <2>1
<1>4. CASE k = 0
  BY <1>1, <1>4
<1>5. QED
  BY <1>2, <1>3, <1>4

LEMMA RemainderRange ==
  ASSUME NEW I \in Nat, I > 0, NEW x \in Int
  PROVE  x % I \in Int /\ 0 <= x % I /\ x % I < I
OBVIOUS

(* A recurring alarm, its parts named. *)
LEMMA RecurringAlarm ==
  ASSUME TypeOK, GridInv, NEW a \in Recurring
  PROVE  /\ a \in AlarmIDs /\ a \in Defined /\ alarms[a].recurring
         /\ alarms[a].interval \in Nat /\ alarms[a].interval > 0
         /\ alarms[a].prev \in Int /\ origin[a] \in Int /\ now \in Int
         /\ Multiple(alarms[a].interval, alarms[a].prev - origin[a])
         /\ alarms[a] \in AlarmType
<1>1. a \in AlarmIDs /\ a \in Defined /\ alarms[a].recurring /\ OnGrid(alarms[a], origin[a])
  BY DEF Recurring, Defined, GridInv
<1>2. origin[a] \in Int /\ now \in Int
  BY <1>1, ClockAssumption DEF TypeOK, Times
<1>3. QED
  BY <1>1, <1>2 DEF OnGrid, AlarmType

(* The point of the grid of o that is first met from n on, forward: it is  *)
(* the next ring time of an alarm whose last one is the grid's last point  *)
(* before n.                                                               *)
LEMMA NextForward ==
  ASSUME NEW I \in Nat, I > 0, NEW o \in Int, NEW p \in Int, Multiple(I, p - o), NEW n \in Int
  PROVE  ((n - 1) - (((n - 1) - p) % I)) + I = n + ((o - n) % I)
<1> DEFINE r == ((n - 1) - p) % I
           s == (o - n) % I
           x == ((n - 1) - r) + I
           y == n + s
<1>1. r \in Int /\ 0 <= r /\ r < I /\ s \in Int /\ 0 <= s /\ s < I
  <2>1. (n - 1) - p \in Int /\ o - n \in Int
    OBVIOUS
  <2>2. QED
    BY <2>1, RemainderRange
<1>2. Multiple(I, ((n - 1) - p) - r) /\ Multiple(I, (o - n) - s)
  <2>1. (n - 1) - p \in Int /\ o - n \in Int
    OBVIOUS
  <2>2. QED
    BY <2>1, RemainderDivides
<1>3. Multiple(I, x - y)
  <2> HIDE DEF r, s
  <2>1. Multiple(I, (((n - 1) - p) - r) + (p - o))
    BY <1>1, <1>2, MultiplesAdd
  <2>2. (((n - 1) - p) - r) + (p - o) = (n - 1) - r - o
    BY <1>1
  <2>3. Multiple(I, ((n - 1) - r - o) + ((o - n) - s))
    BY <1>1, <1>2, <2>1, <2>2, MultiplesAdd
  <2>4. Multiple(I, (((n - 1) - r - o) + ((o - n) - s)) + I)
    BY <1>1, <2>3, MultipleOfItself, MultiplesAdd
  <2>5. (((n - 1) - r - o) + ((o - n) - s)) + I = x - y
    BY <1>1
  <2>6. QED
    BY <2>4, <2>5
<1>4. x \in Int /\ y \in Int /\ n - 1 < x /\ x <= (n - 1) + I /\ n - 1 < y /\ y <= (n - 1) + I
  <2> HIDE DEF r, s
  <2>1. QED
    BY <1>1
<1>5. x = y
  <2> HIDE DEF x, y
  <2>1. n - 1 \in Int
    OBVIOUS
  <2>2. QED
    BY <1>3, <1>4, <2>1, OnePointPerInterval
<1>6. QED
  BY <1>5

(* The same for a clock that runs backward: times are mirrored.            *)
LEMMA NextBackward ==
  ASSUME NEW I \in Nat, I > 0, NEW o \in Int, NEW p \in Int, Multiple(I, p - o), NEW n \in Int
  PROVE  ((n + 1) + ((p - (n + 1)) % I)) - I = n - ((n - o) % I)
<1>1. PICK m \in Int, q \in Int, c \in Int : m = - n /\ q = - p /\ c = - o
  OBVIOUS
<1>2. q - c = - (p - o) /\ p - o \in Int
  BY <1>1
<1>3. Multiple(I, q - c)
  BY <1>2, MultiplesNegate
<1>4. ((m - 1) - (((m - 1) - q) % I)) + I = m + ((c - m) % I)
  BY ONLY <1>3, NextForward, I \in Nat, I > 0, m \in Int, q \in Int, c \in Int
<1>5. (m - 1) - q = p - (n + 1) /\ c - m = n - o
  BY <1>1
<1>6. PICK r \in Int, s \in Int : r = (p - (n + 1)) % I /\ s = (n - o) % I
  BY RemainderRange
<1>7. QED
  BY <1>1, <1>4, <1>5, <1>6
--------------------------------------------------------------------------------
(* mpas_reset_clock_alarm: the alarm rings next at the first of its ring   *)
(* times beyond what the caller has looked at.                             *)
LEMMA ResetRingsFirst ==
  ASSUME NEW dir \in Directions, NEW I \in Nat, I > 0, NEW o \in Int,
         NEW a \in AlarmType, a.recurring, a.interval = I, Multiple(I, a.prev - o),
         NEW t \in Int, NEW look \in Nat, InRingingEnvelope(dir, t, a, look)
  PROVE  NextRingTime(dir, ResetAlarm(dir, t, a, look))
           = LET n == Ahead(dir, t, look + 1)
             IN  IF dir = "forward" THEN n + ((o - n) % I) ELSE n - ((n - o) % I)
<1>1. PICK p \in Int : p = a.prev
  BY DEF AlarmType
<1> Multiple(I, p - o)
  BY <1>1
<1>2. PICK e \in Int : e = Ahead(dir, t, look)
  BY DEF Ahead
<1>3. PICK q : q = RingTimeWithin(dir, e, a)
  OBVIOUS
<1>4. ResetAlarm(dir, t, a, look) = [a EXCEPT !.prev = q]
  BY <1>2, <1>3 DEF ResetAlarm
<1>5. NextRingTime(dir, ResetAlarm(dir, t, a, look)) = Ahead(dir, q, I)
  BY <1>4 DEF NextRingTime, AlarmType
<1>6. CASE dir = "forward"
  <2>1. PICK n \in Int : n = Ahead(dir, t, look + 1) /\ n - 1 = e
    BY <1>2, <1>6 DEF Ahead
  <2>2. p + I <= e
    BY <1>1, <1>2, <1>6 DEF InRingingEnvelope, Threshold, NextRingTime, Reached, Ahead
  <2>3. DivisionRemainder(e - p, I) = (e - p) % I
    BY <2>2 DEF DivisionRemainder
  <2>4. q = (n - 1) - (((n - 1) - p) % I)
    BY <1>1, <1>3, <1>6, <2>1, <2>3 DEF RingTimeWithin
  <2>5. ((n - 1) - (((n - 1) - p) % I)) + I = n + ((o - n) % I)
    BY ONLY I \in Nat, I > 0, o \in Int, p \in Int, n \in Int, Multiple(I, p - o), NextForward
  <2>6. Ahead(dir, q, I) = q + I
    BY <1>6 DEF Ahead
  <2>7. QED
    BY <1>5, <1>6, <2>1, <2>4, <2>5, <2>6
<1>7. CASE dir # "forward"
  <2>1. PICK n \in Int : n = Ahead(dir, t, look + 1) /\ n + 1 = e
    BY <1>2, <1>7 DEF Ahead
  <2>2. p - I >= e
    BY <1>1, <1>2, <1>7 DEF InRingingEnvelope, Threshold, NextRingTime, Reached, Ahead
  <2>3. DivisionRemainder(p - e, I) = (p - e) % I
    BY <2>2 DEF DivisionRemainder
  <2>4. q = (n + 1) + ((p - (n + 1)) % I)
    BY <1>1, <1>3, <1>7, <2>1, <2>3 DEF RingTimeWithin
  <2>5. ((n + 1) + ((p - (n + 1)) % I)) - I = n - ((n - o) % I)
    BY ONLY I \in Nat, I > 0, o \in Int, p \in Int, n \in Int, Multiple(I, p - o), NextBackward
  <2>6. Ahead(dir, q, I) = q - I
    BY <1>7 DEF Ahead
  <2>7. QED
    BY <1>5, <1>7, <2>1, <2>4, <2>5, <2>6
<1>8. QED
  BY <1>6, <1>7

(* mpas_calibrate_alarms: the alarm rings next at the first of its ring    *)
(* times from the clock's time on.                                         *)
LEMMA CalibrateRingsFirst ==
  ASSUME NEW dir \in Directions, NEW I \in Nat, I > 0, NEW o \in Int,
         NEW a \in AlarmType, a.recurring, a.interval = I, Multiple(I, a.prev - o),
         NEW n \in Int
  PROVE  NextRingTime(dir, CalibrateAlarm(dir, n, a))
           = IF dir = "forward" THEN n + ((o - n) % I) ELSE n - ((n - o) % I)
<1>1. PICK p \in Int : p = a.prev
  BY DEF AlarmType
<1> Multiple(I, p - o)
  BY <1>1
<1>2. CASE dir = "forward"
  <2>1. PICK q : q = NegativeNeighbor(n, a)
    OBVIOUS
  <2>2. q = (n - 1) - (((n - 1) - p) % I)
    BY <1>1, <2>1 DEF NegativeNeighbor
  <2>3. CalibrateAlarm(dir, n, a) = [a EXCEPT !.prev = q]
    BY <1>2, <2>1 DEF CalibrateAlarm
  <2>4. NextRingTime(dir, CalibrateAlarm(dir, n, a)) = q + I
    BY <1>2, <2>3 DEF NextRingTime, AlarmType, Ahead
  <2>5. ((n - 1) - (((n - 1) - p) % I)) + I = n + ((o - n) % I)
    BY ONLY I \in Nat, I > 0, o \in Int, p \in Int, n \in Int, Multiple(I, p - o), NextForward
  <2>6. (n - 1) - p \in Int /\ ((n - 1) - p) % I \in Int /\ (o - n) % I \in Int
    BY <1>1, RemainderRange
  <2>7. QED
    BY <1>2, <2>2, <2>4, <2>5, <2>6
<1>3. CASE dir # "forward"
  <2>1. PICK q : q = PositiveNeighbor(n, a)
    OBVIOUS
  <2>2. q = (n + 1) + ((p - (n + 1)) % I)
    <3>1. p - n - 1 = p - (n + 1)
      BY <1>1
    <3>2. QED
      BY <1>1, <2>1, <3>1 DEF PositiveNeighbor
  <2>3. CalibrateAlarm(dir, n, a) = [a EXCEPT !.prev = q]
    BY <1>3, <2>1 DEF CalibrateAlarm
  <2>4. NextRingTime(dir, CalibrateAlarm(dir, n, a)) = q - I
    BY <1>3, <2>3 DEF NextRingTime, AlarmType, Ahead
  <2>5. ((n + 1) + ((p - (n + 1)) % I)) - I = n - ((n - o) % I)
    BY ONLY I \in Nat, I > 0, o \in Int, p \in Int, n \in Int, Multiple(I, p - o), NextBackward
  <2>6. p - (n + 1) \in Int /\ (p - (n + 1)) % I \in Int /\ (n - o) % I \in Int
    BY <1>1, RemainderRange
  <2>7. QED
    BY <1>3, <2>2, <2>4, <2>5, <2>6
<1>4. QED
  BY <1>2, <1>3

(* mpas_adjust_alarm_to_reference_time, forward: within one interval.      *)
LEMMA AdjustRingsSoon ==
  ASSUME NEW a \in AlarmType, a.recurring, a.interval > 0,
         NEW n \in Int, NEW ref \in Int
  PROVE  LET next == NextRingTime("forward", AdjustAlarm("forward", n, ref, a))
         IN  n <= next /\ next <= n + a.interval
<1>1. PICK I \in Nat : I = a.interval /\ I > 0
  BY DEF AlarmType
<1>2. CASE n > ref
  <2>1. PICK d : d = DivisionRemainder(n - ref, I)
    OBVIOUS
  <2>2. n - ref \in Int /\ (n - ref) % I \in Int /\ 0 <= (n - ref) % I /\ (n - ref) % I < I
    BY <1>1, RemainderRange
  <2>3. d \in Int /\ 0 <= d /\ d < I
    BY <1>1, <1>2, <2>1, <2>2 DEF DivisionRemainder
  <2>4. AdjustAlarm("forward", n, ref, a) = [a EXCEPT !.prev = n - d]
    BY <1>1, <1>2, <2>1 DEF AdjustAlarm
  <2>5. NextRingTime("forward", AdjustAlarm("forward", n, ref, a)) = (n - d) + I
    BY <1>1, <2>4 DEF NextRingTime, Ahead, AlarmType
  <2>6. QED
    BY <1>1, <2>3, <2>5
<1>3. CASE ~ (n > ref)
  <2>1. PICK d : d = DivisionRemainder(ref - n, I)
    OBVIOUS
  <2>2. ref - n \in Int /\ (ref - n) % I \in Int /\ 0 <= (ref - n) % I /\ (ref - n) % I < I
    BY <1>1, RemainderRange
  <2>3. d \in Int /\ 0 <= d /\ d < I
    BY <1>1, <1>3, <2>1, <2>2 DEF DivisionRemainder
  <2>4. AdjustAlarm("forward", n, ref, a) = [a EXCEPT !.prev = n - (I - d)]
    BY <1>1, <1>3, <2>1 DEF AdjustAlarm
  <2>5. NextRingTime("forward", AdjustAlarm("forward", n, ref, a)) = (n - (I - d)) + I
    BY <1>1, <2>4 DEF NextRingTime, Ahead, AlarmType
  <2>6. QED
    BY <1>1, <2>3, <2>5
<1>4. QED
  BY <1>2, <1>3

(* A reset loses no ring and repeats none, for every look-ahead and after  *)
(* any history of the clock (mpas_reset_clock_alarm).                      *)
THEOREM ResetsSkipNothing == Spec => ResetSkipsNothing
<1>1. TypeOK /\ GridInv /\ [Next]_vars =>
        [\A a \in Recurring, look \in LookAheads :
           ResetClockAlarm(a, look) /\ InRingingEnvelope(direction, now, alarms[a], look)
             => NextRingTime(direction, alarms'[a])
                  = FirstFrom(a, Ahead(direction, now, look + 1))]_vars
  <2> SUFFICES ASSUME TypeOK, GridInv, NEW a \in Recurring, NEW look \in LookAheads,
                      ResetClockAlarm(a, look),
                      InRingingEnvelope(direction, now, alarms[a], look)
               PROVE  NextRingTime(direction, alarms'[a])
                        = FirstFrom(a, Ahead(direction, now, look + 1))
    OBVIOUS
  <2>1. PICK I \in Nat : I = alarms[a].interval /\ I > 0
    BY RecurringAlarm
  <2>2. PICK o \in Int : o = origin[a] /\ Multiple(I, alarms[a].prev - o)
    BY <2>1, RecurringAlarm
  <2>3. /\ alarms[a] \in AlarmType /\ alarms[a].recurring /\ now \in Int
        /\ direction \in Directions /\ look \in Nat
    BY RecurringAlarm, ClockAssumption DEF TypeOK
  <2>4. alarms'[a] = ResetAlarm(direction, now, alarms[a], look)
    BY RecurringAlarm DEF ResetClockAlarm, TypeOK
  <2>5. NextRingTime(direction, ResetAlarm(direction, now, alarms[a], look))
          = LET n == Ahead(direction, now, look + 1)
            IN  IF direction = "forward" THEN n + ((o - n) % I) ELSE n - ((n - o) % I)
    <3>1. PICK b \in AlarmType : b = alarms[a]
      BY <2>3
    <3>2. PICK t \in Int, dir \in Directions, ahead \in Nat :
            t = now /\ dir = direction /\ ahead = look
      BY <2>3
    <3>3. b.recurring
      BY <2>3, <3>1
    <3>4. b.interval = I
      BY <2>1, <3>1
    <3>5. Multiple(I, b.prev - o)
      BY <2>2, <3>1
    <3>6. InRingingEnvelope(dir, t, b, ahead)
      BY <3>1, <3>2
    <3>7. NextRingTime(dir, ResetAlarm(dir, t, b, ahead))
            = LET n == Ahead(dir, t, ahead + 1)
              IN  IF dir = "forward" THEN n + ((o - n) % I) ELSE n - ((n - o) % I)
      BY ONLY <2>1, <3>3, <3>4, <3>5, <3>6, I \in Nat, o \in Int, b \in AlarmType,
              t \in Int, dir \in Directions, ahead \in Nat, ResetRingsFirst
    <3>8. QED
      BY <3>1, <3>2, <3>7
  <2>6. QED
    BY <2>1, <2>2, <2>4, <2>5 DEF FirstFrom
<1>2. QED
  BY <1>1, TypeCorrect, PTL DEF Spec, ResetSkipsNothing

(* After a jump or a turn every alarm rings at the first of its times that *)
(* is not behind the clock (mpas_calibrate_alarms).                        *)
THEOREM CalibrationRingsNext == Spec => CalibratedRingsNext
<1>1. TypeOK /\ GridInv /\ [Next]_vars =>
        [(\E time \in Times : SetClockTime(time)) \/ (\E dir \in Directions : SetClockDirection(dir))
           => \A a \in Recurring : NextRingTime(direction', alarms'[a]) = FirstFrom(a, now)']_vars
  <2> SUFFICES ASSUME TypeOK, GridInv, NEW a \in Recurring,
                      (\E time \in Times : SetClockTime(time))
                        \/ (\E dir \in Directions : SetClockDirection(dir))
               PROVE  NextRingTime(direction', alarms'[a]) = FirstFrom(a, now)'
    OBVIOUS
  <2>1. PICK I \in Nat : I = alarms[a].interval /\ I > 0
    BY RecurringAlarm
  <2>2. PICK o \in Int : o = origin[a] /\ Multiple(I, alarms[a].prev - o)
    BY <2>1, RecurringAlarm
  <2>3. alarms[a] \in AlarmType /\ alarms[a].recurring /\ a \in Defined /\ a \in AlarmIDs
    BY RecurringAlarm
  <2>4. PICK d \in Directions, n \in Int :
          d = direction' /\ n = now' /\ alarms' = Calibrated(d, n) /\ origin' = origin
    BY ClockAssumption DEF SetClockTime, SetClockDirection, TypeOK, Times
  <2>5. alarms'[a] = CalibrateAlarm(d, n, alarms[a])
    BY <2>3, <2>4 DEF Calibrated
  <2>6. alarms'[a].interval = I
    BY <2>1, <2>3, <2>5 DEF CalibrateAlarm, AlarmType
  <2>7. NextRingTime(d, CalibrateAlarm(d, n, alarms[a]))
          = IF d = "forward" THEN n + ((o - n) % I) ELSE n - ((n - o) % I)
    <3>1. PICK b \in AlarmType : b = alarms[a]
      BY <2>3
    <3>2. b.recurring
      BY <2>3, <3>1
    <3>3. b.interval = I
      BY <2>1, <3>1
    <3>4. Multiple(I, b.prev - o)
      BY <2>2, <3>1
    <3>5. NextRingTime(d, CalibrateAlarm(d, n, b))
            = IF d = "forward" THEN n + ((o - n) % I) ELSE n - ((n - o) % I)
      <4>1. I > 0
        BY <2>1
      <4>2. QED
        BY ONLY <3>2, <3>3, <3>4, <4>1, I \in Nat, o \in Int, b \in AlarmType,
                n \in Int, d \in Directions, CalibrateRingsFirst, Zenon
    <3>6. QED
      BY <3>1, <3>5
  <2>8. QED
    BY <2>2, <2>4, <2>5, <2>6, <2>7 DEF FirstFrom
<1>2. QED
  BY <1>1, TypeCorrect, PTL DEF Spec, CalibratedRingsNext

(* Aligned with any reference time, an alarm of a forward clock rings      *)
(* within one interval (mpas_adjust_alarm_to_reference_time).              *)
THEOREM AdjustmentRingsSoon == Spec => AdjustedRingsSoon
<1>1. TypeOK /\ GridInv /\ [Next]_vars =>
        [\A a \in Recurring, ref \in Times :
           AdjustAlarmToReferenceTime(a, ref) /\ direction = "forward"
             => LET next == NextRingTime(direction, alarms'[a])
                IN  now <= next /\ next <= now + alarms[a].interval]_vars
  <2> SUFFICES ASSUME TypeOK, GridInv, NEW a \in Recurring, NEW ref \in Times,
                      AdjustAlarmToReferenceTime(a, ref), direction = "forward"
               PROVE  LET next == NextRingTime(direction, alarms'[a])
                      IN  now <= next /\ next <= now + alarms[a].interval
    OBVIOUS
  <2>1. /\ alarms[a] \in AlarmType /\ alarms[a].recurring /\ alarms[a].interval > 0
        /\ now \in Int /\ ref \in Int /\ a \in AlarmIDs
    BY RecurringAlarm, ClockAssumption DEF Times
  <2>2. alarms'[a] = AdjustAlarm("forward", now, ref, alarms[a])
    BY <2>1 DEF AdjustAlarmToReferenceTime, TypeOK
  <2>3. QED
    BY <2>1, <2>2, AdjustRingsSoon
<1>2. QED
  BY <1>1, TypeCorrect, PTL DEF Spec, AdjustedRingsSoon
=============================================================================
