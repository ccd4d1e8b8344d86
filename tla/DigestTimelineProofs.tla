------------------------ MODULE DigestTimelineProofs ------------------------
(***************************************************************************)
(* The digest loop over its clock, for any resolution of the clock, any    *)
(* configuration, and any number of crashes, failing runs, lost Redis      *)
(* calls and closings of the gate: no schedule runs twice in one of its    *)
(* periods, and each is served in time.                                    *)
(***************************************************************************)
EXTENDS DigestTimeline, FiniteSetTheorems, TLAPS

LEMMA Constants ==
    /\ SlotsPerHour \in Nat /\ SlotsPerHour > 0
    /\ CheckEvery \in Nat /\ Horizon \in Nat /\ KeyTtl \in Nat
    /\ KeyTtl >= 168 * SlotsPerHour
    /\ MaxBusy \in Nat /\ MaxCrash \in Nat /\ MaxRaise \in Nat
    /\ MaxRedisFault \in Nat /\ MaxPause \in Nat
    BY CalendarAssumption, TimelineAssumption DEF Hours

-----------------------------------------------------------------------------
\* The calendar

\* Division by a number that is not known
LEMMA Division ==
    ASSUME NEW t \in Nat, NEW k \in Nat, k > 0
    PROVE  /\ t \div k \in Nat
           /\ k * (t \div k) <= t
           /\ t < k * (t \div k) + k
    OBVIOUS

LEMMA Positive ==
    ASSUME NEW k \in Nat, k > 0, NEW x \in Int, k * x > 0
    PROVE  x > 0
    OBVIOUS

LEMMA Smaller ==
    ASSUME NEW k \in Nat, k > 0, NEW x \in Int, NEW y \in Int, x < y
    PROVE  k * x + k <= k * y
    OBVIOUS

LEMMA HourBounds ==
    ASSUME NEW t \in Nat
    PROVE  /\ HourNo(t) \in Nat
           /\ SlotsPerHour * HourNo(t) <= t
           /\ t < SlotsPerHour * HourNo(t) + SlotsPerHour
    BY Division, Constants DEF HourNo

\* As many hours apart by the clock as by its slots
LEMMA HoursApart ==
    ASSUME NEW t \in Nat, NEW u \in Nat, NEW n \in Nat, t - u >= Hours(n)
    PROVE  HourNo(t) - HourNo(u) >= n
<1> DEFINE k == SlotsPerHour
           h == HourNo(t)
           g == HourNo(u)
<1>1. k \in Nat /\ k > 0 /\ h \in Nat /\ g \in Nat
    BY Constants, HourBounds
<1>2. t < k * h + k /\ k * g <= u /\ t - u >= k * n
    BY HourBounds, Constants DEF Hours
<1> HIDE DEF k, h, g
<1>3. k * (h + 1 - g - n) > 0
  <2>1. k * (h + 1 - g - n) = k * h + k - k * g - k * n
      BY <1>1
  <2>2. k * h \in Nat /\ k * g \in Nat /\ k * n \in Nat
      BY <1>1
  <2> QED BY <1>1, <1>2, <2>1, <2>2
<1>4. h + 1 - g - n > 0
    BY <1>1, <1>3, Positive
<1>5. h - g >= n
    BY <1>1, <1>4
<1> QED BY <1>5 DEF h, g

LEMMA HoursInOrder ==
    ASSUME NEW t \in Nat, NEW u \in Nat, u <= t
    PROVE  HourNo(u) <= HourNo(t)
<1>1. Hours(0) = 0
    BY Constants DEF Hours
<1>2. HourNo(t) - HourNo(u) >= 0
    BY <1>1, HoursApart
<1> QED BY <1>2, HourBounds

LEMMA WindowIsHours ==
    \A s \in Schedule : WindowHours(s) \in {1, 4, 6, 12, 24, 168}
    BY DEF Schedule, WindowHours

\* Whoever is a whole window apart is in another period.
LEMMA FarIsNew ==
    ASSUME NEW s \in Schedule, NEW t \in Nat, NEW u \in Nat, t - u >= Hours(WindowHours(s))
    PROVE  ~SamePeriod(s, t, u)
<1>1. HourNo(t) \in Nat /\ HourNo(u) \in Nat
    BY HourBounds
<1>2. HourNo(t) - HourNo(u) >= WindowHours(s)
    BY WindowIsHours, HoursApart
<1>3. CASE s = "weekly"
    BY <1>1, <1>2, <1>3 DEF SamePeriod, Day, WindowHours
<1>4. CASE s # "weekly"
  <2>1. WindowHours(s) \in {1, 4, 6, 12, 24}
      BY <1>4 DEF Schedule, WindowHours
  <2>2. HourNo(t) \div WindowHours(s) > HourNo(u) \div WindowHours(s)
      BY <1>1, <1>2, <2>1
  <2> QED BY <1>1, <1>4, <2>1, <2>2 DEF SamePeriod
<1> QED BY <1>3, <1>4

\* No due test answers for a period in which the schedule has run.
LEMMA DueIsNew ==
    ASSUME NEW s \in Schedule, NEW t \in Nat, NEW u \in Nat, u <= t, Due(s, u, t)
    PROVE  ~SamePeriod(s, t, u)
<1> DEFINE h == HourNo(t)
           g == HourNo(u)
<1>1. h \in Nat /\ g \in Nat /\ g <= h
    BY HourBounds, HoursInOrder
<1>2. u # Never
    BY DEF Never
<1>3. CASE s = "hourly"
  <2>1. t - u >= Hours(WindowHours(s))
      BY <1>2, <1>3 DEF Due, HourlyDue, WindowHours
  <2> QED BY <2>1, FarIsNew
<1>4. CASE s \in {"every_4h", "every_6h", "every_12h"}
  <2>1. EveryDue(WindowHours(s), u, t)
      BY <1>4 DEF Due
  <2>2. CASE t - u >= Hours(WindowHours(s))
      BY <2>2, FarIsNew
  <2>3. CASE Hour(t) # Hour(u)
    <3>1. WindowHours(s) \in {4, 6, 12}
        BY <1>4 DEF WindowHours
    <3>2. (h % 24) % WindowHours(s) = 0 /\ h # g
        BY <2>1, <2>3 DEF EveryDue, Hour
    <3> HIDE DEF h, g
    <3>3. h \div WindowHours(s) # g \div WindowHours(s)
        BY <1>1, <3>1, <3>2
    <3> QED BY <1>4, <3>3 DEF SamePeriod, h, g
  <2> QED BY <1>2, <2>1, <2>2, <2>3 DEF EveryDue
<1>5. CASE s = "daily"
  <2>1. DailyDue(u, t)
      BY <1>5 DEF Due
  <2>2. CASE t - u >= Hours(24)
      BY <1>5, <2>2, FarIsNew DEF WindowHours
  <2>3. CASE Day(t) > Day(u)
      BY <1>1, <1>5, <2>3 DEF SamePeriod, Day, WindowHours
  <2> QED BY <1>2, <2>1, <2>2, <2>3 DEF DailyDue
<1>6. CASE s = "weekly"
  <2>1. Day(t) - Day(u) >= 7
      BY <1>2, <1>6 DEF Due, WeeklyDue
  <2> QED BY <1>1, <1>6, <2>1 DEF SamePeriod, Day
<1> QED BY <1>3, <1>4, <1>5, <1>6 DEF Schedule

-----------------------------------------------------------------------------
\* Type correctness

\* Some schedule of a set is listed first.
LEMMA ForemostIsIn ==
    ASSUME NEW S \in SUBSET Schedule, S # {}
    PROVE  Foremost(S) \in S
<1> DEFINE IsFirst(s) == \A u \in S : ScheduleOrder[s] <= ScheduleOrder[u]
<1>1. \E s \in S : IsFirst(s)
  <2>1. CASE "hourly" \in S
      BY <2>1 DEF Schedule, ScheduleOrder
  <2>2. CASE "hourly" \notin S /\ "every_4h" \in S
      BY <2>2 DEF Schedule, ScheduleOrder
  <2>3. CASE "hourly" \notin S /\ "every_4h" \notin S /\ "every_6h" \in S
      BY <2>3 DEF Schedule, ScheduleOrder
  <2>4. CASE S \subseteq {"every_12h", "daily", "weekly"} /\ "every_12h" \in S
      BY <2>4 DEF Schedule, ScheduleOrder
  <2>5. CASE S \subseteq {"daily", "weekly"} /\ "daily" \in S
      BY <2>5 DEF Schedule, ScheduleOrder
  <2>6. CASE S \subseteq {"weekly"}
    <3>1. S = {"weekly"}
        BY <2>6
    <3> QED BY <3>1 DEF ScheduleOrder
  <2> QED BY <2>1, <2>2, <2>3, <2>4, <2>5, <2>6 DEF Schedule
<1> QED BY <1>1 DEF Foremost

LEMMA CurrentIsDue ==
    ASSUME TypeOK, pc \in {"process", "mark"}
    PROVE  Current \in due /\ Current \in Considered /\ Rest \subseteq due
    BY ForemostIsIn, TimelineAssumption DEF TypeOK, Current, Rest

\* How a pass goes on is of the right type.
LEMMA EndOfPassType ==
    ASSUME TypeOK, EndOfPass(Rest), due' = Rest
    PROVE  /\ pc' \in Step /\ boot' \in BOOLEAN
           /\ pc' \in {"process", "mark"} <=> due' # {}
           /\ wake' \in 0..(Horizon + CheckEvery)
<1>1. now + CheckEvery \in 0..(Horizon + CheckEvery) /\ wake \in 0..(Horizon + CheckEvery)
    BY Constants DEF TypeOK, Time
<1> QED BY <1>1 DEF EndOfPass, Sleep, Step, TypeOK

LEMMA InitType == Init => TypeOK
<1> SUFFICES ASSUME Init PROVE TypeOK
    OBVIOUS
<1>1. now \in Time /\ now \in 0..(Horizon + CheckEvery)
    BY TimelineAssumption, Constants DEF Init, Time
<1>2. stored \in [Considered -> {NoKey} \cup [at : Time, expires : 0..(Horizon + KeyTtl)]]
    BY DEF Init
<1>3. crashes \in 0..MaxCrash /\ raises \in 0..MaxRaise /\ redisFaults \in 0..MaxRedisFault
      /\ pauses \in 0..MaxPause /\ busy \in 0..MaxBusy
    BY Constants DEF Init
<1>4. pc \in Step /\ due \subseteq Considered /\ (pc \in {"process", "mark"} <=> due # {})
    BY DEF Init, Step
<1>5. gate \in BOOLEAN /\ boot \in BOOLEAN
    BY DEF Init
<1> QED BY <1>1, <1>2, <1>3, <1>4, <1>5 DEF Init, TypeOK

LEMMA LoadType ==
    ASSUME TypeOK, LoadScheduleTimes
    PROVE  TypeOK'
<1>1. \A s \in Considered : Recalled(s) \in Time \cup {Never}
    BY DEF Recalled, Live, TypeOK
<1>2. lastRun' \in [Considered -> Time \cup {Never}]
    BY <1>1 DEF LoadScheduleTimes
<1>3. redisFaults' \in 0..MaxRedisFault
    BY Constants DEF LoadScheduleTimes, TypeOK
<1>4. pc' = "start" /\ due' = {}
    BY DEF LoadScheduleTimes, TypeOK
<1> QED BY <1>2, <1>3, <1>4 DEF LoadScheduleTimes, TypeOK, Step

LEMMA StartType ==
    ASSUME TypeOK, StartRun
    PROVE  TypeOK'
<1>1. redisFaults' \in 0..MaxRedisFault
    BY Constants DEF StartRun, TypeOK
<1>2. boot' \in BOOLEAN /\ (boot' => Configured # {})
    BY DEF StartRun
<1>3. due' \subseteq Considered /\ pc' \in Step /\ (pc' \in {"process", "mark"} <=> due' # {})
    BY <1>2 DEF StartRun, Configured, Step
<1> QED BY <1>1, <1>2, <1>3 DEF StartRun, history, TypeOK

LEMMA PassType ==
    ASSUME TypeOK, GetDueSchedules \/ ProcessReturns \/ Wake
    PROVE  TypeOK'
<1>1. CASE GetDueSchedules
  <2>1. wake' \in 0..(Horizon + CheckEvery)
      BY <1>1, Constants DEF GetDueSchedules, Sleep, TypeOK, Time
  <2>2. due' \subseteq Considered /\ pc' \in Step /\ (pc' \in {"process", "mark"} <=> due' # {})
      BY <1>1 DEF GetDueSchedules, Sleep, DueNow, Step
  <2> QED BY <1>1, <2>1, <2>2 DEF GetDueSchedules, history, bounds, TypeOK
<1>2. CASE ProcessReturns
    BY <1>2 DEF ProcessReturns, history, bounds, TypeOK, Step
<1>3. CASE Wake
    BY <1>3 DEF Wake, history, bounds, TypeOK, Step
<1> QED BY <1>1, <1>2, <1>3

LEMMA EndType ==
    ASSUME TypeOK, ProcessRaises \/ MarkScheduleRun
    PROVE  TypeOK'
<1>1. Current \in Considered /\ due' \subseteq Considered
    BY CurrentIsDue DEF ProcessRaises, MarkScheduleRun, TypeOK
<1>2. /\ pc' \in Step /\ boot' \in BOOLEAN /\ (pc' \in {"process", "mark"} <=> due' # {})
      /\ wake' \in 0..(Horizon + CheckEvery)
    BY EndOfPassType DEF ProcessRaises, MarkScheduleRun
<1>3. busy' \in 0..MaxBusy
    BY Constants DEF ProcessRaises, MarkScheduleRun
<1>4. CASE ProcessRaises
  <2>1. raises' \in 0..MaxRaise
      BY <1>4, Constants DEF ProcessRaises, TypeOK
  <2> QED BY <1>1, <1>2, <1>3, <1>4, <2>1 DEF ProcessRaises, TypeOK
<1>5. CASE MarkScheduleRun
  <2>1. redisFaults' \in 0..MaxRedisFault
      BY <1>5, Constants DEF MarkScheduleRun, TypeOK
  <2>2. stored' \in [Considered -> {NoKey} \cup [at : Time, expires : 0..(Horizon + KeyTtl)]]
    <3>1. [at |-> stamp, expires |-> now + KeyTtl] \in [at : Time, expires : 0..(Horizon + KeyTtl)]
        BY Constants DEF TypeOK, Time
    <3> QED BY <1>1, <1>5, <3>1 DEF MarkScheduleRun, Remember, TypeOK
  <2>3. /\ lastRun' \in [Considered -> Time \cup {Never}]
        /\ marked' \in [Considered -> Time \cup {Never}]
      BY <1>1, <1>5 DEF MarkScheduleRun, TypeOK
  <2> QED BY <1>1, <1>2, <1>3, <1>5, <2>1, <2>2, <2>3 DEF MarkScheduleRun, TypeOK
<1> QED BY <1>4, <1>5

LEMMA OutsideType ==
    ASSUME TypeOK, Tick \/ CloseGate \/ OpenGate \/ Crash \/ UNCHANGED vars
    PROVE  TypeOK'
<1>1. CASE Tick
  <2>1. now' \in Time /\ busy' \in 0..MaxBusy
      BY <1>1, Constants DEF Tick, TypeOK, Time
  <2> QED BY <1>1, <2>1 DEF Tick, history, bounds, TypeOK
<1>2. CASE CloseGate
  <2>1. pauses' \in 0..MaxPause
      BY <1>2, Constants DEF CloseGate, TypeOK
  <2> QED BY <1>2, <2>1 DEF CloseGate, loop, history, TypeOK
<1>3. CASE OpenGate
    BY <1>3 DEF OpenGate, loop, bounds, TypeOK
<1>4. CASE Crash
  <2>1. crashes' \in 0..MaxCrash /\ busy' \in 0..MaxBusy
      BY <1>4, Constants DEF Crash, TypeOK
  <2>2. lastRun' \in [Considered -> Time \cup {Never}]
      BY <1>4 DEF Crash
  <2> QED BY <1>4, <2>1, <2>2 DEF Crash, history, TypeOK, Step
<1>5. CASE UNCHANGED vars
    BY <1>5 DEF vars, loop, history, bounds, TypeOK
<1> QED BY <1>1, <1>2, <1>3, <1>4, <1>5

LEMMA NextType == TypeOK /\ [Next]_vars => TypeOK'
    BY LoadType, StartType, PassType, EndType, OutsideType DEF Next, Run, EndOfTime

\* Every variable of the loop, of the scheduler and of their Redis keys stays
\* in its type, whatever the configuration and the resolution of the clock.
THEOREM SpecTypeOK == Spec => []TypeOK
    BY InitType, NextType, PTL DEF Spec

-----------------------------------------------------------------------------
\* Once per period: what is recalled after a restart is the last run or lies
\* so far back that its key has expired, and what is due in a pass has not run
\* in the period of the pass.

ClockInOrder ==
    /\ stamp <= now /\ steady <= now
    /\ \A s \in Considered : marked[s] <= stamp

KeysKept ==
    redisFaults = 0 => \A s \in Considered :
        IF marked[s] = Never THEN stored[s] = NoKey
        ELSE stored[s].at = marked[s] /\ stored[s].expires >= marked[s] + KeyTtl

RunsRecalled ==
    (redisFaults = 0 /\ pc # "down") => \A s \in Considered :
        \/ lastRun[s] = marked[s]
        \/ lastRun[s] = Never /\ steady - marked[s] >= KeyTtl

NoneRepeats ==
    redisFaults = 0 => \A s \in due : marked[s] # Never => ~SamePeriod(s, stamp, marked[s])

OnceInv == TypeOK /\ ClockInOrder /\ KeysKept /\ RunsRecalled /\ NoneRepeats

LEMMA FaultsStay ==
    ASSUME TypeOK, [Next]_vars, redisFaults' = 0
    PROVE  redisFaults = 0
<1>1. redisFaults \in Nat
    BY Constants DEF TypeOK
<1>2. CASE LoadScheduleTimes
    BY <1>1, <1>2 DEF LoadScheduleTimes
<1>3. CASE StartRun
    BY <1>1, <1>3 DEF StartRun
<1>4. CASE MarkScheduleRun
    BY <1>1, <1>4 DEF MarkScheduleRun
<1>5. CASE ~LoadScheduleTimes /\ ~StartRun /\ ~MarkScheduleRun
    BY <1>5 DEF Next, Run, GetDueSchedules, ProcessReturns, ProcessRaises, Wake, Tick, EndOfTime,
        CloseGate, OpenGate, Crash, vars, bounds
<1> QED BY <1>2, <1>3, <1>4, <1>5

LEMMA ClockStep == TypeOK /\ ClockInOrder /\ [Next]_vars => ClockInOrder'
<1> SUFFICES ASSUME TypeOK, ClockInOrder, [Next]_vars PROVE ClockInOrder'
    OBVIOUS
<1>1. /\ now \in Nat /\ stamp \in Nat /\ steady \in Nat
      /\ \A s \in Considered : marked[s] \in Int
    BY Constants DEF TypeOK, Time, Never
<1>2. CASE LoadScheduleTimes \/ OpenGate \/ ProcessRaises
    BY <1>1, <1>2 DEF LoadScheduleTimes, OpenGate, ProcessRaises, loop, ClockInOrder
<1>3. CASE StartRun \/ GetDueSchedules
  <2>1. now' = now /\ stamp' = now /\ steady' = steady /\ marked' = marked
      BY <1>3 DEF StartRun, GetDueSchedules, history
  <2>2. \A s \in Considered : marked[s] <= now
      BY <1>1 DEF ClockInOrder
  <2> QED BY <1>1, <2>1, <2>2 DEF ClockInOrder
<1>4. CASE MarkScheduleRun
  <2>1. /\ now' = now /\ stamp' = stamp /\ steady' = steady
        /\ marked' = [marked EXCEPT ![Current] = stamp]
      BY <1>4 DEF MarkScheduleRun
  <2>2. \A s \in Considered : marked'[s] <= stamp
      BY <1>1, <2>1 DEF ClockInOrder, TypeOK
  <2> QED BY <2>1, <2>2 DEF ClockInOrder
<1>5. CASE Tick
    BY <1>1, <1>5 DEF Tick, history, ClockInOrder
<1>6. CASE ProcessReturns \/ Wake \/ CloseGate \/ Crash \/ UNCHANGED vars
    BY <1>6 DEF ProcessReturns, Wake, CloseGate, Crash, vars, loop, history, ClockInOrder
<1> QED BY <1>2, <1>3, <1>4, <1>5, <1>6 DEF Next, Run, EndOfTime

LEMMA KeysStep == TypeOK /\ ClockInOrder /\ KeysKept /\ [Next]_vars => KeysKept'
<1> SUFFICES ASSUME TypeOK, ClockInOrder, KeysKept, [Next]_vars, redisFaults' = 0
             PROVE  KeysKept'
    BY DEF KeysKept
<1>1. redisFaults = 0
    BY FaultsStay
<1>2. CASE MarkScheduleRun
  <2>1. Current \in Considered
      BY <1>2, CurrentIsDue DEF MarkScheduleRun
  <2>2. Remember(Current) /\ marked' = [marked EXCEPT ![Current] = stamp]
      BY <1>1, <1>2 DEF MarkScheduleRun
  <2>3. stamp \in Nat /\ now \in Nat /\ KeyTtl \in Nat /\ stamp <= now
      BY Constants DEF TypeOK, Time, ClockInOrder
  <2>4. ASSUME NEW s \in Considered
        PROVE  IF marked'[s] = Never THEN stored'[s] = NoKey
               ELSE stored'[s].at = marked'[s] /\ stored'[s].expires >= marked'[s] + KeyTtl
    <3>1. CASE s = Current
        BY <2>1, <2>2, <2>3, <3>1 DEF Remember, TypeOK, Never
    <3>2. CASE s # Current
        BY <1>1, <2>2, <3>2 DEF Remember, TypeOK, KeysKept
    <3> QED BY <3>1, <3>2
  <2> QED BY <2>4 DEF KeysKept
<1>3. CASE ~MarkScheduleRun
  <2>1. UNCHANGED <<stored, marked>>
      BY <1>3 DEF Next, Run, LoadScheduleTimes, StartRun, GetDueSchedules, ProcessReturns,
          ProcessRaises, Wake, Tick, EndOfTime, CloseGate, OpenGate, Crash, vars, history
  <2> QED BY <1>1, <2>1 DEF KeysKept
<1> QED BY <1>2, <1>3

LEMMA RecallStep ==
    TypeOK /\ ClockInOrder /\ KeysKept /\ RunsRecalled /\ [Next]_vars => RunsRecalled'
<1> SUFFICES ASSUME TypeOK, ClockInOrder, KeysKept, RunsRecalled, [Next]_vars,
                    redisFaults' = 0, pc' # "down"
             PROVE  RunsRecalled'
    BY DEF RunsRecalled
<1>1. redisFaults = 0
    BY FaultsStay
<1>2. /\ now \in Nat /\ steady \in Nat /\ KeyTtl \in Nat /\ steady <= now
      /\ \A s \in Considered : marked[s] \in Int
    BY Constants DEF TypeOK, Time, Never, ClockInOrder
<1>3. CASE LoadScheduleTimes
  <2>1. lastRun' = [s \in Considered |-> Recalled(s)] /\ steady' = now /\ marked' = marked
    <3>1. PICK lost \in SUBSET {s \in Considered : Live(s)} :
              /\ lastRun' = [s \in Considered |-> IF s \in lost THEN Never ELSE Recalled(s)]
              /\ redisFaults' = redisFaults + (IF lost = {} THEN 0 ELSE 1)
        BY <1>3 DEF LoadScheduleTimes
    <3>2. lost = {}
        BY <1>1, <3>1
    <3> QED BY <1>3, <3>1, <3>2 DEF LoadScheduleTimes
  <2>2. ASSUME NEW s \in Considered
        PROVE  \/ lastRun'[s] = marked[s]
               \/ lastRun'[s] = Never /\ now - marked[s] >= KeyTtl
    <3>1. CASE marked[s] = Never
        BY <1>1, <2>1, <3>1 DEF KeysKept, Recalled, Live
    <3>2. CASE marked[s] # Never
      <4>1. stored[s].at = marked[s] /\ stored[s].expires >= marked[s] + KeyTtl
          BY <1>1, <3>2 DEF KeysKept
      <4>2. stored[s] # NoKey
          BY <3>2, <4>1 DEF NoKey
      <4>3. stored[s].expires \in Int
          BY <4>2, Constants DEF TypeOK
      <4>4. CASE now < stored[s].expires
          BY <2>1, <4>1, <4>2, <4>4 DEF Recalled, Live
      <4>5. CASE ~(now < stored[s].expires)
          BY <1>2, <2>1, <4>1, <4>3, <4>5 DEF Recalled, Live
      <4> QED BY <4>4, <4>5
    <3> QED BY <3>1, <3>2
  <2> QED BY <2>1, <2>2 DEF RunsRecalled
<1>4. CASE ProcessRaises \/ OpenGate
  <2>1. steady' = now /\ marked' = marked /\ lastRun' = lastRun /\ pc # "down"
      BY <1>4 DEF ProcessRaises, OpenGate, loop
  <2> QED BY <1>1, <1>2, <2>1 DEF RunsRecalled
<1>5. CASE MarkScheduleRun
  <2>1. /\ steady' = steady /\ pc # "down"
        /\ marked' = [marked EXCEPT ![Current] = stamp]
        /\ lastRun' = [lastRun EXCEPT ![Current] = stamp]
      BY <1>5 DEF MarkScheduleRun
  <2> QED BY <1>1, <2>1 DEF RunsRecalled, TypeOK
<1>6. CASE ~LoadScheduleTimes /\ ~ProcessRaises /\ ~OpenGate /\ ~MarkScheduleRun
  <2>1. pc # "down" /\ UNCHANGED <<steady, marked, lastRun>>
      BY <1>6 DEF Next, Run, StartRun, GetDueSchedules, ProcessReturns, Wake, Tick, EndOfTime,
          CloseGate, Crash, vars, loop, history
  <2> QED BY <1>1, <2>1 DEF RunsRecalled
<1> QED BY <1>3, <1>4, <1>5, <1>6

\* A schedule whose key has had time to expire is in a period of its own.
LEMMA ExpiredIsNew ==
    ASSUME NEW s \in Schedule, NEW t \in Nat, NEW u \in Nat, t - u >= KeyTtl
    PROVE  ~SamePeriod(s, t, u)
<1>1. 168 * SlotsPerHour >= Hours(WindowHours(s))
    BY WindowIsHours, Constants DEF Hours
<1>2. Hours(WindowHours(s)) \in Nat
    BY WindowIsHours, Constants DEF Hours
<1> QED BY <1>1, <1>2, FarIsNew, Constants

\* A pass takes on nothing that has run in its period.
LEMMA TakenIsNew ==
    ASSUME OnceInv, redisFaults = 0, pc # "down", NEW s \in Considered, marked[s] # Never,
           lastRun[s] = Never \/ Due(s, lastRun[s], now)
    PROVE  ~SamePeriod(s, now, marked[s])
<1>1. /\ s \in Schedule /\ now \in Nat /\ marked[s] \in Nat /\ steady \in Nat /\ KeyTtl \in Nat
      /\ marked[s] <= now /\ steady <= now
    BY TimelineAssumption, Constants DEF OnceInv, ClockInOrder, TypeOK, Time
<1>2. CASE lastRun[s] = marked[s]
    BY <1>1, <1>2, DueIsNew
<1>3. CASE steady - marked[s] >= KeyTtl
  <2>1. now - marked[s] >= KeyTtl
      BY <1>1, <1>3
  <2> QED BY <1>1, <2>1, ExpiredIsNew
<1> QED BY <1>2, <1>3 DEF OnceInv, RunsRecalled

LEMMA RepeatStep == OnceInv /\ [Next]_vars => NoneRepeats'
<1> SUFFICES ASSUME OnceInv, [Next]_vars, redisFaults' = 0
             PROVE  NoneRepeats'
    BY DEF NoneRepeats
<1>1. redisFaults = 0 /\ TypeOK
    BY FaultsStay DEF OnceInv
<1>2. CASE StartRun
  <2>1. stamp' = now /\ marked' = marked /\ pc = "start" /\ due' \in {Configured, {}}
      BY <1>2 DEF StartRun, history
  <2>2. due' # {} => \A s \in Considered : lastRun[s] = Never
      BY <1>2 DEF StartRun
  <2>3. \A s \in due' : s \in Considered
      BY <2>1 DEF Configured
  <2> QED BY <1>1, <2>1, <2>2, <2>3, TakenIsNew DEF NoneRepeats
<1>3. CASE GetDueSchedules
  <2>1. stamp' = now /\ marked' = marked /\ pc = "gate" /\ due' = DueNow
      BY <1>3 DEF GetDueSchedules, history
  <2> QED BY <1>1, <2>1, TakenIsNew DEF NoneRepeats, DueNow
<1>4. CASE MarkScheduleRun
  <2>1. /\ stamp' = stamp /\ due' = due \ {Current}
        /\ marked' = [marked EXCEPT ![Current] = stamp]
      BY <1>4 DEF MarkScheduleRun, Rest
  <2>2. \A s \in due' : s \in due /\ marked'[s] = marked[s]
      BY <1>1, <2>1 DEF TypeOK
  <2> QED BY <1>1, <2>1, <2>2 DEF NoneRepeats, OnceInv
<1>5. CASE LoadScheduleTimes \/ ProcessRaises
    BY <1>1, <1>5 DEF LoadScheduleTimes, ProcessRaises, Rest, NoneRepeats, OnceInv
<1>6. CASE Crash
    BY <1>6 DEF Crash, NoneRepeats
<1>7. CASE ~StartRun /\ ~GetDueSchedules /\ ~MarkScheduleRun /\ ~LoadScheduleTimes
           /\ ~ProcessRaises /\ ~Crash
  <2>1. UNCHANGED <<due, stamp, marked>>
      BY <1>7 DEF Next, Run, ProcessReturns, Wake, Tick, EndOfTime, CloseGate, OpenGate, vars,
          loop, history
  <2> QED BY <1>1, <2>1 DEF NoneRepeats, OnceInv
<1> QED BY <1>2, <1>3, <1>4, <1>5, <1>6, <1>7

LEMMA InitOnce == Init => OnceInv
<1> SUFFICES ASSUME Init PROVE OnceInv
    OBVIOUS
<1>1. TypeOK
    BY InitType
<1>2. now \in Nat
    BY <1>1, Constants DEF TypeOK, Time
<1>3. ClockInOrder
    BY <1>2 DEF Init, ClockInOrder, Never
<1>4. KeysKept /\ RunsRecalled /\ NoneRepeats
    BY DEF Init, KeysKept, RunsRecalled, NoneRepeats
<1> QED BY <1>1, <1>3, <1>4 DEF OnceInv

LEMMA NextOnce == OnceInv /\ [Next]_vars => OnceInv'
    BY NextType, ClockStep, KeysStep, RecallStep, RepeatStep DEF OnceInv

\* No schedule is processed twice in one of its periods, whatever crashes,
\* restarts, failing runs and slow sends lie in between, as long as Redis
\* answers: its key lives at least as long as the longest period.
THEOREM SpecOncePerPeriod == Spec => []OncePerPeriod
<1>1. OnceInv => OncePerPeriod
  <2> SUFFICES ASSUME OnceInv, due # {}, redisFaults = 0
               PROVE  marked[Current] # Never => ~SamePeriod(Current, stamp, marked[Current])
      BY DEF OncePerPeriod
  <2>1. Current \in due
      BY ForemostIsIn, TimelineAssumption DEF OnceInv, TypeOK, Current
  <2> QED BY <2>1 DEF OnceInv, NoneRepeats
<1> QED BY InitOnce, NextOnce, <1>1, PTL DEF Spec

-----------------------------------------------------------------------------
\* What is owed, and that it is due then

Blocks == {"every_4h", "every_6h", "every_12h"}

Work  == MaxBusy * Cardinality(Configured)
Reach == CheckEvery + Work

\* The loop looks at the schedules more than once an hour, a pass that is busy
\* with every schedule included: an n-hour schedule is only ever due in the
\* first hour of its block.
PassesAreShort == Configured \cap Blocks # {} => Reach < Hours(1)

LEMMA BlockHours ==
    \A s \in Blocks : s \in Schedule /\ WindowHours(s) \in {4, 6, 12}
    BY DEF Blocks, Schedule, WindowHours

LEMMA Multiple ==
    ASSUME NEW x \in Nat, NEW k \in Nat, k > 0, NEW t \in Nat, k * x <= t, t < k * x + k
    PROVE  t \div k = x
<1>1. PICK q \in Nat : q = t \div k
    BY Division
<1>2. k * q <= t /\ t < k * q + k
    BY <1>1, Division
<1>3. CASE q < x
    BY <1>2, <1>3, Smaller
<1>4. CASE x < q
    BY <1>2, <1>4, Smaller
<1> QED BY <1>1, <1>3, <1>4

\* The start of the next block, by the clock and by its slots
LEMMA NextBlockBounds ==
    ASSUME NEW n \in {4, 6, 12}, NEW t \in Nat
    PROVE  \E h \in Nat : /\ NextBlock(n, t) = SlotsPerHour * h
                          /\ h % n = 0 /\ HourNo(t) < h
                          /\ t < NextBlock(n, t)
<1> DEFINE k == SlotsPerHour
           g == HourNo(t)
           h == (g \div n + 1) * n
<1>1. k \in Nat /\ k > 0 /\ g \in Nat /\ t < k * g + k
    BY Constants, HourBounds
<1> HIDE DEF g
<1>2. h \in Nat /\ h % n = 0 /\ g < h
    BY <1>1
<1>3. NextBlock(n, t) = k * h
  <2>1. g \div n + 1 \in Nat
      BY <1>1
  <2>2. (g \div n + 1) * (n * k) = k * ((g \div n + 1) * n)
      BY <1>1, <2>1
  <2> QED BY <2>2 DEF NextBlock, Hours, g
<1> HIDE DEF k, h
<1>4. k * g + k <= k * h
    BY <1>1, <1>2, Smaller
<1>5. t < k * h
  <2>1. k * g \in Nat /\ k * h \in Nat
      BY <1>1, <1>2
  <2> QED BY <1>1, <1>4, <2>1
<1> QED BY <1>2, <1>3, <1>5 DEF k, g

LEMMA NextBlockLater ==
    ASSUME NEW n \in {4, 6, 12}, NEW t \in Nat
    PROVE  NextBlock(n, t) \in Nat /\ t < NextBlock(n, t)
<1>1. PICK h \in Nat : NextBlock(n, t) = SlotsPerHour * h /\ t < NextBlock(n, t)
    BY NextBlockBounds
<1>2. SlotsPerHour * h \in Nat
    BY Constants
<1> QED BY <1>1, <1>2

\* What is owed comes after the last run and not before the loop is steady.
LEMMA OwedAfter ==
    ASSUME TypeOK, NEW s \in Considered, marked[s] # Never
    PROVE  Owed(s) \in Nat /\ Owed(s) >= steady /\ Owed(s) > marked[s]
<1>1. marked[s] \in Nat /\ steady \in Nat /\ s \in Schedule
    BY TimelineAssumption, Constants DEF TypeOK, Time
<1>2. CASE s \in Blocks
  <2> DEFINE n == WindowHours(s)
             next == NextBlock(n, marked[s])
  <2>1. n \in {4, 6, 12}
      BY <1>2, BlockHours
  <2>2. next \in Nat /\ marked[s] < next
      BY <1>1, <2>1, NextBlockLater
  <2>3. Owed(s) = IF next >= steady THEN next ELSE NextBlock(n, steady - 1)
      BY <1>2 DEF Owed, Blocks
  <2> HIDE DEF next
  <2>4. CASE next >= steady
      BY <1>1, <2>2, <2>3, <2>4
  <2>5. CASE next < steady
    <3>1. steady - 1 \in Nat
        BY <1>1, <2>2, <2>5
    <3>2. NextBlock(n, steady - 1) \in Nat /\ steady - 1 < NextBlock(n, steady - 1)
        BY <2>1, <3>1, NextBlockLater
    <3> QED BY <1>1, <2>2, <2>3, <2>5, <3>2
  <2> QED BY <1>1, <2>2, <2>4, <2>5
<1>3. CASE s \notin Blocks
  <2> DEFINE next == marked[s] + Hours(WindowHours(s))
  <2>1. next \in Nat /\ marked[s] < next
      BY <1>1, WindowIsHours, Constants DEF Hours
  <2>2. Owed(s) = IF next >= steady THEN next ELSE steady
      BY <1>3 DEF Owed, Blocks
  <2> HIDE DEF next
  <2> QED BY <1>1, <2>1, <2>2
<1> QED BY <1>2, <1>3

\* The hour an n-hour schedule is owed at
LEMMA OwedBlock ==
    ASSUME TypeOK, NEW s \in Considered, marked[s] # Never, s \in Blocks
    PROVE  \E h \in Nat : /\ Owed(s) = SlotsPerHour * h
                          /\ h % WindowHours(s) = 0 /\ HourNo(marked[s]) < h
<1> DEFINE n == WindowHours(s)
           next == NextBlock(n, marked[s])
<1>1. marked[s] \in Nat /\ steady \in Nat /\ n \in {4, 6, 12}
    BY BlockHours, Constants DEF TypeOK, Time
<1>2. next \in Nat /\ marked[s] < next
    BY <1>1, NextBlockLater
<1>3. Owed(s) = IF next >= steady THEN next ELSE NextBlock(n, steady - 1)
    BY DEF Owed, Blocks
<1>4. CASE next >= steady
    BY <1>1, <1>3, <1>4, NextBlockBounds
<1>5. CASE ~(next >= steady)
  <2> HIDE DEF next
  <2>1. steady - 1 \in Nat /\ marked[s] <= steady - 1
      BY <1>1, <1>2, <1>5
  <2>2. PICK h \in Nat : /\ NextBlock(n, steady - 1) = SlotsPerHour * h
                         /\ h % n = 0 /\ HourNo(steady - 1) < h
      BY <1>1, <2>1, NextBlockBounds
  <2>3. HourNo(marked[s]) <= HourNo(steady - 1)
      BY <1>1, <2>1, HoursInOrder
  <2>4. HourNo(marked[s]) \in Nat /\ HourNo(steady - 1) \in Nat
      BY <1>1, <2>1, HourBounds
  <2>5. HourNo(marked[s]) < h
      BY <2>2, <2>3, <2>4
  <2> QED BY <1>3, <1>5, <2>2, <2>5
<1> QED BY <1>4, <1>5

LEMMA ConfiguredFinite ==
    IsFiniteSet(Configured) /\ Cardinality(Configured) \in Nat
<1> DEFINE three == {"hourly"} \cup {"every_4h"} \cup {"every_6h"}
           five  == three \cup {"every_12h"} \cup {"daily"}
<1>1. IsFiniteSet(three)
    BY FS_Singleton, FS_AddElement
<1>2. IsFiniteSet(five)
    BY <1>1, FS_AddElement
<1>3. IsFiniteSet(five \cup {"weekly"})
    BY <1>2, FS_AddElement
<1>4. Schedule = five \cup {"weekly"}
    BY DEF Schedule
<1>5. Configured \subseteq Schedule
    BY TimelineAssumption DEF Configured
<1> QED BY <1>3, <1>4, <1>5, FS_Subset, FS_CardinalityType

\* A pass within reach of the time a schedule is owed finds it due.
LEMMA OwedIsDue ==
    ASSUME TypeOK, PassesAreShort, NEW s \in Configured, marked[s] # Never,
           Owed(s) <= now, now <= Owed(s) + Reach
    PROVE  Due(s, marked[s], now)
<1> DEFINE u == marked[s]
           k == SlotsPerHour
<1>1. /\ s \in Considered /\ s \in Schedule /\ u \in Nat /\ now \in Nat /\ steady \in Nat
      /\ u # Never /\ k \in Nat /\ k > 0
    BY TimelineAssumption, Constants DEF TypeOK, Time, Configured
<1>2. CASE s \in Blocks
  <2> DEFINE n == WindowHours(s)
             g == HourNo(u)
  <2>1. PICK h \in Nat : Owed(s) = k * h /\ h % n = 0 /\ g < h
      BY <1>1, <1>2, OwedBlock
  <2>2. n \in {4, 6, 12} /\ g \in Nat /\ u < k * g + k
      BY <1>1, <1>2, BlockHours, HourBounds
  <2>3. Reach \in Int /\ Reach < k
    <3>1. Reach < Hours(1)
        BY <1>2 DEF PassesAreShort
    <3>2. Hours(1) = k
        BY <1>1 DEF Hours
    <3>3. Cardinality(Configured) \in Nat
        BY ConfiguredFinite
    <3> QED BY <3>1, <3>2, <3>3, Constants DEF Reach, Work
  <2> HIDE DEF k, n, g, u
  <2>4. HourNo(now) = h
    <3>1. k * h <= now /\ now < k * h + k
      <4>1. k * h \in Nat
          BY <1>1
      <4> QED BY <1>1, <2>1, <2>3, <4>1
    <3> QED BY <1>1, <3>1, Multiple DEF HourNo, k
  <2>5. Hour(now) = h % 24 /\ Hour(u) = g % 24
      BY <2>4 DEF Hour, g, u
  <2>6. (h % 24) % n = 0
      BY <2>1, <2>2
  <2>7. CASE h % 24 = g % 24
    <3>1. g + 23 < h
        BY <2>1, <2>2, <2>7
    <3>2. k * (g + 23) + k <= k * h
        BY <1>1, <2>2, <3>1, Smaller
    <3>3. k * (g + 23) = k * g + 23 * k
        BY <1>1, <2>2
    <3>4. now - u >= n * k
      <4>1. k * g \in Nat /\ k * h \in Nat /\ n * k \in Nat /\ n * k <= 12 * k
          BY <1>1, <2>2
      <4> QED BY <1>1, <2>1, <2>2, <3>2, <3>3, <4>1
    <3> QED BY <1>1, <1>2, <2>5, <2>6, <3>4 DEF Due, EveryDue, Hours, Blocks, n, k, u
  <2>8. CASE h % 24 # g % 24
      BY <1>1, <1>2, <2>5, <2>6, <2>8 DEF Due, EveryDue, Blocks, n, u
  <2> QED BY <2>7, <2>8
<1>3. CASE s \notin Blocks
  <2>1. now - u >= Hours(WindowHours(s))
    <3> DEFINE next == u + Hours(WindowHours(s))
    <3>1. next \in Nat
        BY <1>1, WindowIsHours, Constants DEF Hours
    <3>2. Owed(s) = IF next >= steady THEN next ELSE steady
        BY <1>3 DEF Owed, Blocks
    <3>3. next <= now
      <4> HIDE DEF next
      <4> QED BY <1>1, <3>1, <3>2
    <3> QED BY <1>1, <3>1, <3>3, WindowIsHours, Constants DEF Hours
  <2>2. CASE s = "hourly"
      BY <1>1, <2>1, <2>2 DEF Due, HourlyDue, WindowHours
  <2>3. CASE s = "daily"
      BY <1>1, <2>1, <2>3 DEF Due, DailyDue, WindowHours
  <2>4. CASE s = "weekly"
    <3>1. HourNo(now) - HourNo(u) >= 168
        BY <1>1, <2>1, <2>4, HoursApart DEF WindowHours
    <3>2. Day(now) - Day(u) >= 7
        BY <1>1, <3>1, HourBounds DEF Day
    <3> QED BY <1>1, <2>4, <3>2 DEF Due, WeeklyDue
  <2> QED BY <1>1, <1>3, <2>2, <2>3, <2>4 DEF Schedule, Blocks
<1> QED BY <1>2, <1>3

-----------------------------------------------------------------------------
\* How far the clock gets in a pass and in a sleep

WorkDone == MaxBusy * (Cardinality(Configured) - Cardinality(due \cap Configured)) + busy

LoopFits ==
    /\ pc \notin {"process", "mark"} => busy = 0
    /\ busy > 0 => Current \in Configured
    /\ pc \in {"process", "mark"} => now <= stamp + WorkDone
    /\ pc = "sleep" => now <= wake /\ wake <= now + CheckEvery
    /\ (pc = "start" /\ gate) => now = steady

LEMMA DueCounted ==
    ASSUME NEW S
    PROVE  /\ IsFiniteSet(S \cap Configured) /\ Cardinality(S \cap Configured) \in Nat
           /\ Cardinality(S \cap Configured) <= Cardinality(Configured)
    BY ConfiguredFinite, FS_Subset, FS_CardinalityType

\* A product with a factor less by one
LEMMA OneLess ==
    ASSUME NEW m \in Nat, NEW c \in Nat, NEW r \in Nat, r <= c
    PROVE  /\ m * (c - r) \in Nat /\ m * c \in Nat /\ m * (c - r) <= m * c
           /\ r > 0 => m * (c - (r - 1)) = m * (c - r) + m /\ m * (c - r) + m <= m * c
<1>1. m * (c - r) \in Nat /\ m * c \in Nat /\ m * r \in Nat
    OBVIOUS
<1>2. m * c = m * (c - r) + m * r
    OBVIOUS
<1>3. ASSUME r > 0
      PROVE  m * (c - (r - 1)) = m * (c - r) + m /\ m <= m * r
  <2>1. m * (c - (r - 1)) = m * (c - r) + m
      OBVIOUS
  <2>2. r - 1 \in Nat
      BY <1>3
  <2>3. m * r = m * (r - 1) + m
      OBVIOUS
  <2>4. m * (r - 1) \in Nat
      BY <2>2
  <2> QED BY <2>1, <2>3, <2>4
<1> QED BY <1>1, <1>2, <1>3

\* A pass has been going on for no longer than all of its work takes.
LEMMA PassIsShort ==
    ASSUME TypeOK, LoopFits, pc \in {"process", "mark"}
    PROVE  /\ now <= stamp + Work
           /\ Current \notin Configured =>
                  now <= stamp + MaxBusy * (Cardinality(Configured) - Cardinality(due \cap Configured))
           /\ Current \in Configured =>
                  now <= stamp + MaxBusy * (Cardinality(Configured) - (Cardinality(due \cap Configured) - 1))
<1> DEFINE c == Cardinality(Configured)
           r == Cardinality(due \cap Configured)
<1>1. c \in Nat /\ r \in Nat /\ r <= c /\ MaxBusy \in Nat
    BY ConfiguredFinite, DueCounted, Constants
<1>2. busy \in Nat /\ busy <= MaxBusy /\ now \in Nat /\ stamp \in Nat
    BY Constants DEF TypeOK, Time
<1>3. now <= stamp + (MaxBusy * (c - r) + busy) /\ Work = MaxBusy * c
    BY DEF LoopFits, WorkDone, Work
<1>4. Current \in Configured => r > 0
  <2>1. Current \in due
      BY CurrentIsDue
  <2>2. Current \in Configured => due \cap Configured # {}
      BY <2>1
  <2>3. r = 0 => due \cap Configured = {}
      BY DueCounted, FS_EmptySet
  <2> HIDE DEF r
  <2> QED BY <1>1, <2>2, <2>3
<1>5. Current \notin Configured => busy = 0
    BY <1>2 DEF LoopFits
<1> HIDE DEF c, r
<1>6. /\ MaxBusy * (c - r) \in Nat /\ MaxBusy * c \in Nat /\ MaxBusy * (c - r) <= MaxBusy * c
      /\ r > 0 => /\ MaxBusy * (c - (r - 1)) = MaxBusy * (c - r) + MaxBusy
                  /\ MaxBusy * (c - r) + MaxBusy <= MaxBusy * c
    BY <1>1, OneLess
<1>7. CASE Current \in Configured
  <2>1. /\ MaxBusy * (c - (r - 1)) = MaxBusy * (c - r) + MaxBusy
        /\ MaxBusy * (c - r) + MaxBusy <= MaxBusy * c
      BY <1>4, <1>6, <1>7
  <2>2. now <= stamp + (MaxBusy * (c - r) + MaxBusy)
      BY <1>1, <1>2, <1>3, <1>6
  <2>3. now <= stamp + Work /\ now <= stamp + MaxBusy * (c - (r - 1))
      BY <1>1, <1>2, <1>3, <1>6, <2>1, <2>2
  <2> QED BY <1>7, <2>3 DEF c, r
<1>8. CASE Current \notin Configured
  <2>1. now <= stamp + Work /\ now <= stamp + MaxBusy * (c - r)
      BY <1>2, <1>3, <1>5, <1>6, <1>8
  <2> QED BY <1>8, <2>1 DEF c, r
<1> QED BY <1>7, <1>8

\* What is left of the clock when the schedule in hand is done
LEMMA RestCounted ==
    ASSUME TypeOK, LoopFits, pc \in {"process", "mark"}
    PROVE  now <= stamp + MaxBusy * (Cardinality(Configured) - Cardinality(Rest \cap Configured))
<1>1. CASE Current \in Configured
  <2>1. Current \in due \cap Configured
      BY <1>1, CurrentIsDue
  <2>2. Rest \cap Configured = (due \cap Configured) \ {Current}
      BY DEF Rest
  <2>3. Cardinality(Rest \cap Configured) = Cardinality(due \cap Configured) - 1
      BY <2>1, <2>2, DueCounted, FS_RemoveElement
  <2> QED BY <1>1, <2>3, PassIsShort
<1>2. CASE Current \notin Configured
  <2>1. Rest \cap Configured = due \cap Configured
      BY <1>2 DEF Rest
  <2> QED BY <1>2, <2>1, PassIsShort
<1> QED BY <1>1, <1>2

LEMMA LoopStep == TypeOK /\ ClockInOrder /\ LoopFits /\ [Next]_vars => LoopFits'
<1> SUFFICES ASSUME TypeOK, ClockInOrder, LoopFits, [Next]_vars PROVE LoopFits'
    OBVIOUS
<1>1. /\ now \in Nat /\ stamp \in Nat /\ steady \in Nat /\ wake \in Nat /\ busy \in Nat
      /\ CheckEvery \in Nat /\ MaxBusy \in Nat
    BY Constants DEF TypeOK, Time
<1>2. CASE LoadScheduleTimes
    BY <1>1, <1>2 DEF LoadScheduleTimes, LoopFits
<1>3. CASE StartRun \/ GetDueSchedules
  <2>1. /\ busy' = 0 /\ now' = now /\ stamp' = now /\ pc' \in {"gate", "process", "sleep"}
        /\ pc' = "sleep" => wake' = now + CheckEvery
      BY <1>3 DEF StartRun, GetDueSchedules, Sleep, LoopFits
  <2>2. MaxBusy * (Cardinality(Configured) - Cardinality(due' \cap Configured)) \in Nat
      BY <1>1, DueCounted, ConfiguredFinite, OneLess
  <2>3. now' <= stamp' + WorkDone'
    <3>1. WorkDone' = MaxBusy * (Cardinality(Configured) - Cardinality(due' \cap Configured)) + busy'
        BY DEF WorkDone, Configured
    <3> QED BY <1>1, <2>1, <2>2, <3>1
  <2> QED BY <1>1, <2>1, <2>3 DEF LoopFits
<1>4. CASE ProcessReturns \/ Wake
  <2>1. UNCHANGED <<busy, now, stamp, wake, due>>
      BY <1>4 DEF ProcessReturns, Wake
  <2>2. (pc = "process" /\ pc' = "mark") \/ (pc = "sleep" /\ pc' = "gate")
      BY <1>4 DEF ProcessReturns, Wake
  <2>3. WorkDone' = WorkDone /\ Current' = Current
      BY <2>1 DEF WorkDone, Current
  <2> QED BY <2>1, <2>2, <2>3 DEF LoopFits
<1>5. CASE ProcessRaises \/ MarkScheduleRun
  <2>1. /\ pc \in {"process", "mark"} /\ due' = Rest /\ busy' = 0
        /\ now' = now /\ stamp' = stamp /\ EndOfPass(Rest)
      BY <1>5 DEF ProcessRaises, MarkScheduleRun
  <2>2. pc' \in {"process", "gate", "sleep"} /\ (pc' = "sleep" => wake' = now + CheckEvery)
      BY <2>1 DEF EndOfPass, Sleep
  <2>3. now' <= stamp' + WorkDone'
    <3>1. WorkDone' = MaxBusy * (Cardinality(Configured) - Cardinality(Rest \cap Configured)) + 0
        BY <2>1 DEF WorkDone, Configured
    <3>2. MaxBusy * (Cardinality(Configured) - Cardinality(Rest \cap Configured)) \in Nat
        BY <1>1, DueCounted, ConfiguredFinite, OneLess
    <3> QED BY <1>1, <2>1, <3>1, <3>2, RestCounted
  <2> QED BY <1>1, <2>1, <2>2, <2>3 DEF LoopFits
<1>6. CASE Tick
  <2>1. now' = now + 1 /\ UNCHANGED <<gate, pc, due, stamp, wake, steady>>
      BY <1>6 DEF Tick, history
  <2>2. CASE pc = "process"
    <3>1. busy' = busy + 1 /\ Current \in Configured
        BY <1>6, <2>2 DEF Tick
    <3>2. MaxBusy * (Cardinality(Configured) - Cardinality(due \cap Configured)) \in Nat
        BY <1>1, DueCounted, ConfiguredFinite, OneLess
    <3>3. WorkDone' = WorkDone + 1 /\ WorkDone \in Nat
        BY <1>1, <2>1, <3>1, <3>2 DEF WorkDone, Configured
    <3>4. now' <= stamp' + WorkDone'
        BY <1>1, <2>1, <2>2, <3>3 DEF LoopFits
    <3>5. Current' \in Configured
        BY <2>1, <3>1 DEF Current
    <3> QED BY <2>1, <2>2, <3>4, <3>5 DEF LoopFits, Configured
  <2>3. CASE pc # "process"
    <3>1. busy' = busy /\ pc # "mark" /\ (pc = "start" => ~gate) /\ (pc = "sleep" => now < wake)
        BY <1>6, <2>3 DEF Tick
    <3>2. busy = 0
        BY <2>3, <3>1 DEF LoopFits
    <3> QED BY <1>1, <2>1, <2>3, <3>1, <3>2 DEF LoopFits
  <2> QED BY <2>2, <2>3
<1>7. CASE OpenGate
  <2>1. UNCHANGED <<now, pc, due, stamp, busy, wake>> /\ steady' = now
      BY <1>7 DEF OpenGate, loop
  <2>2. WorkDone' = WorkDone /\ Current' = Current
      BY <2>1 DEF WorkDone, Current
  <2> QED BY <2>1, <2>2 DEF LoopFits
<1>8. CASE Crash
    BY <1>8 DEF Crash, LoopFits
<1>9. CASE CloseGate \/ UNCHANGED vars
  <2>1. UNCHANGED <<now, pc, due, stamp, busy, wake, steady>> /\ (gate' => gate)
      BY <1>9 DEF CloseGate, vars, loop, history
  <2>2. WorkDone' = WorkDone /\ Current' = Current
      BY <2>1 DEF WorkDone, Current
  <2> QED BY <2>1, <2>2 DEF LoopFits
<1> QED BY <1>2, <1>3, <1>4, <1>5, <1>6, <1>7, <1>8, <1>9 DEF Next, Run, EndOfTime

-----------------------------------------------------------------------------
\* In time: a schedule of the pass is within reach of the time it is owed, any
\* other one is not owed before the pass, and the next pass is never further
\* away than the reach of what will be owed.

InScope(s) == marked[s] # Never /\ steady - marked[s] < KeyTtl

ServedSoon(s) ==
    /\ pc = "sleep" => wake <= Owed(s) + Reach
    /\ (pc = "gate" /\ gate) => now <= Owed(s) + Reach
    /\ (pc \in {"process", "mark"} /\ s \in due) => stamp <= Owed(s) + Reach
    /\ (pc \in {"process", "mark"} /\ s \notin due) => stamp <= Owed(s)

AllServedSoon == redisFaults = 0 => \A s \in Configured : InScope(s) => ServedSoon(s)

TimeInv == OnceInv /\ LoopFits /\ AllServedSoon

LEMMA Clock ==
    ASSUME TypeOK
    PROVE  /\ now \in Nat /\ stamp \in Nat /\ steady \in Nat /\ wake \in Nat /\ busy \in Nat
           /\ CheckEvery \in Nat /\ Work \in Nat /\ Reach \in Nat /\ Reach = CheckEvery + Work
           /\ \A s \in Configured : s \in Considered /\ marked[s] \in Int
    BY ConfiguredFinite, Constants DEF TypeOK, Time, Never, Work, Reach, Configured

\* The same after a step
OwedLater == \A s \in Considered : marked[s] # Never => Owed(s) \in Nat /\ Owed(s) >= steady

OwedBeyond == \A s \in Considered : marked[s] # Never => Owed(s) > marked[s]

ClockTypes == /\ now \in Nat /\ stamp \in Nat /\ steady \in Nat /\ wake \in Nat
              /\ OwedLater /\ OwedBeyond

LEMMA ClockNow == TypeOK => ClockTypes
    BY Clock, OwedAfter DEF ClockTypes, OwedLater, OwedBeyond

LEMMA ClockNext == TypeOK' => ClockTypes'
    BY ClockNow, PTL

\* What is owed is a matter of the last run and of when the loop got steady.
LEMMA OwedSame ==
    ASSUME NEW s \in Configured, marked'[s] = marked[s], steady' = steady
    PROVE  Owed(s)' = Owed(s) /\ InScope(s)' = InScope(s)
    BY DEF Owed, NextBlock, InScope

\* The loop gets steady: everything is in time again.
LEMMA SteadyServes ==
    ASSUME TypeOK, TypeOK', ClockInOrder', steady' = now',
           pc' = "sleep" => wake' <= now' + CheckEvery
    PROVE  AllServedSoon'
<1> SUFFICES ASSUME NEW s \in Configured, InScope(s)'
             PROVE  ServedSoon(s)'
    BY DEF AllServedSoon, Configured
<1>1. now' \in Nat /\ stamp' \in Nat /\ wake' \in Nat
    BY ClockNext DEF ClockTypes
<1>2. CheckEvery \in Nat /\ Reach \in Nat /\ CheckEvery <= Reach
    BY Clock
<1>3. Owed(s)' \in Nat /\ Owed(s)' >= now'
    BY ClockNext DEF ClockTypes, OwedLater, InScope, Configured
<1>4. stamp' <= now'
    BY DEF ClockInOrder
<1>5. pc' = "sleep" => wake' <= Owed(s)' + Reach
  <2>1. PICK o \in Nat : o = Owed(s)'
      BY <1>3
  <2>2. PICK m \in Nat : m = now'
      BY <1>1
  <2>3. PICK w \in Nat : w = wake'
      BY <1>1
  <2>4. PICK r \in Nat : r = Reach
      BY <1>2
  <2>5. pc' = "sleep" => w <= m + CheckEvery
      BY <2>2, <2>3
  <2>6. m <= o /\ CheckEvery <= r
      BY <1>2, <1>3, <2>1, <2>2, <2>4
  <2>7. pc' = "sleep" => w <= o + r
      BY <1>2, <2>5, <2>6
  <2> QED BY <2>1, <2>3, <2>4, <2>7
<1>6. now' <= Owed(s)' + Reach /\ stamp' <= Owed(s)' + Reach /\ stamp' <= Owed(s)'
    BY <1>1, <1>2, <1>3, <1>4
<1> QED BY <1>5, <1>6 DEF ServedSoon

\* Nothing that decides about a schedule has changed, and what is asked of the
\* loop follows from what it was.
LEMMA SameServes ==
    ASSUME AllServedSoon, redisFaults = 0, UNCHANGED <<marked, steady>>,
           \A s \in Configured : InScope(s) /\ ServedSoon(s) =>
               /\ pc' = "sleep" => wake' <= Owed(s) + Reach
               /\ (pc' = "gate" /\ gate') => now' <= Owed(s) + Reach
               /\ (pc' \in {"process", "mark"} /\ s \in due') => stamp' <= Owed(s) + Reach
               /\ (pc' \in {"process", "mark"} /\ s \notin due') => stamp' <= Owed(s)
    PROVE  AllServedSoon'
<1> SUFFICES ASSUME NEW s \in Configured, InScope(s)'
             PROVE  ServedSoon(s)'
    BY DEF AllServedSoon, Configured
<1>1. Owed(s)' = Owed(s) /\ InScope(s)
    BY OwedSame
<1>2. ServedSoon(s)
    BY <1>1 DEF AllServedSoon
<1> QED BY <1>1, <1>2 DEF ServedSoon

\* A pass begins: what it does not take on is not owed before it.
LEMMA DueServes ==
    ASSUME TypeOK, RunsRecalled, LoopFits, AllServedSoon, PassesAreShort, redisFaults = 0,
           GetDueSchedules
    PROVE  AllServedSoon'
<1>1. /\ gate /\ pc = "gate" /\ UNCHANGED <<now, gate, marked, steady>>
      /\ stamp' = now /\ due' = DueNow
      /\ pc' \in {"sleep", "process"} /\ (pc' = "sleep" => wake' = now + CheckEvery /\ DueNow = {})
    BY DEF GetDueSchedules, Sleep, history
<1>2. ASSUME NEW s \in Configured, InScope(s), ServedSoon(s)
      PROVE  /\ pc' = "sleep" => wake' <= Owed(s) + Reach
             /\ now <= Owed(s) + Reach
             /\ s \notin DueNow => now <= Owed(s)
  <2>1. /\ s \in Considered /\ marked[s] # Never /\ Owed(s) \in Nat /\ now \in Nat
        /\ CheckEvery \in Nat /\ Reach \in Nat /\ CheckEvery <= Reach
      BY <1>2, Clock, OwedAfter DEF InScope
  <2>2. now <= Owed(s) + Reach
      BY <1>1, <1>2 DEF ServedSoon
  <2>3. s \notin DueNow => now <= Owed(s)
    <3> SUFFICES ASSUME s \notin DueNow, ~(now <= Owed(s)) PROVE FALSE
        OBVIOUS
    <3>1. Due(s, marked[s], now)
        BY <2>1, <2>2, OwedIsDue
    <3>2. lastRun[s] = marked[s]
      <4>1. ~(steady - marked[s] >= KeyTtl)
          BY <1>2, <2>1, Clock, Constants DEF InScope
      <4> QED BY <1>1, <2>1, <4>1 DEF RunsRecalled
    <3> QED BY <2>1, <3>1, <3>2 DEF DueNow
  <2>4. pc' = "sleep" => wake' <= Owed(s) + Reach
      BY <1>1, <2>1, <2>3
  <2> QED BY <2>2, <2>3, <2>4
<1>3. \A s \in Configured : InScope(s) /\ ServedSoon(s) =>
          /\ pc' = "sleep" => wake' <= Owed(s) + Reach
          /\ (pc' = "gate" /\ gate') => now' <= Owed(s) + Reach
          /\ (pc' \in {"process", "mark"} /\ s \in due') => stamp' <= Owed(s) + Reach
          /\ (pc' \in {"process", "mark"} /\ s \notin due') => stamp' <= Owed(s)
    BY <1>1, <1>2
<1> QED BY <1>1, <1>3, SameServes

\* A schedule is marked: it is owed after the pass.
LEMMA MarkServes ==
    ASSUME TypeOK, TypeOK', ClockInOrder, LoopFits, AllServedSoon, redisFaults = 0,
           MarkScheduleRun
    PROVE  AllServedSoon'
<1> SUFFICES ASSUME NEW s \in Configured, InScope(s)'
             PROVE  ServedSoon(s)'
    BY DEF AllServedSoon, Configured
<1>1. /\ pc = "mark" /\ UNCHANGED <<now, gate, stamp, steady>>
      /\ marked' = [marked EXCEPT ![Current] = stamp] /\ due' = Rest /\ EndOfPass(Rest)
    BY DEF MarkScheduleRun
<1>2. /\ s \in Considered /\ now \in Nat /\ stamp \in Nat /\ CheckEvery \in Nat /\ Work \in Nat
      /\ Reach \in Nat /\ Reach = CheckEvery + Work /\ now <= stamp + Work
    BY <1>1, Clock, PassIsShort
<1>3. PICK o \in Nat : o = Owed(s)'
    BY <1>2, ClockNext DEF ClockTypes, OwedLater, InScope
<1>4. stamp <= o + Reach /\ (s \notin Rest => stamp <= o)
  <2>1. CASE s = Current
    <3>1. marked'[s] = stamp
        BY <1>1, <1>2, <2>1 DEF TypeOK
    <3>2. Owed(s)' > marked'[s]
        BY <1>2, ClockNext DEF ClockTypes, OwedBeyond, InScope
    <3> QED BY <1>2, <1>3, <3>1, <3>2
  <2>2. CASE s # Current
    <3>1. marked'[s] = marked[s]
        BY <1>1, <2>2 DEF TypeOK
    <3>2. Owed(s)' = Owed(s) /\ InScope(s)
        BY <1>1, <3>1, OwedSame
    <3>3. ServedSoon(s)
        BY <3>2 DEF AllServedSoon
    <3>4. s \in Rest <=> s \in due
        BY <2>2 DEF Rest
    <3> QED BY <1>1, <1>2, <1>3, <3>2, <3>3, <3>4 DEF ServedSoon
  <2> QED BY <2>1, <2>2
<1>5. /\ pc' \in {"process", "gate", "sleep"} /\ (pc' # "process" => Rest = {})
      /\ pc' = "sleep" => wake' = now + CheckEvery
    BY <1>1 DEF EndOfPass, Sleep
<1>6. pc' # "process" => now <= o + Reach /\ now + CheckEvery <= o + Reach
    BY <1>2, <1>3, <1>4, <1>5
<1> QED BY <1>1, <1>3, <1>4, <1>5, <1>6 DEF ServedSoon

LEMMA ServeStep ==
    TypeOK /\ ClockInOrder /\ RunsRecalled /\ LoopFits /\ AllServedSoon /\ PassesAreShort
        /\ [Next]_vars => AllServedSoon'
<1> SUFFICES ASSUME TypeOK, ClockInOrder, RunsRecalled, LoopFits, AllServedSoon,
                    PassesAreShort, [Next]_vars, redisFaults' = 0
             PROVE  AllServedSoon'
    BY DEF AllServedSoon
<1>1. redisFaults = 0 /\ TypeOK' /\ ClockInOrder' /\ LoopFits'
    BY FaultsStay, NextType, ClockStep, LoopStep
<1>2. CASE LoadScheduleTimes
    BY <1>2 DEF LoadScheduleTimes, AllServedSoon, ServedSoon
<1>3. CASE StartRun
  <2>1. /\ now = steady /\ UNCHANGED <<now, gate, marked, steady>> /\ stamp' = now
        /\ pc' \in {"process", "gate"}
      BY <1>3 DEF StartRun, history, LoopFits
  <2>2. \A s \in Configured : InScope(s) =>
            Owed(s) \in Nat /\ Owed(s) >= now /\ now <= Owed(s) + Reach
      BY <2>1, Clock, OwedAfter DEF InScope
  <2> QED BY <1>1, <2>1, <2>2, SameServes
<1>4. CASE GetDueSchedules
    BY <1>1, <1>4, DueServes
<1>5. CASE ProcessReturns
  <2>1. /\ UNCHANGED <<marked, steady, stamp, due>> /\ pc = "process" /\ pc' = "mark"
      BY <1>5 DEF ProcessReturns, history
  <2> QED BY <1>1, <2>1, SameServes DEF ServedSoon
<1>6. CASE ProcessRaises
  <2>1. steady' = now' /\ (pc' = "sleep" => wake' <= now' + CheckEvery)
      BY <1>1, <1>6 DEF ProcessRaises, LoopFits
  <2> QED BY <1>1, <2>1, SteadyServes
<1>7. CASE MarkScheduleRun
    BY <1>1, <1>7, MarkServes
<1>8. CASE Wake
  <2>1. /\ UNCHANGED <<marked, steady, now>> /\ pc = "sleep" /\ pc' = "gate" /\ now <= wake
      BY <1>8 DEF Wake, history, LoopFits
  <2>2. \A s \in Configured : InScope(s) /\ ServedSoon(s) => now <= Owed(s) + Reach
    <3> TAKE s \in Configured
    <3> HAVE InScope(s) /\ ServedSoon(s)
    <3>1. now \in Nat /\ wake \in Nat /\ Owed(s) + Reach \in Nat
        BY Clock, OwedAfter DEF InScope
    <3> QED BY <2>1, <3>1 DEF ServedSoon
  <2> QED BY <1>1, <2>1, <2>2, SameServes
<1>9. CASE Tick
  <2>1. UNCHANGED <<marked, steady, gate, pc, due, stamp, wake>> /\ (pc = "gate" => ~gate)
      BY <1>9 DEF Tick, history
  <2> QED BY <1>1, <2>1, SameServes DEF ServedSoon
<1>10. CASE OpenGate
  <2>1. steady' = now' /\ (pc' = "sleep" => wake' <= now' + CheckEvery)
      BY <1>1, <1>10 DEF OpenGate, LoopFits
  <2> QED BY <1>1, <2>1, SteadyServes
<1>11. CASE Crash
    BY <1>11 DEF Crash, AllServedSoon, ServedSoon
<1>12. CASE CloseGate \/ UNCHANGED vars
  <2>1. UNCHANGED <<marked, steady, now, pc, due, stamp, wake>> /\ (gate' => gate)
      BY <1>12 DEF CloseGate, vars, loop, history
  <2> QED BY <1>1, <2>1, SameServes DEF ServedSoon
<1> QED
    BY <1>2, <1>3, <1>4, <1>5, <1>6, <1>7, <1>8, <1>9, <1>10, <1>11, <1>12 DEF Next, Run, EndOfTime

LEMMA InitTime == Init => TimeInv
<1> SUFFICES ASSUME Init PROVE LoopFits /\ AllServedSoon
    BY InitOnce DEF TimeInv
<1>1. LoopFits
    BY DEF Init, LoopFits
<1>2. AllServedSoon
    BY DEF Init, AllServedSoon, ServedSoon
<1> QED BY <1>1, <1>2

LEMMA NextTime == PassesAreShort /\ TimeInv /\ [Next]_vars => TimeInv'
    BY NextOnce, LoopStep, ServeStep DEF TimeInv, OnceInv

LEMMA TimeIsKept == TimeInv => OnTime
<1> SUFFICES ASSUME TimeInv, gate, pc \notin {"down", "start"}, redisFaults = 0,
                    NEW s \in Configured, marked[s] # Never, steady - marked[s] < KeyTtl
             PROVE  now <= Owed(s) + Slack
    BY DEF OnTime
<1>1. TypeOK /\ LoopFits /\ ServedSoon(s)
    BY DEF TimeInv, OnceInv, AllServedSoon, InScope
<1>2. /\ now \in Nat /\ stamp \in Nat /\ wake \in Nat /\ Work \in Nat /\ CheckEvery \in Nat
      /\ Reach \in Nat /\ Reach = CheckEvery + Work /\ Owed(s) \in Nat
    BY <1>1, Clock, OwedAfter
<1>3. Slack = Reach + Work
  <2>1. Cardinality(Configured) \in Nat /\ MaxBusy \in Nat /\ CheckEvery \in Nat
      BY ConfiguredFinite, Constants
  <2> QED BY <2>1 DEF Slack, Reach, Work
<1>4. pc \in {"gate", "process", "mark", "sleep"}
    BY <1>1 DEF TypeOK, Step
<1>5. CASE pc = "gate"
    BY <1>1, <1>2, <1>3, <1>5 DEF ServedSoon
<1>6. CASE pc = "sleep"
    BY <1>1, <1>2, <1>3, <1>6 DEF ServedSoon, LoopFits
<1>7. CASE pc \in {"process", "mark"}
  <2>1. now <= stamp + Work
      BY <1>1, <1>7, PassIsShort
  <2>2. stamp <= Owed(s) + Reach
      BY <1>1, <1>2, <1>7 DEF ServedSoon
  <2> QED BY <1>2, <1>3, <2>1, <2>2
<1> QED BY <1>4, <1>5, <1>6, <1>7

\* Every schedule that has run is served again within one check interval and
\* two slow passes of the time it is owed, whatever crashes, raising runs and
\* closings of the gate lie in between, provided that Redis answers and that
\* the loop comes round more than once an hour if an n-hour schedule is
\* configured.
THEOREM SpecOnTime == ASSUME PassesAreShort PROVE Spec => []OnTime
    BY InitTime, NextTime, TimeIsKept, PTL DEF Spec

=============================================================================
