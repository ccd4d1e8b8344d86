--------------------------- MODULE DigestTimeline ---------------------------
(***************************************************************************)
(* UnifiedDigestWorker.run: which digest schedules run, and when, across   *)
(* slow sends, failing runs, closed gates, crashes, lost Redis calls and   *)
(* downtime. What a run collects and sends is DigestDelivery's subject.    *)
(***************************************************************************)
EXTENDS DigestCalendar

CONSTANTS
    Considered,     \* the schedules looked at, all six in the code
    CheckEvery,     \* check_interval_seconds, in slots
    KeyTtl,         \* life of a last_run key in Redis: 7 days, in slots
    Start,          \* clock values the first start may happen at
    Horizon,        \* bound: the clock stops here
    MaxBusy,        \* bound: slots one digest may take to collect and send
    MaxCrash,       \* bound: crashes
    MaxRaise,       \* bound: runs of a schedule that raise
    MaxRedisFault,  \* bound: Redis calls that fail
    MaxPause        \* bound: closings of the handshake gate

ASSUME TimelineAssumption ==
    /\ Considered \subseteq Schedule
    /\ CheckEvery \in Nat \ {0} /\ Horizon \in Nat
    /\ KeyTtl \in Nat /\ KeyTtl >= Hours(168)
    /\ Start \subseteq 0..Horizon
    /\ MaxBusy \in Nat /\ MaxCrash \in Nat /\ MaxRaise \in Nat
    /\ MaxRedisFault \in Nat /\ MaxPause \in Nat

\* Those some profile, channel or user has enabled.
Configured == {s \in Considered : Discovered(s) # {}}

VARIABLES
    now,        \* the clock
    gate,       \* handshake_gate
    pc,         \* where run() stands
    due,        \* schedules still to process in this pass
    stamp,      \* "now" as captured when the pass began
    boot,       \* this pass is _run_bootstrap_digests
    busy,       \* slots spent on the schedule being processed
    wake,       \* when the sleep ends
    lastRun,    \* scheduler.last_run, in memory
    stored,     \* tgsentinel:digest:last_run:* keys: [at, expires]
    \* history
    marked,     \* time of the last marked run, whatever Redis remembers
    steady,     \* since when run() has been up, ungated and undisturbed
    crashes, raises, redisFaults, pauses

loop    == <<pc, due, stamp, boot, busy, wake>>
history == <<marked, steady>>
bounds  == <<crashes, raises, redisFaults, pauses>>
vars    == <<now, gate, loop, lastRun, stored, history, bounds>>

Step == {"down", "start", "gate", "process", "mark", "sleep"}
Time == 0..Horizon

NoKey   == [at |-> Never, expires |-> Never]
Live(s) == stored[s] # NoKey /\ now < stored[s].expires

\* get_digest_schedule_time and set_digest_schedule_time, a GET and a SETEX.
Recalled(s)  == IF Live(s) THEN stored[s].at ELSE Never
Remember(s)  == stored' = [stored EXCEPT ![s] = [at |-> stamp, expires |-> now + KeyTtl]]

\* The one of S that is listed first
Foremost(S) == CHOOSE s \in S : \A u \in S : ScheduleOrder[s] <= ScheduleOrder[u]
DueNow      == {s \in Considered : Due(s, lastRun[s], now)}

\* The schedule in hand, and those left after it
Current == Foremost(due)
Rest    == due \ {Current}

Init ==
    /\ now \in Start
    /\ gate = TRUE
    /\ pc = "down"
    /\ due = {}
    /\ stamp = now
    /\ boot = FALSE
    /\ busy = 0
    /\ wake = now
    /\ lastRun = [s \in Considered |-> Never]
    /\ stored = [s \in Considered |-> NoKey]
    /\ marked = [s \in Considered |-> Never]
    /\ steady = now
    /\ crashes = 0
    /\ raises = 0
    /\ redisFaults = 0
    /\ pauses = 0

-----------------------------------------------------------------------------
(* Starting *)

\* _load_schedule_times_from_redis; a key that cannot be read is "no last run".
LoadScheduleTimes ==
    /\ pc = "down"
    /\ \E lost \in SUBSET {s \in Considered : Live(s)} :
          /\ lastRun' = [s \in Considered |->
                            IF s \in lost THEN Never ELSE Recalled(s)]
          /\ redisFaults' = redisFaults + (IF lost = {} THEN 0 ELSE 1)
          /\ redisFaults' <= MaxRedisFault
    /\ pc' = "start"
    /\ steady' = now
    /\ UNCHANGED <<now, gate, due, stamp, boot, busy, wake, stored, marked,
                   crashes, raises, pauses>>

\* run(): handshake_gate.wait(), then the bootstrap test: nothing in memory
\* and nothing in Redis. The bootstrap processes the configured schedules at
\* once, then goes straight to the loop.
StartRun ==
    /\ pc = "start"
    /\ gate
    /\ LET empty == \A s \in Considered : lastRun[s] = Never
       IN  \E unreadable \in BOOLEAN :
             /\ unreadable => empty /\ \E s \in Considered : Live(s)
             /\ redisFaults' = redisFaults + (IF unreadable THEN 1 ELSE 0)
             /\ redisFaults' <= MaxRedisFault
             /\ boot' = /\ empty
                        /\ Configured # {}
                        /\ unreadable \/ \A s \in Considered : ~Live(s)
    /\ stamp' = now
    /\ due' = IF boot' THEN Configured ELSE {}
    /\ pc' = IF boot' THEN "process" ELSE "gate"
    /\ UNCHANGED <<now, gate, busy, wake, lastRun, stored, history, crashes,
                   raises, pauses>>

-----------------------------------------------------------------------------
(* One pass of the loop *)

Sleep == pc' = "sleep" /\ wake' = now + CheckEvery

\* handshake_gate is awaited once per pass: closing it later does not stop
\* the pass.
GetDueSchedules ==
    /\ pc = "gate"
    /\ gate
    /\ stamp' = now
    /\ due' = DueNow
    /\ IF DueNow = {} THEN Sleep ELSE pc' = "process" /\ UNCHANGED wake
    /\ UNCHANGED <<now, gate, boot, busy, lastRun, stored, history, bounds>>

\* Mutant of EndOfPass: the pass stops at the first schedule.
EndOfPassAtOnce(rest) == Sleep /\ UNCHANGED boot

EndOfPass(rest) ==
    IF rest # {} THEN pc' = "process" /\ UNCHANGED <<wake, boot>>
    ELSE IF boot THEN pc' = "gate" /\ boot' = FALSE /\ UNCHANGED wake
    ELSE Sleep /\ UNCHANGED boot

\* _process_digest_schedule returns: a digest was sent, there was nothing to
\* send, or nobody has the schedule.
ProcessReturns ==
    /\ pc = "process"
    /\ pc' = "mark"
    /\ UNCHANGED <<now, gate, due, stamp, boot, busy, wake, lastRun, stored,
                   history, bounds>>

\* Mutant of ProcessRaises: the schedule is marked in a "finally".
ProcessRaisesMarked ==
    /\ pc = "process"
    /\ Current \in Configured
    /\ raises < MaxRaise
    /\ raises' = raises + 1
    /\ lastRun' = [lastRun EXCEPT ![Current] = stamp]
    /\ due' = Rest
    /\ busy' = 0
    /\ EndOfPass(Rest)
    /\ UNCHANGED <<now, gate, stamp, stored, marked, steady, crashes,
                   redisFaults, pauses>>

\* It raises: the schedule is not marked, and stays due.
ProcessRaises ==
    /\ pc = "process"
    /\ Current \in Configured
    /\ raises < MaxRaise
    /\ raises' = raises + 1
    /\ due' = Rest
    /\ busy' = 0
    /\ EndOfPass(Rest)
    /\ steady' = now
    /\ UNCHANGED <<now, gate, stamp, lastRun, stored, marked, crashes,
                   redisFaults, pauses>>

\* Mutant of MarkScheduleRun: Redis is written with the run, memory is not.
MarkStoredOnly ==
    /\ pc = "mark"
    /\ Remember(Current)
    /\ marked' = [marked EXCEPT ![Current] = stamp]
    /\ due' = Rest
    /\ busy' = 0
    /\ EndOfPass(Rest)
    /\ UNCHANGED <<now, gate, stamp, lastRun, steady, bounds>>

\* mark_schedule_run with the stamp of the pass, in memory and by SETEX; a
\* failing SETEX is logged and forgotten.
MarkScheduleRun ==
    /\ pc = "mark"
    /\ lastRun' = [lastRun EXCEPT ![Current] = stamp]
    /\ marked' = [marked EXCEPT ![Current] = stamp]
    /\ \/ /\ Remember(Current)
          /\ UNCHANGED redisFaults
       \/ /\ redisFaults < MaxRedisFault
          /\ redisFaults' = redisFaults + 1
          /\ UNCHANGED stored
    /\ due' = Rest
    /\ busy' = 0
    /\ EndOfPass(Rest)
    /\ UNCHANGED <<now, gate, stamp, steady, crashes, raises, pauses>>

Wake ==
    /\ pc = "sleep"
    /\ now >= wake
    /\ pc' = "gate"
    /\ UNCHANGED <<now, gate, due, stamp, boot, busy, wake, lastRun, stored,
                   history, bounds>>

-----------------------------------------------------------------------------
(* The rest of the system *)

\* Time passes while the loop sleeps, waits for Telegram or for the gate, and
\* while the process is down (the first start is at a moment of Start).
Tick ==
    /\ now < Horizon
    /\ \/ pc = "down" /\ crashes > 0 /\ UNCHANGED busy
       \/ pc \in {"start", "gate"} /\ ~gate /\ UNCHANGED busy
       \/ pc = "sleep" /\ now < wake /\ UNCHANGED busy
       \/ /\ pc = "process" /\ Current \in Configured /\ busy < MaxBusy
          /\ busy' = busy + 1
    /\ now' = now + 1
    /\ UNCHANGED <<gate, pc, due, stamp, boot, wake, lastRun, stored, history,
                   bounds>>

\* The clock of the model ends; nothing else does.
EndOfTime == now = Horizon /\ UNCHANGED vars

CloseGate ==
    /\ pc # "down"
    /\ gate
    /\ pauses < MaxPause
    /\ pauses' = pauses + 1
    /\ gate' = FALSE
    /\ UNCHANGED <<now, loop, lastRun, stored, history, crashes, raises,
                   redisFaults>>

OpenGate ==
    /\ ~gate
    /\ gate' = TRUE
    /\ steady' = now
    /\ UNCHANGED <<now, loop, lastRun, stored, marked, bounds>>

Crash ==
    /\ pc # "down"
    /\ crashes < MaxCrash
    /\ crashes' = crashes + 1
    /\ pc' = "down"
    /\ due' = {}
    /\ boot' = FALSE
    /\ busy' = 0
    /\ gate' = TRUE
    /\ lastRun' = [s \in Considered |-> Never]
    /\ UNCHANGED <<now, stamp, wake, stored, history, raises, redisFaults,
                   pauses>>

-----------------------------------------------------------------------------
Run ==
    \/ LoadScheduleTimes \/ StartRun \/ GetDueSchedules \/ ProcessReturns
    \/ ProcessRaises \/ MarkScheduleRun \/ Wake

Next == Run \/ Tick \/ EndOfTime \/ CloseGate \/ OpenGate \/ Crash

Spec == Init /\ [][Next]_vars

-----------------------------------------------------------------------------
(* Properties *)

\* Every variable of the worker, of the scheduler and of their Redis keys
\* stays in its type.
TypeOK ==
    /\ now \in Time
    /\ gate \in BOOLEAN
    /\ pc \in Step
    /\ due \subseteq Considered
    /\ pc \in {"process", "mark"} <=> due # {}
    /\ stamp \in Time /\ wake \in 0..(Horizon + CheckEvery)
    /\ boot \in BOOLEAN
    /\ busy \in 0..MaxBusy
    /\ lastRun \in [Considered -> Time \cup {Never}]
    /\ stored \in [Considered -> {NoKey} \cup [at : Time, expires : 0..(Horizon + KeyTtl)]]
    /\ marked \in [Considered -> Time \cup {Never}]
    /\ steady \in Time
    /\ crashes \in 0..MaxCrash /\ raises \in 0..MaxRaise
    /\ redisFaults \in 0..MaxRedisFault /\ pauses \in 0..MaxPause

\* No schedule is processed in an hour, block of hours, day or week in which
\* it has already completed, whatever crashes, restarts, retries and slow
\* sends lie in between; only a Redis failure can bring a digest out again
\* (get_due_schedules, mark_schedule_run, _load_schedule_times_from_redis).
OncePerPeriod ==
    (due # {} /\ redisFaults = 0)
        => LET s == Current
           IN  marked[s] # Never => ~SamePeriod(s, stamp, marked[s])

\* What the schedules promise, told without the due tests: an hourly digest
\* is owed an hour after the last one, a daily one after a day, a weekly one
\* after seven days, an n-hour one at the start of the next block of n hours;
\* and none before the loop has been running undisturbed.
NextBlock(n, t) == (HourNo(t) \div n + 1) * Hours(n)

Owed(s) ==
    IF s \in {"every_4h", "every_6h", "every_12h"}
    THEN LET n == WindowHours(s)
             next == NextBlock(n, marked[s])
         IN  IF next >= steady THEN next ELSE NextBlock(n, steady - 1)
    ELSE LET next == marked[s] + Hours(WindowHours(s))
         IN  IF next >= steady THEN next ELSE steady

\* The pass that noticed nothing, its sleep, and the pass that serves.
Slack == CheckEvery + 2 * MaxBusy * Cardinality(Configured)

\* A configured schedule that has run once, and whose last run had not expired
\* from Redis when the loop last started, is served again when it is owed,
\* within one check interval and two slow passes. This is the catch-up of
\* README.md "Catch-up After Downtime": at once for hourly, daily and weekly,
\* at the next scheduled hour for the others.
OnTime ==
    (gate /\ pc \notin {"down", "start"} /\ redisFaults = 0)
        => \A s \in Configured :
              (marked[s] # Never /\ steady - marked[s] < KeyTtl)
                  => now <= Owed(s) + Slack

=============================================================================
