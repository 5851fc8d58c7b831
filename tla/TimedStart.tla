------------------------------- MODULE TimedStart -------------------------------
(***************************************************************************)
(* The timed start of queues (timed_start of app/core/timer.py), together  *)
(* with what decides whether the machine may be shut down before a slot    *)
(* (_has_pending_wakeup_schedule of app/services/common/system.py) and     *)
(* with the ways the program goes and comes back.  Scheduled wake-up is    *)
(* on, so that the system wakes the machine before each slot.              *)
(*                                                                         *)
(* Time is the local wall clock in ticks, MinuteTicks to a minute; it may  *)
(* be set back or forward (a change to or from summer time) and it jumps   *)
(* when the machine was suspended.  A slot is the tick of one planned      *)
(* start: a time set with its days is the set of its slots, and two time   *)
(* sets of one queue at the same minute are one.                           *)
(***************************************************************************)
EXTENDS Integers, FiniteSetsExt

CONSTANTS
  Queues,
  Schedules,          \* the sets of slots a queue may have, each slot a full minute
  MinuteTicks, DayTicks,
  TIMED_START_GRACE,  \* in ticks
  Lead,               \* how long before a slot the machine is woken
  Horizon,            \* bound on the clock
  MaxSkip,            \* bound on the ticks that pass at once
  ClockShifts, MaxShifts,  \* what the clock may be changed by, and how often
  MaxStarts, MaxEdits      \* bounds: starts of the program, edits of the time sets

ASSUME TickAssumption ==
  /\ {MinuteTicks, DayTicks, MaxSkip} \subseteq Nat \ {0}
  /\ {TIMED_START_GRACE, Lead, Horizon, MaxShifts, MaxStarts, MaxEdits} \subseteq Nat
  /\ ClockShifts \subseteq Int
ASSUME SlotAssumption ==
  \A s \in UNION Schedules : s \in 0..Horizon /\ s % MinuteTicks = 0

Slots == UNION Schedules
Never == -1

VARIABLES
  wall,               \* the local wall clock
  times,              \* the slots of each queue
  LastTimedStart,     \* of each queue, kept on the disk
  program,            \* "on"; "closed" by the user or a crash; "down" with the machine
  is_scheduled_wakeup,
  _last_timed_check,
  since,              \* real time since then, as far as it matters
  _timed_fired,
  check,              \* locals of timed_start
  phase,              \* "sleep", "check" or "starting"
  todo,               \* the queues it has not looked at
  current,            \* the queue and slot it has started
  owed,               \* history: slots that came while the program answers for them
  answered,           \* history: slots it has started, seen refused or given up
  begun, kept,        \* history: slots started by this run; started and recorded
  shifts, starts, edits

clockVars   == <<wall, since, shifts>>
memory      == <<is_scheduled_wakeup, _last_timed_check, _timed_fired>>
localVars   == <<check, phase, todo, current>>
historyVars == <<answered, begun, kept>>
timedVars == <<clockVars, times, LastTimedStart, program, memory, localVars, owed,
               historyVars, starts, edits>>

NoCheck == [now_wall |-> 0, prev_wall |-> 0, real_elapsed |-> 0, first_wakeup |-> FALSE,
            turned |-> FALSE]
SinceCap == TIMED_START_GRACE + 1
SlotsOf(q, from, to) == {<<q, p>> : p \in {s \in times[q] : from < s /\ s <= to}}

TimedInit ==
  /\ wall \in {w \in 0..Horizon : w < MinuteTicks} /\ since = 0 /\ shifts = 0
  /\ times \in [Queues -> Schedules]
  /\ LastTimedStart = [q \in Queues |-> Never]
  /\ program = "closed" /\ is_scheduled_wakeup = FALSE
  /\ _last_timed_check = Never /\ _timed_fired = {}
  /\ check = NoCheck /\ phase = "sleep" /\ todo = {}
  /\ current = <<>>
  /\ owed = {} /\ answered = {} /\ begun = {} /\ kept = {}
  /\ starts = 0 /\ edits = 0

\* The rest of the world goes on only while the timer waits.
AtAwait == phase # "check"

-----------------------------------------------------------------------------
(* The clock.                                                              *)

\* The program answers for a slot if the timer has looked before and the clock was not
\* set back since, or if it went down with the machine on its own.
Answers(q, p) ==
  \/ program = "on" /\ _last_timed_check # Never /\ ~check.turned
  \/ /\ program = "down" \/ (program = "on" /\ _last_timed_check = Never /\ is_scheduled_wakeup)
     /\ ~check.turned /\ p > LastTimedStart[q]

Came(to) ==
  owed \cup {s \in UNION {SlotsOf(q, wall, to) : q \in Queues} :
               Answers(s[1], s[2]) /\ s \notin answered}

Tick(k) ==
  /\ AtAwait /\ wall + k <= Horizon
  /\ wall' = wall + k
  /\ since' = Min({since + k, SinceCap})
  /\ owed' = Came(wall')
  /\ UNCHANGED <<shifts, times, LastTimedStart, program, memory, localVars, historyVars, starts, edits>>

\* No time passes.  Slots that are ahead again are not owed.  Simplified: real_elapsed is
\* counted in UTC, so that a change of the time zone or to summer time leaves it alone, as
\* here, but a clock set by hand moves it, too.
ClockChanges(by) ==
  /\ AtAwait /\ shifts < MaxShifts /\ wall + by \in 0..Horizon
  /\ wall' = wall + by
  /\ shifts' = shifts + 1
  /\ owed' = IF by > 0 THEN Came(wall') ELSE {s \in owed : s[2] <= wall'}
  /\ check' = [check EXCEPT !.turned = @ \/ by < 0]
  /\ UNCHANGED <<since, times, LastTimedStart, program, memory, phase, todo, current,
                 historyVars, starts, edits>>

\* The user changes the time sets of a queue, or switches them off.
Edits(q) ==
  /\ AtAwait /\ edits < MaxEdits
  /\ edits' = edits + 1
  /\ \E s \in Schedules \ {times[q]} : times' = [times EXCEPT ![q] = s]
  /\ owed' = {s \in owed : s[2] \in times'[s[1]]}
  /\ UNCHANGED <<clockVars, LastTimedStart, program, memory, localVars, historyVars, starts>>

-----------------------------------------------------------------------------
(* The program comes and goes.                                             *)

StartsAs(wakeup) ==
  /\ starts < MaxStarts /\ starts' = starts + 1
  /\ program' = "on" /\ is_scheduled_wakeup' = wakeup
  /\ UNCHANGED <<clockVars, times, LastTimedStart, _last_timed_check, _timed_fired, localVars,
                 historyVars, edits>>

UserStarts == program # "on" /\ StartsAs(FALSE) /\ owed' = {}

\* The machine was woken for a slot, and the program is started with the mark of that.
WakesUp ==
  /\ program = "down"
  /\ \E q \in Queues : \E p \in times[q] : p - Lead <= wall /\ wall <= p
  /\ StartsAs(TRUE) /\ UNCHANGED owed

Gone ==
  /\ is_scheduled_wakeup' = FALSE
  /\ _last_timed_check' = Never /\ _timed_fired' = {}
  /\ check' = [NoCheck EXCEPT !.turned = check.turned] /\ phase' = "sleep" /\ todo' = {}
  /\ current' = <<>> /\ begun' = {}
  /\ UNCHANGED <<clockVars, times, LastTimedStart, answered, kept, starts, edits>>

\* The user closes the program, or it dies, at any await.
Closes == program = "on" /\ AtAwait /\ program' = "closed" /\ Gone /\ owed' = {}

\* Mutant: only slots that are still to come hold the shutdown up.
PendingAhead(q, p) == p > LastTimedStart[q] /\ p - Lead <= wall /\ wall < p

\* _pending_wakeup_slots and _has_pending_wakeup_schedule.
Pending(q, p) ==
  /\ p > LastTimedStart[q]
  /\ p - Lead <= wall /\ wall <= p + TIMED_START_GRACE

\* An automatic power operation, which is cancelled when a slot is near or a task is there.
\* What comes before the recorded start of its queue does not hold it up.
GoesDown ==
  /\ program = "on" /\ phase = "sleep"
  /\ ~ \E q \in Queues : \E p \in times[q] : Pending(q, p)
  /\ program' = "down" /\ Gone
  /\ owed' = {s \in owed : s[2] > LastTimedStart[s[1]]}

-----------------------------------------------------------------------------
(* timed_start.                                                            *)

\* The last moment before the current minute.
minute_floor == wall - (wall % MinuteTicks) - 1

\* Mutant: only the current day is remembered.
RemembersToday(s) == s[2] \div DayTicks >= wall \div DayTicks

Remembers(s) == s[2] \div DayTicks >= wall \div DayTicks - 1

\* Where the interval to look at begins, and how much time has really passed in it.
Interval ==
  LET first == _last_timed_check = Never /\ is_scheduled_wakeup IN
  [now_wall |-> wall, turned |-> FALSE, first_wakeup |-> first,
   prev_wall |-> IF first THEN wall - TIMED_START_GRACE - 1
                 ELSE IF _last_timed_check = Never THEN minute_floor
                 ELSE Min({_last_timed_check, minute_floor}),
   real_elapsed |-> IF first THEN TIMED_START_GRACE + 1
                    ELSE IF _last_timed_check = Never THEN 1 ELSE since]

CheckBegins ==
  /\ program = "on" /\ phase = "sleep"
  /\ phase' = "check" /\ todo' = Queues
  /\ check' = Interval
  /\ _last_timed_check' = wall /\ since' = 0
  /\ _timed_fired' = {s \in _timed_fired : Remembers(s)}
  /\ UNCHANGED <<wall, shifts, times, LastTimedStart, program, is_scheduled_wakeup, current,
                 owed, historyVars, starts, edits>>

\* The first check after a wake-up does not go back behind what is recorded.
check_start(q) ==
  IF check.first_wakeup THEN Max({check.prev_wall, LastTimedStart[q]}) ELSE check.prev_wall

Hits(q) ==
  {p \in times[q] : /\ check_start(q) < p /\ p <= check.now_wall
                    /\ <<q, p>> \notin _timed_fired /\ p # LastTimedStart[q]}

\* Mutant: a jump of the clock is taken for time that has passed.
TooLateByClock(p) == check.now_wall - p > TIMED_START_GRACE

TooLate(p) == Min({check.now_wall - p, check.real_elapsed}) > TIMED_START_GRACE

\* _due_timed_slots, and the slots given up on the way.
Due(q) == {p \in Hits(q) : ~TooLate(p)}

\* A slot may be given up when it is long past and nobody has looked since.
Excused(s) ==
  /\ check.now_wall - s[2] > TIMED_START_GRACE
  /\ check.first_wakeup \/ check.real_elapsed > TIMED_START_GRACE

\* One queue, whose settings can be read: nothing is due, or add_task refuses, or it has
\* made a task; several slots make one task.
LooksAt(q) ==
  /\ phase = "check" /\ q \in todo
  /\ todo' = todo \ {q}
  /\ _timed_fired' = _timed_fired \cup {<<q, p>> : p \in Hits(q)}
  /\ answered' = answered \cup {<<q, p>> : p \in Hits(q)}
  /\ owed' = {s \in owed : s[1] # q \/ (s[2] \notin Due(q) /\ ~Excused(s))}
  /\ \/ UNCHANGED <<phase, current, begun>>
     \/ /\ Due(q) # {}
        /\ phase' = "starting" /\ current' = <<q, Max(Due(q))>>
        /\ begun' = begun \cup {<<q, p>> : p \in Due(q)}
  /\ UNCHANGED <<clockVars, times, LastTimedStart, program, is_scheduled_wakeup,
                 _last_timed_check, check, kept, starts, edits>>

\* Mutant: the time of the check is recorded.
RecordsNow == LastTimedStart' = [LastTimedStart EXCEPT ![current[1]] = check.now_wall]

Records == LastTimedStart' = [LastTimedStart EXCEPT ![current[1]] = current[2]]

\* TASK_CREATED is sent and the update of LastTimedStart committed.
Recorded ==
  /\ phase = "starting" /\ phase' = "check"
  /\ Records
  /\ kept' = kept \cup {s \in begun : s[1] = current[1] /\ s[2] <= current[2]}
  /\ current' = <<>>
  /\ UNCHANGED <<clockVars, times, program, memory, check, todo, owed, answered,
                 begun, starts, edits>>

\* add_task or the update raises after its await: the next queue is looked at.
RecordFails ==
  /\ phase = "starting" /\ phase' = "check"
  /\ current' = <<>>
  /\ UNCHANGED <<clockVars, times, LastTimedStart, program, memory, check, todo, owed,
                 historyVars, starts, edits>>

CheckEnds ==
  /\ phase = "check" /\ todo = {}
  /\ phase' = "sleep" /\ check' = [NoCheck EXCEPT !.turned = check.turned]
  /\ UNCHANGED <<clockVars, times, LastTimedStart, program, memory, todo, current,
                 owed, historyVars, starts, edits>>

-----------------------------------------------------------------------------
TimedNext ==
  \/ \E k \in 1..MaxSkip : Tick(k)
  \/ \E by \in ClockShifts : ClockChanges(by)
  \/ \E q \in Queues : Edits(q) \/ LooksAt(q)
  \/ UserStarts \/ WakesUp \/ Closes \/ GoesDown
  \/ CheckBegins \/ Recorded \/ RecordFails \/ CheckEnds

TimedSpec == TimedInit /\ [][TimedNext]_timedVars

-----------------------------------------------------------------------------
(* Properties.                                                             *)

\* Types of all variables.
TimedTypeOK ==
  /\ wall \in 0..Horizon /\ since \in 0..SinceCap
  /\ times \in [Queues -> Schedules]
  /\ LastTimedStart \in [Queues -> Slots \cup {Never}]
  /\ program \in {"on", "closed", "down"} /\ is_scheduled_wakeup \in BOOLEAN
  /\ _last_timed_check \in 0..Horizon \cup {Never}
  /\ _timed_fired \subseteq Queues \X Slots
  /\ phase \in {"sleep", "check", "starting"} /\ todo \subseteq Queues
  /\ current \in {<<>>} \cup Queues \X Slots

\* A check has left no slot over that came since the one before, or while the machine was
\* down on the program's own account: each was started or refused, or was too late.
NothingLeftOver ==
  phase = "check" /\ phase' = "sleep" /\ _last_timed_check = wall /\ since = 0 /\ ~check.turned
    => owed = {}

\* An automatic power operation leaves no slot behind that came and could still be started.
NothingLeftBehind ==
  program = "on" /\ program' = "down" => \A s \in owed' : wall - s[2] > TIMED_START_GRACE

\* No slot is missed, by a check (timed_start) or by a shutdown between two checks
\* (_cancel_automatic_power_for_schedule), through suspends, jumps of the clock, crashes,
\* wake-ups, and slots that come while another queue is being started.  A queue whose
\* settings cannot be read is passed over (an error is logged) and loses the slots of the
\* interval; the model has no such queue.
NothingMissed == [][NothingLeftOver /\ NothingLeftBehind]_timedVars

\* One run of the program never starts a slot twice, also when the clock is set back
\* and shows it again, and no run repeats a start that an earlier one has recorded
\* unless the clock was changed (_timed_fired, LastTimedStart).
NoSecondStart ==
  [][phase = "check" /\ phase' = "starting" =>
       /\ current' \notin begun
       /\ shifts = 0 => current' \notin kept]_timedVars

\* The clock is never set by more than B, and by less than a day altogether, even with the
\* grace or a minute added: a day is how long timed_start remembers what it has fired.
Steady(B) ==
  /\ \A by \in ClockShifts : -B <= by /\ by <= B
  /\ TIMED_START_GRACE + B * MaxShifts <= DayTicks
  /\ MinuteTicks + B * MaxShifts <= DayTicks
=============================================================================
