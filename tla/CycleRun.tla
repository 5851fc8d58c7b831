------------------------------ MODULE CycleRun ------------------------------
(***************************************************************************)
(* A cycle run: the task that keeps a queue going, each entry by its own   *)
(* schedule (Task._run_cycle_task in manager.py, the times in cycle.py).   *)
(* Times are counted in ticks from now, so NextRunAt is the number of      *)
(* ticks until then and 0 once it is due; a week has Week days of DayTicks *)
(* ticks.  A tick may take in several (a suspended machine, a clock put    *)
(* forward).  The writes to the configuration are awaited and others may   *)
(* edit it meanwhile, but such a wait is shorter than a tick.              *)
(***************************************************************************)
EXTENDS Integers, FiniteSets, Sequences, SequencesExt, FiniteSetsExt

CONSTANTS Entries, Schedules, Initially, None, Week, DayTicks, MaxRun, MaxJump, MaxEdits
          \* Initially: the schedules a behaviour may begin with;
          \* MaxRun, MaxJump, MaxEdits bound the ticks of one run, ticks at once, edits

ASSUME CycleAssumption ==
    /\ Entries # {} /\ IsFiniteSet(Entries) /\ None \notin Entries \cup Int
    /\ {Week, DayTicks, MaxRun, MaxJump} \subseteq Nat \ {0} /\ MaxEdits \in Nat
    /\ IsFiniteSet(Schedules)
    /\ Schedules \subseteq [mode: {"fixed_time", "interval"}, days: SUBSET (0 .. Week - 1),
                            time: 0 .. DayTicks - 1, interval: Nat \ {0},
                            anchor: {"start", "finish"}]
    /\ Initially \subseteq [Entries -> Schedules]

VARIABLES
    clock,      \* the tick of the week
    order,      \* QueueItem of the queue, in its order
    schedule,   \* Schedule of each entry but for the next two
    enabled,    \* Schedule.Enabled
    next,       \* Schedule.NextRunAt; None is the value for "not computed yet"
    staged,     \* a change of the order passed _ensure_cycle_safe and waits to be committed
    edits,      \* edits so far
    phase,      \* where the cycle task is
    frozen,     \* the script list of the task: the order when it was created
    current,    \* the entry that runs or was last looked at
    row,        \* current_index: its place in the script list
    firsts,     \* first times still to be written in this round
    pending,    \* due entries still to be run in this round
    results,    \* what the round has come to: "none", "no_run" or "run"
    outcome,    \* how the run that ended went
    value,      \* a time computed, with the schedule it was computed from, not yet written
    elapsed,    \* ticks since the running entry was started
    grid        \* history: what the schedule asks for, kept without NextRunAt

userVars  == <<order, schedule, enabled, staged, edits>>
roundVars == <<frozen, current, row, firsts, pending, results>>
runVars   == <<outcome, value, elapsed>>
vars == <<clock, userVars, next, phase, roundVars, runVars, grid>>

WeekTicks == Week * DayTicks
Horizon   == Max({WeekTicks} \cup {s.interval : s \in Schedules})
Writing   == {"recording", "starting", "anchoring", "finishing", "settling"}
Phases    == Writing \cup {"off", "round", "due", "asleep", "run"}
Unknown   == [fresh |-> FALSE, owed |-> FALSE, since |-> 0]
Known(since) == [fresh |-> TRUE, owed |-> FALSE, since |-> since]

-----------------------------------------------------------------------------
(* The times of cycle.py. *)

\* The ticks of the week at which a fixed schedule asks for a run.
SlotsOf(s) == {d * DayTicks + s.time : d \in s.days}

FirstWithin(s, days_ahead) ==
    LET today == clock \div DayTicks
        candidate(offset) == (today + offset) * DayTicks + s.time
        hits == {o \in days_ahead : candidate(o) > clock /\ (today + o) % Week \in s.days}
    IN  IF hits = {} THEN candidate(1) - clock ELSE candidate(Min(hits)) - clock

\* Mutant: the same day a week later is not looked at.
NextFixedThisWeek(s) == IF s.days = {} THEN None ELSE FirstWithin(s, 0 .. Week - 1)
\* The first slot strictly later than now; a schedule without days has none.
NextFixed(s) == IF s.days = {} THEN None ELSE FirstWithin(s, 0 .. Week)

\* The time of an entry: the one stored, or a first one.
ResolveNext(e) ==
    IF next[e] # None THEN next[e]
    ELSE IF schedule[e].mode = "fixed_time" THEN NextFixed(schedule[e]) ELSE 0

\* Written when a run starts, and when one that was anchored at its start has ended.
NextAtStart(s) == IF s.mode = "fixed_time" THEN NextFixed(s) ELSE s.interval

\* Mutant: an overrun is not taken into account.
NextAfterStartOnce(s) == IF s.mode = "fixed_time" THEN NextFixed(s) ELSE s.interval - elapsed
NextAfterStart(s) ==
    IF s.mode = "fixed_time" THEN NextFixed(s)
    ELSE Min({n * s.interval - elapsed : n \in 1 .. elapsed + 1} \cap (Nat \ {0}))

NextAfterFinish(s) == IF s.mode = "fixed_time" THEN NextFixed(s) ELSE s.interval

-----------------------------------------------------------------------------
Init ==
    /\ clock \in 0 .. WeekTicks - 1
    /\ order = SetToSeq(Entries)
    /\ schedule \in Initially
    /\ enabled = [e \in Entries |-> TRUE]
    /\ next = [e \in Entries |-> None]
    /\ staged = FALSE /\ edits = 0
    /\ phase = "off" /\ frozen = <<>> /\ current = None /\ row = 0
    /\ firsts = <<>> /\ pending = <<>> /\ results = "none"
    /\ outcome = None /\ value = None /\ elapsed = 0
    /\ grid = [e \in Entries |-> Unknown]

(***************************************************************************)
(* What the cycle task works on goes on changing: time passes, and the     *)
(* user edits schedules, asks for a run at once (the front end sets        *)
(* NextRunAt to now), and reorders the queue as long as it is not cycling. *)
(***************************************************************************)

\* Whether a slot lies within the coming k ticks.
SlotComes(e, k) ==
    IF schedule[e].mode = "fixed_time"
    THEN \E i \in 1 .. k : (clock + i) % WeekTicks \in SlotsOf(schedule[e])
    ELSE grid[e].since + k >= schedule[e].interval

Passed(e, k) ==
    IF ~grid[e].fresh THEN Unknown
    ELSE [fresh |-> TRUE, owed |-> grid[e].owed \/ SlotComes(e, k),
          since |-> IF schedule[e].mode = "fixed_time" THEN 0
                    ELSE (grid[e].since + k) % schedule[e].interval]

Tick(k) ==
    /\ phase \notin Writing
    /\ phase = "run" => elapsed + k <= MaxRun
    /\ clock' = (clock + k) % WeekTicks
    /\ next' = [e \in Entries |-> IF next[e] = None THEN None ELSE Max({0, next[e] - k})]
    /\ elapsed' = IF phase = "run" THEN elapsed + k ELSE elapsed
    /\ grid' = [e \in Entries |-> Passed(e, k)]
    /\ UNCHANGED <<userVars, phase, roundVars, outcome, value>>

Reschedules(e) ==
    /\ edits < MaxEdits
    /\ edits' = edits + 1
    /\ \E s \in Schedules \ {schedule[e]} : schedule' = [schedule EXCEPT ![e] = s]
    /\ grid' = [grid EXCEPT ![e] = Unknown]
    /\ UNCHANGED <<clock, order, enabled, staged, next, phase, roundVars, runVars>>

Switches(e) ==
    /\ edits < MaxEdits
    /\ edits' = edits + 1
    /\ enabled' = [enabled EXCEPT ![e] = ~enabled[e]]
    /\ UNCHANGED <<clock, order, schedule, staged, next, phase, roundVars, runVars, grid>>

RunsOnce(e) ==
    /\ next[e] # 0
    /\ next' = [next EXCEPT ![e] = 0]
    /\ grid' = [grid EXCEPT ![e].owed = grid[e].fresh]
    /\ UNCHANGED <<clock, userVars, phase, roundVars, runVars>>

\* The check of the running mark, and the commit that may have to wait after it.
AsksReorder ==
    /\ phase = "off" /\ edits < MaxEdits
    /\ staged' = TRUE /\ edits' = edits + 1
    /\ UNCHANGED <<clock, order, schedule, enabled, next, phase, roundVars, runVars, grid>>

Reorders ==
    /\ staged
    /\ staged' = FALSE
    /\ order' = Reverse(order)
    /\ UNCHANGED <<clock, schedule, enabled, edits, next, phase, roundVars, runVars, grid>>

-----------------------------------------------------------------------------
(* The rounds. *)

Starts ==
    /\ phase = "off"
    /\ phase' = "round"
    /\ frozen' = order
    /\ UNCHANGED <<clock, userVars, next, current, row, firsts, pending, results, runVars, grid>>

\* Stopped by the user, or ended by an error at a wait: what is written stays.
Ends ==
    /\ phase' = "off"
    /\ frozen' = <<>> /\ current' = None /\ row' = 0
    /\ firsts' = <<>> /\ pending' = <<>> /\ results' = "none"
    /\ outcome' = None /\ value' = None /\ elapsed' = 0
    /\ UNCHANGED <<clock, userVars, next, grid>>

IsEnded == phase \notin {"off", "due"} /\ Ends

IndexOf(e) == CHOOSE i \in 1 .. Len(order) : order[i] = e

\* The sequence of the given entries, in the order of the queue.
InOrder(S) == {p \in SetToSeqs(S) : \A i, j \in 1 .. Len(p) : i < j => IndexOf(p[i]) < IndexOf(p[j])}

Collected(e) == enabled[e] /\ ResolveNext(e) # None
IsDue(e)     == Collected(e) /\ ResolveNext(e) = 0

Computed(e, time) == [entry |-> e, at |-> time, from |-> schedule[e]]

\* NextRunAt is written; the schedule may have been edited after it was computed.
Stores(v, since) ==
    /\ next' = [next EXCEPT ![v.entry] = v.at]
    /\ grid' = [grid EXCEPT ![v.entry] =
                    IF v.at # None /\ v.from = schedule[v.entry] THEN Known(since) ELSE Unknown]

\* Collect, compute first times, and see what is due.
Round ==
    /\ phase = "round"
    /\ \E late \in InOrder({e \in Entries : IsDue(e)}),
          unset \in InOrder({e \in Entries : next[e] = None /\ Collected(e) /\ ~IsDue(e)}) :
           /\ firsts' = [i \in 1 .. Len(unset) |-> Computed(unset[i], ResolveNext(unset[i]))]
           /\ pending' = late
           /\ phase' = IF unset # <<>> THEN "recording" ELSE IF late = <<>> THEN "asleep" ELSE "due"
    /\ results' = "none"
    /\ UNCHANGED <<clock, userVars, next, frozen, current, row, runVars, grid>>

\* A time the user has set since the round began is left alone.  A write that raises, here
\* or after a run, ends the cycle: see Ends.
RecordsFirst ==
    /\ phase = "recording"
    /\ IF next[Head(firsts).entry] = None THEN Stores(Head(firsts), 0) ELSE UNCHANGED <<next, grid>>
    /\ firsts' = Tail(firsts)
    /\ phase' = IF Tail(firsts) # <<>> THEN phase ELSE IF pending = <<>> THEN "asleep" ELSE "due"
    /\ UNCHANGED <<clock, userVars, frozen, current, row, pending, results, runVars>>

Wakes ==
    /\ phase = "asleep"
    /\ phase' = "round"
    /\ UNCHANGED <<clock, userVars, next, roundVars, runVars, grid>>

\* Mutant: a round ends with the first entry it ran.
RestForgotten == <<>>
Rest == Tail(pending)

NoLongerDue ==
    /\ phase = "due" /\ pending # <<>>
    /\ ~IsDue(Head(pending))
    /\ pending' = Rest
    /\ UNCHANGED <<clock, userVars, next, phase, frozen, current, row, firsts, results, runVars, grid>>

\* Mutant: the list frozen at the creation is trusted.
InPlaceAnyway(e) == e \in Entries
\* The list frozen at the creation still has the entry's script at the entry's index.
InPlace(e) == frozen[IndexOf(e)] = e

OutOfPlace ==
    /\ phase = "due" /\ pending # <<>>
    /\ IsDue(Head(pending)) /\ ~InPlace(Head(pending))
    /\ Ends

MayRun ==
    /\ phase = "due" /\ pending # <<>>
    /\ IsDue(Head(pending)) /\ InPlace(Head(pending))
    /\ current' = Head(pending) /\ row' = IndexOf(Head(pending))

\* Another task has the script or what it needs.  A script deleted in the round, for which
\* the code reports a failed run without running it, is merged into this: neither changes
\* anything but the pause after the round.
Blocked ==
    /\ MayRun
    /\ pending' = Rest
    /\ results' = IF results = "run" THEN "run" ELSE "no_run"
    /\ UNCHANGED <<clock, userVars, next, phase, frozen, firsts, runVars, grid>>

TakesUp ==
    /\ MayRun
    /\ phase' = "starting"
    /\ elapsed' = 0
    /\ UNCHANGED <<clock, userVars, next, frozen, firsts, pending, results, outcome, value, grid>>

\* LastCycleStartedAt is written; the next time too if it counts from the start.
StartIsKept ==
    /\ phase = "starting"
    /\ LET s == schedule[current]
       IN  IF s.anchor = "start"
           THEN phase' = "anchoring" /\ value' = Computed(current, NextAtStart(s))
           ELSE phase' = "run" /\ value' = value
    /\ UNCHANGED <<clock, userVars, next, roundVars, outcome, elapsed, grid>>

Anchored ==
    /\ phase = "anchoring"
    /\ Stores(value, 0)
    /\ phase' = "run" /\ value' = None
    /\ UNCHANGED <<clock, userVars, roundVars, outcome, elapsed>>

\* A write at the start that raises counts as a failed run.
StartFails ==
    /\ phase \in {"starting", "anchoring"}
    /\ phase' = "finishing" /\ outcome' = "failed" /\ value' = None
    /\ UNCHANGED <<clock, userVars, next, roundVars, elapsed, grid>>

\* The script has run, has failed (an exception counts as that), or was skipped for
\* a maintenance; the reservation is given back.
RunEnds ==
    /\ phase = "run"
    /\ phase' = "finishing"
    /\ outcome' \in {"success", "failed", "skipped"}
    /\ UNCHANGED <<clock, userVars, next, roundVars, value, elapsed, grid>>

\* LastCycleFinishedAt is written, or LastCycleStartedAt put back; then the next time is computed.
FinishIsKept ==
    /\ phase = "finishing"
    /\ phase' = "settling"
    /\ LET s == schedule[current]
       IN  value' = Computed(current, IF s.anchor = "finish" THEN NextAfterFinish(s)
                                      ELSE IF outcome = "skipped" THEN NextAtStart(s)
                                      ELSE NextAfterStart(s))
    /\ UNCHANGED <<clock, userVars, next, roundVars, outcome, elapsed, grid>>

\* The reference for the interval: slots are counted from the start, without one the
\* run was too long for, or from the end, or from the skip.
SinceAnchor(s) ==
    IF s.mode = "interval" /\ s.anchor = "start" /\ outcome # "skipped"
    THEN elapsed % s.interval ELSE 0

Settled ==
    /\ phase = "settling"
    /\ Stores(value, SinceAnchor(value.from))
    /\ phase' = "due" /\ pending' = Rest
    /\ results' = IF results = "run" \/ outcome # "failed" THEN "run" ELSE "no_run"
    /\ value' = None /\ outcome' = None /\ elapsed' = 0
    /\ UNCHANGED <<clock, userVars, frozen, current, row, firsts>>

\* A round that ran nothing well waits before the next one.
RoundEnds ==
    /\ phase = "due" /\ pending = <<>>
    /\ phase' = IF results = "no_run" THEN "asleep" ELSE "round"
    /\ UNCHANGED <<clock, userVars, next, roundVars, runVars, grid>>

-----------------------------------------------------------------------------
CycleStep ==
    \/ Round \/ RecordsFirst \/ Wakes \/ NoLongerDue \/ OutOfPlace \/ Blocked \/ TakesUp
    \/ StartIsKept \/ Anchored \/ FinishIsKept \/ Settled \/ RoundEnds

Next ==
    \/ CycleStep \/ StartFails \/ RunEnds \/ Starts \/ IsEnded
    \/ AsksReorder \/ Reorders
    \/ \E e \in Entries : Reschedules(e) \/ Switches(e) \/ RunsOnce(e)
    \/ \E k \in 1 .. MaxJump : Tick(k)

Spec == Init /\ [][Next]_vars

\* The event loop runs what is ready and sleeps end; scripts, users and the clock owe nothing.
FairSpec == Spec /\ WF_vars(CycleStep)

-----------------------------------------------------------------------------
Values == [entry: Entries, at: {None} \cup 1 .. Horizon, from: Schedules]

TypeOK ==
    /\ clock \in 0 .. WeekTicks - 1
    /\ order \in SetToSeqs(Entries) /\ frozen \in {<<>>} \cup SetToSeqs(Entries)
    /\ schedule \in [Entries -> Schedules] /\ enabled \in [Entries -> BOOLEAN]
    /\ next \in [Entries -> {None} \cup 0 .. Horizon]
    /\ staged \in BOOLEAN /\ edits \in 0 .. MaxEdits
    /\ phase \in Phases /\ current \in Entries \cup {None} /\ row \in 0 .. Len(order)
    /\ firsts \in UNION {[1 .. n -> Values] : n \in 0 .. Len(order)}
    /\ pending \in UNION {[1 .. n -> Entries] : n \in 0 .. Len(order)}
    /\ results \in {"none", "no_run", "run"}
    /\ outcome \in {None, "success", "failed", "skipped"}
    /\ value \in {None} \cup Values /\ elapsed \in 0 .. MaxRun
    /\ grid \in [Entries -> [fresh: BOOLEAN, owed: BOOLEAN, since: 0 .. Horizon]]

(* An entry whose stored time comes from its present schedule is due exactly when  *)
(* the schedule has asked for a run that was not had: no slot is missed, whether   *)
(* the machine slept over it or the cycle was stopped, and none is run twice or at *)
(* a time the schedule does not name, however long a run takes.                    *)
DueIsOwed ==
    \A e \in Entries : grid[e].fresh => (next[e] = 0 <=> grid[e].owed)

(* While an entry runs, the row of the task's list that is shown and written to is  *)
(* that of its script, also when a change of the order that was checked before the  *)
(* cycle started is committed after it.                                             *)
RunsItsOwnScript ==
    phase \in {"starting", "anchoring", "run", "finishing", "settling"} => frozen[row] = current

(* As long as runs end, every due entry is taken up in the end or found blocked; no *)
(* entry is kept waiting by others that keep coming due.                            *)
DueIsTakenUp ==
    \A e \in Entries :
        []<>(phase # "run") =>
            ((phase # "off" /\ IsDue(e)) ~> (phase = "off" \/ ~IsDue(e) \/ current = e))

(* Does not hold: a fixed schedule without days never starts a run (cycle.py 19).   *)
(* A time stored before the days were taken away is still used.                     *)
UnscheduledStaysIdle ==
    [][/\ phase # "starting" /\ phase' = "starting"
       /\ schedule[current'].mode = "fixed_time"
       => schedule[current'].days # {}]_vars
=============================================================================
