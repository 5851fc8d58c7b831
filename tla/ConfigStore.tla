------------------------------- MODULE ConfigStore -------------------------------
(***************************************************************************)
(* The committed configuration and its way to the disk                     *)
(* (app/config/core/manager.py): transactions of asyncio tasks and of      *)
(* other threads, the one save worker with its quiet period and its        *)
(* retries, and flush.  All of them go through the execution gate.         *)
(*                                                                         *)
(* Times are not numbers: a deadline is ahead or has passed.               *)
(***************************************************************************)
EXTENDS ExecutionGate, FiniteSets

CONSTANTS
  Writers,     \* asyncio tasks with transactions
  Threads,     \* other threads with transactions (transaction_sync)
  Flusher,     \* the task that calls flush
  Worker,      \* the task that runs _save_worker
  Roots,       \* registered and active roots
  None,
  MaxRetries,  \* length of _save_retry_delays
  MaxCalls, MaxFailures, MaxDeaths  \* bounds: entries into the gate, failed writes, cancelled
                                    \* workers and aborted rounds

Tasks == Writers \cup {Flusher, Worker}

ASSUME ActorAssumption ==
  /\ Actors = Tasks \cup Threads /\ IsFiniteSet(Actors)
  /\ Worker # Flusher /\ {Worker, Flusher} \cap (Writers \cup Threads) = {}
ASSUME BoundAssumption ==
  MaxRetries \in Nat /\ MaxCalls \in Nat /\ MaxFailures \in Nat /\ MaxDeaths \in Nat

VARIABLES
  revision,        \* of each root, in memory
  written,         \* the revision of each root on the disk
  _save_requested,
  quiet,           \* _save_deadline has passed
  _save_failures,  \* of each root: None or a record
  worker,          \* where the worker is, see WorkerStates
  event, ring,     \* _save_event, and a call of its set is under way
  todo, full, force,  \* the round of saving that is under way
  stranded,        \* history: a thread's request found no worker, or the worker was cancelled,
                   \* and no task has come since
  calls, failures, deaths

saveVars  == <<_save_requested, quiet, _save_failures>>
roundVars == <<todo, full, force>>
boundVars == <<calls, failures, deaths>>
vars == <<gateVars, revision, written, saveVars, worker, event, ring, roundVars, stranded, boundVars>>

(* "top": at the head of its loop; "reading": the event is cleared;        *)
(* "sleeping": until the deadline or the event; "asking": wants the gate;  *)
(* "ended": it returned and its callback has not run.                      *)
WorkerStates == {"none", "top", "reading", "sleeping", "asking", "saving", "ended"}

Failure == [revision : 0..MaxCalls, io : BOOLEAN, retry_count : 0..MaxRetries,
            next_retry : {"ahead", "passed", "never"}]

ASSUME NoneAssumption == None \notin Failure

Init ==
  /\ GateInit
  /\ revision = [r \in Roots |-> 0] /\ written = [r \in Roots |-> 0]
  /\ _save_requested = FALSE /\ quiet = TRUE
  /\ _save_failures = [r \in Roots |-> None]
  /\ worker = "none" /\ event = FALSE /\ ring = FALSE
  /\ todo = {} /\ full = FALSE /\ force = FALSE
  /\ stranded = FALSE /\ calls = 0 /\ failures = 0 /\ deaths = 0

-----------------------------------------------------------------------------
(* Deadlines.                                                              *)

Failed == {r \in Roots : _save_failures[r] # None}
Retrying(sf) == {r \in Roots : sf[r] # None /\ sf[r].next_retry # "never"}

\* _next_save_due: "none", "ahead" or "passed".
NextSaveDue(requested, q, sf) ==
  CASE ~requested /\ Retrying(sf) = {} -> "none"
    [] q /\ (requested \/ \E r \in Retrying(sf) : sf[r].next_retry = "passed") -> "passed"
    [] OTHER -> "ahead"

Due == NextSaveDue(_save_requested, quiet, _save_failures)

QuietPeriodEnds ==
  /\ ~quiet /\ quiet' = TRUE
  /\ UNCHANGED <<gateVars, revision, written, _save_requested, _save_failures, worker,
                 event, ring, roundVars, stranded, boundVars>>

RetryComesDue(r) ==
  /\ _save_failures[r] # None /\ _save_failures[r].next_retry = "ahead"
  /\ _save_failures' = [_save_failures EXCEPT ![r].next_retry = "passed"]
  /\ UNCHANGED <<gateVars, revision, written, _save_requested, quiet, worker,
                 event, ring, roundVars, stranded, boundVars>>

-----------------------------------------------------------------------------
(* The worker is started by whoever runs on the event loop.                *)

\* _ensure_save_worker, w being where the worker is.
EnsureWorker(w, due) ==
  IF w = "none" /\ due # "none"
  THEN worker' = "top" /\ event' = FALSE /\ stranded' = FALSE
  ELSE worker' = w /\ UNCHANGED <<event, stranded>>

Called == calls < MaxCalls /\ calls' = calls + 1

\* A task enters the gate.
TaskEnters(a) ==
  /\ \/ EntersAtOnce(a) /\ Called
     \/ Resumes(a) /\ UNCHANGED calls
  /\ EnsureWorker(worker, Due)
  /\ UNCHANGED <<revision, written, saveVars, ring, roundVars, failures, deaths>>

TaskQueues(a) ==
  /\ EntersQueue(a) /\ Called
  /\ UNCHANGED <<revision, written, saveVars, worker, event, ring, roundVars, stranded,
                 failures, deaths>>

TaskIsCancelled(a) ==
  /\ IsCancelled(a)
  /\ UNCHANGED <<revision, written, saveVars, worker, event, ring, roundVars, stranded, boundVars>>

\* The cancelled transaction had no context yet, so nothing is settled for it.
WriterGivesUp(a) ==
  /\ GivesUp(a, "idle")
  /\ UNCHANGED <<revision, written, saveVars, worker, event, ring, roundVars, stranded, boundVars>>

-----------------------------------------------------------------------------
(* Transactions.                                                           *)

\* COMMIT of the roots in S, or ROLLBACK when S is empty.
Commits(S) ==
  revision' = [r \in Roots |-> IF r \in S THEN revision[r] + 1 ELSE revision[r]]

\* _transaction_settled without its notification.
Settles(need_save) ==
  /\ _save_requested' = (_save_requested \/ need_save)
  /\ quiet' = (quiet /\ ~_save_requested' /\ Failed = {})
  /\ UNCHANGED _save_failures

\* A task commits, leaves the gate and settles in one step of the event loop.
Transaction(a) ==
  /\ owner = a /\ act[a] = "inside" /\ Leaves(a, "idle")
  /\ \E S \in SUBSET Roots : Commits(S) /\ Settles(S # {})
  /\ EnsureWorker(worker, NextSaveDue(_save_requested', quiet', _save_failures))
  /\ ring' = (worker' # "none")
  /\ UNCHANGED <<written, roundVars, boundVars>>

Nested(a) ==
  /\ Reenters(a) \/ LeavesInner(a)
  /\ UNCHANGED <<revision, written, saveVars, worker, event, ring, roundVars, stranded, boundVars>>

ThreadEnters(t) ==
  /\ \/ (EntersAtOnce(t) \/ EntersQueue(t)) /\ Called
     \/ Resumes(t) /\ UNCHANGED calls
  /\ UNCHANGED <<revision, written, saveVars, worker, event, ring, roundVars, stranded,
                 failures, deaths>>

\* A thread leaves the gate first and settles later.
ThreadCommits(t) ==
  /\ owner = t /\ act[t] = "inside" /\ Leaves(t, "outside")
  /\ \E S \in (SUBSET Roots) \ {{}} : Commits(S)
  /\ UNCHANGED <<written, saveVars, worker, event, ring, roundVars, stranded, boundVars>>

\* Outside the event loop _ensure_save_worker starts nothing.
ThreadSettles(t) ==
  /\ act[t] = "outside"
  /\ act' = [act EXCEPT ![t] = "idle"]
  /\ Settles(TRUE)
  /\ stranded' = (worker = "none")
  /\ ring' = (ring \/ worker # "none")
  /\ UNCHANGED <<owner, depth, waiters, revision, written, worker, event, roundVars, boundVars>>

EventIsSet ==
  /\ ring /\ ring' = FALSE /\ event' = TRUE
  /\ UNCHANGED <<gateVars, revision, written, saveVars, worker, roundVars, stranded, boundVars>>

-----------------------------------------------------------------------------
(* One round of saving, _debounced_save_impl, by the holder of the gate.   *)

\* The roots a round writes: all when it is forced; otherwise those with a failure
\* when they may be tried again, and the others when the round is a full one.
Wants(r) ==
  LET f == _save_failures[r] IN
  \/ force
  \/ f = None /\ full
  \/ f # None /\ (IF f.io THEN f.next_retry = "passed" ELSE f.revision # revision[r])

SkipsRoot(r) ==
  /\ r \in todo /\ ~Wants(r)
  /\ todo' = todo \ {r}
  /\ UNCHANGED <<gateVars, revision, written, saveVars, worker, event, ring, full, force,
                 stranded, boundVars>>

WritesRoot(r) ==
  /\ r \in todo /\ Wants(r)
  /\ todo' = todo \ {r}
  /\ written' = [written EXCEPT ![r] = revision[r]]
  /\ _save_failures' = [_save_failures EXCEPT ![r] = None]
  /\ UNCHANGED <<gateVars, revision, _save_requested, quiet, worker, event, ring, full, force,
                 stranded, boundVars>>

\* Mutant: one retry more than there are delays.
RetryAllowedOnceMore(io, count) == io /\ count <= MaxRetries

RetryAllowed(io, count) == io /\ count < MaxRetries

\* _record_save_failure: a retry of its own that fails counts.
FailsRoot(r) ==
  /\ r \in todo /\ Wants(r) /\ failures < MaxFailures
  /\ failures' = failures + 1
  /\ todo' = todo \ {r}
  /\ \E io \in BOOLEAN :
       LET previous == _save_failures[r]
           count == IF previous = None THEN 0
                    ELSE previous.retry_count + (IF ~force /\ previous.io THEN 1 ELSE 0)
       IN _save_failures' = [_save_failures EXCEPT ![r] =
            [revision |-> revision[r], io |-> io, retry_count |-> count,
             next_retry |-> IF RetryAllowed(io, count) THEN "ahead" ELSE "never"]]
  /\ UNCHANGED <<gateVars, revision, written, _save_requested, quiet, worker, event, ring,
                 full, force, stranded, calls, deaths>>

-----------------------------------------------------------------------------
(* The save worker.                                                        *)

Moves(from, to) == worker = from /\ worker' = to

ClearsEvent ==
  /\ Moves("top", "reading") /\ event' = FALSE
  /\ UNCHANGED <<gateVars, revision, written, saveVars, ring, roundVars, stranded, boundVars>>

ReadsDeadline ==
  /\ Moves("reading", CASE Due = "none" -> "ended"
                        [] Due = "ahead" -> "sleeping"
                        [] Due = "passed" -> "asking")
  /\ UNCHANGED <<gateVars, revision, written, saveVars, event, ring, roundVars, stranded, boundVars>>

\* The event, or the deadline it went to sleep with; that one may have been put off since.
WakesUp ==
  /\ \/ event /\ Moves("sleeping", "top")
     \/ (Due = "passed" \/ ring \/ event) /\ Moves("sleeping", "asking")
  /\ UNCHANGED <<gateVars, revision, written, saveVars, event, ring, roundVars, stranded, boundVars>>

AsksGate ==
  /\ worker = "asking"
  /\ EntersAtOnce(Worker) \/ EntersQueue(Worker) \/ Resumes(Worker)
  /\ UNCHANGED <<revision, written, saveVars, worker, event, ring, roundVars, stranded, boundVars>>

\* Inside the gate the deadline is read again.
ChecksAgain ==
  /\ worker = "asking" /\ act[Worker] = "inside"
  /\ IF Due = "passed"
     THEN /\ Moves("asking", "saving")
          /\ full' = (_save_requested /\ quiet)
          /\ _save_requested' = (_save_requested /\ ~full')
          /\ todo' = Roots /\ force' = FALSE
          /\ UNCHANGED gateVars
     ELSE /\ Moves("asking", "top") /\ Leaves(Worker, "idle")
          /\ UNCHANGED <<_save_requested, roundVars>>
  /\ UNCHANGED <<revision, written, quiet, _save_failures, event, ring, stranded, boundVars>>

RoundEnds ==
  /\ todo = {} /\ Moves("saving", "top") /\ Leaves(Worker, "idle")
  /\ UNCHANGED <<revision, written, saveVars, event, ring, roundVars, stranded, boundVars>>

\* Mutant: a round that did not finish is taken for done.
AbortsRoundSilently ==
  todo' = {} /\ UNCHANGED <<_save_requested, quiet, _save_failures, full, force>>

\* A round that is cancelled in the middle leaves the request behind.
AbortsRound ==
  /\ todo' = {} /\ _save_requested' = TRUE
  /\ UNCHANGED <<quiet, _save_failures, full, force>>

\* A worker that was cancelled is not started again by its callback.  It is cancelled in
\* the middle of a round, as it sleeps, or as it waits for the gate.
WorkerDies ==
  /\ deaths < MaxDeaths /\ deaths' = deaths + 1
  /\ Moves("saving", "none") /\ Leaves(Worker, "idle")
  /\ AbortsRound /\ todo # {}
  /\ stranded' = TRUE
  /\ UNCHANGED <<revision, written, event, ring, calls, failures>>

WorkerIsCancelled ==
  /\ deaths < MaxDeaths /\ deaths' = deaths + 1
  /\ \/ Moves("sleeping", "none") /\ stranded' = TRUE /\ UNCHANGED gateVars
     \/ worker = "asking" /\ IsCancelled(Worker) /\ UNCHANGED <<worker, stranded>>
  /\ UNCHANGED <<revision, written, saveVars, event, ring, roundVars, calls, failures>>

WorkerGivesUp ==
  /\ Moves("asking", "none") /\ GivesUp(Worker, "idle")
  /\ stranded' = TRUE
  /\ UNCHANGED <<revision, written, saveVars, event, ring, roundVars, boundVars>>

\* Mutant: the callback does not look for requests that came after the last look.
WorkerForgets ==
  /\ worker = "ended" /\ worker' = "none"
  /\ UNCHANGED <<gateVars, revision, written, saveVars, event, ring, roundVars, stranded, boundVars>>

\* _save_worker_done.
WorkerDone ==
  /\ worker = "ended" /\ EnsureWorker("none", Due)
  /\ UNCHANGED <<gateVars, revision, written, saveVars, ring, roundVars, boundVars>>

-----------------------------------------------------------------------------
(* flush.                                                                  *)

FlushBegins ==
  /\ act[Flusher] = "inside" /\ ~force
  /\ _save_requested' = FALSE /\ todo' = Roots /\ force' = TRUE /\ full' = TRUE
  /\ UNCHANGED <<gateVars, revision, written, quiet, _save_failures, worker, event, ring,
                 stranded, boundVars>>

\* In the end the worker is notified whatever happened.
Notifies ==
  /\ EnsureWorker(worker, NextSaveDue(_save_requested', quiet', _save_failures'))
  /\ ring' = (worker' # "none")

FlushEnds ==
  /\ act[Flusher] = "inside" /\ force /\ Leaves(Flusher, "idle")
  /\ \/ todo = {} /\ todo' = {} /\ UNCHANGED <<saveVars, deaths>>
     \/ /\ todo # {} /\ deaths < MaxDeaths /\ deaths' = deaths + 1
        /\ todo' = {} /\ _save_requested' = TRUE /\ UNCHANGED <<quiet, _save_failures>>
  /\ force' = FALSE /\ full' = FALSE
  /\ Notifies
  /\ UNCHANGED <<revision, written, calls, failures>>

FlushGivesUp ==
  /\ GivesUp(Flusher, "idle")
  /\ UNCHANGED saveVars
  /\ Notifies
  /\ UNCHANGED <<revision, written, roundVars, boundVars>>

-----------------------------------------------------------------------------
WorkerStep ==
  \/ ClearsEvent \/ ReadsDeadline \/ WakesUp \/ AsksGate \/ ChecksAgain \/ RoundEnds
  \/ WorkerGivesUp \/ WorkerDone

RootStep == \E r \in Roots : SkipsRoot(r) \/ WritesRoot(r)

\* What a task or a thread does once it has called.
WriterStep(a) ==
  \/ act[a] # "idle" /\ TaskEnters(a)
  \/ WriterGivesUp(a) \/ Transaction(a)

ThreadStep(t) ==
  \/ act[t] # "idle" /\ ThreadEnters(t)
  \/ ThreadCommits(t) \/ ThreadSettles(t)

FlusherStep ==
  \/ act[Flusher] # "idle" /\ TaskEnters(Flusher)
  \/ FlushBegins \/ FlushEnds \/ FlushGivesUp

\* The bound on calls is reached and nothing is under way any more.
AtRest ==
  /\ calls = MaxCalls /\ worker = "none" /\ \A a \in Actors : act[a] = "idle"
  /\ UNCHANGED vars

Next ==
  \/ \E a \in Writers \cup {Flusher} : TaskEnters(a) \/ TaskQueues(a) \/ TaskIsCancelled(a)
  \/ \E a \in Writers : WriterGivesUp(a) \/ Transaction(a) \/ Nested(a)
  \/ \E t \in Threads : ThreadEnters(t) \/ ThreadCommits(t) \/ ThreadSettles(t) \/ Nested(t)
  \/ \E r \in Roots : RetryComesDue(r) \/ FailsRoot(r)
  \/ QuietPeriodEnds \/ EventIsSet
  \/ RootStep \/ WorkerStep \/ WorkerDies \/ WorkerIsCancelled
  \/ FlushBegins \/ FlushEnds \/ FlushGivesUp
  \/ AtRest

Spec == Init /\ [][Next]_vars

\* Time passes, the event loop and the threads go on, and a transaction ends
\* after finitely many commits inside it.
Fairness ==
  /\ WF_vars(WorkerStep) /\ WF_vars(RootStep)
  /\ WF_vars(QuietPeriodEnds) /\ WF_vars(EventIsSet)
  /\ \A r \in Roots : WF_vars(RetryComesDue(r))
  /\ \A a \in Writers : SF_vars(WriterStep(a)) /\ WF_vars(Nested(a))
  /\ \A t \in Threads : SF_vars(ThreadStep(t)) /\ WF_vars(Nested(t))
  /\ WF_vars(FlusherStep)

FairSpec == Spec /\ Fairness

-----------------------------------------------------------------------------
(* Properties.                                                             *)

\* Types of all variables; the retries of a root never exceed the delays there are.
TypeOK ==
  /\ GateTypeOK
  /\ revision \in [Roots -> 0..MaxCalls] /\ written \in [Roots -> 0..MaxCalls]
  /\ _save_requested \in BOOLEAN /\ quiet \in BOOLEAN
  /\ _save_failures \in [Roots -> {None} \cup Failure]
  /\ worker \in WorkerStates /\ event \in BOOLEAN /\ ring \in BOOLEAN
  /\ todo \subseteq Roots /\ full \in BOOLEAN /\ force \in BOOLEAN
  /\ stranded \in BOOLEAN
  /\ calls \in 0..MaxCalls /\ failures \in 0..MaxFailures /\ deaths \in 0..MaxDeaths

\* What is newer in memory than on the disk is never forgotten: it is requested, or
\* kept as a failure, or about to be written, or about to be requested by a thread.
NothingForgotten ==
  \A r \in Roots : written[r] # revision[r] =>
    \/ _save_requested \/ _save_failures[r] # None
    \/ r \in todo /\ Wants(r)
    \/ \E t \in Threads : act[t] = "outside"

\* Automatic saving is over for a root: its retries are used up, or it failed for
\* another reason than the disk and has not been changed since.
GivenUp(r) ==
  /\ _save_failures[r] # None
  /\ IF _save_failures[r].io THEN _save_failures[r].next_retry = "never"
     ELSE _save_failures[r].revision = revision[r]

\* When the transactions stop, every root is written or given up, unless the last
\* request came from a thread that found no worker, or the worker was cancelled: the next
\* task picks it up (_save_worker, _save_worker_done, _ensure_save_worker).
SavedInTheEnd ==
  <>[](stranded \/ \A r \in Roots : written[r] = revision[r] \/ GivenUp(r))
=============================================================================
