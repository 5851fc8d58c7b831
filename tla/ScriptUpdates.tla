------------------------------ MODULE ScriptUpdates ------------------------------
(***************************************************************************)
(* The sequential run of a queue and the update it fetches ahead for the   *)
(* next script: _run_script_list_items of app/core/task_manager/manager.py *)
(* (the owner), ScriptUpdateSession of app/core/script_update.py and       *)
(* ScriptUpdateQueue of app/core/script_update_queue.py (the watcher and   *)
(* the download it makes).                                                 *)
(*                                                                         *)
(* The owner, the child task that runs a script, the watcher and the       *)
(* download are asyncio tasks: what a task does between two awaits that    *)
(* suspend it is one step.  discard_prefetched_update never suspends.  A   *)
(* stop reaches the owner and the child together, once, because both are   *)
(* in one TaskGroup; it is delivered when the owner is resumed.  So is the *)
(* end of a child that aborts the group by itself.                         *)
(***************************************************************************)
EXTENDS Naturals

CONSTANTS
  Scripts,     \* the scripts the entries of the queue may name
  Entries,     \* number of entries in the queue
  ScriptAt,    \* the script of each entry
  MaxChanges   \* bound on the changes made to the configuration during the run

ASSUME QueueAssumption ==
  /\ Entries \in Nat \ {0} /\ MaxChanges \in Nat /\ ScriptAt \in [1..Entries -> Scripts]

VARIABLES
  eligible,             \* of each entry: not locked, in the scope, scheduled today
  edition,              \* of each entry: stands for what _identity reads
  changes,
  current_index, at,    \* the owner: its entry and place, see Places
  stop,                 \* the user asked to stop
  raising,              \* the exception the owner is on its way out with
  child, status,        \* the task of the current script and its ScriptItem.status
  first_task_completed, grace_over,
  watcher, watcher_cancel,
  download, download_cancel, target, baseline,
  has_download,         \* ScriptUpdateQueue._download is not None
  _pending,             \* the candidate that waits for its entry
  held                  \* the entries whose prefetched files have not been discarded

configVars == <<eligible, edition, changes>>
ownerVars == <<current_index, at, stop, raising>>
childVars == <<child, status, first_task_completed, grace_over>>
watcherVars == <<watcher, watcher_cancel, target>>
downloadVars == <<download, download_cancel, baseline, has_download>>
candidateVars == <<_pending, held>>
vars == <<configVars, ownerVars, childVars, watcherVars, downloadVars, candidateVars>>

Index == 1..Entries
None == 0
NoPending == [index |-> None, identity |-> 0]

Places == {"head", "noticing", "running", "waiting", "converging", "ended"}
Errors == {"none", "cancelled", "unconfirmed"}
ChildStates == {"none", "alive", "done", "cancelled"}
WatcherStates ==
  {"none", "timing", "following", "aborting", "withdrawing", "ok", "cancelled", "unconfirmed"}
DownloadStates == {"none", "created", "fetching", "ok", "failed", "cancelled", "unconfirmed"}

WatcherDone == watcher \in {"none", "ok", "cancelled", "unconfirmed"}
DownloadAlive == download \in {"created", "fetching"}

Init ==
  /\ eligible \in [Index -> BOOLEAN] /\ edition = [i \in Index |-> 0] /\ changes = 0
  /\ current_index = 1 /\ at = "head" /\ stop = FALSE /\ raising = "none"
  /\ child = "none" /\ status = "waiting"
  /\ first_task_completed = FALSE /\ grace_over = FALSE
  /\ watcher = "none" /\ watcher_cancel = FALSE /\ target = None
  /\ download = "none" /\ download_cancel = FALSE /\ baseline = 0 /\ has_download = FALSE
  /\ _pending = NoPending /\ held = {}

-----------------------------------------------------------------------------
(* The session.                                                            *)

\* What a candidate is fetched for; 0 when the entry would not run.
Identity(i) == IF eligible[i] THEN edition[i] + 1 ELSE 0

NextTarget(i) ==
  LET later == {j \in Index : j > i /\ eligible[j]}
  IN IF later = {} THEN None ELSE CHOOSE j \in later : \A k \in later : j <= k

\* Nothing is fetched for the accounts of one script or the same script in a row.
Watched(i) ==
  IF NextTarget(i) # None /\ ScriptAt[NextTarget(i)] # ScriptAt[i] THEN NextTarget(i) ELSE None

\* take: a candidate of another entry or another configuration is not handed over.
Takes(i) == _pending.index = i /\ _pending.identity = Identity(i)

\* Mutant: a candidate nobody took is forgotten and not discarded.
ForgetsPending(remaining) == _pending' = NoPending /\ held' = remaining

DiscardsPending(remaining) == _pending' = NoPending /\ held' = remaining \ {_pending.index}

-----------------------------------------------------------------------------
(* The owner.                                                              *)

\* Mutant: the loop runs one entry too far.
ContinuesTooFar(i) == i <= Entries

Continues(i) == i < Entries

\* After finish: the next entry, or the end of the run with close.  Remaining is what
\* the step has left of held.
Leaves(error, remaining) ==
  /\ raising' = error
  /\ IF error = "none" /\ Continues(current_index)
     THEN at' = "head" /\ current_index' = current_index + 1
     ELSE at' = "ended" /\ UNCHANGED current_index
  /\ IF at' = "ended" \/ status = "failed"
     THEN DiscardsPending(remaining)
     ELSE held' = remaining /\ UNCHANGED _pending

\* The script is gone, locked, taken by another task, not for today or without an
\* account in the scope; a notice says so.
Skips ==
  /\ at = "head"
  /\ at' = "noticing" /\ status' = "skipped"
  /\ UNCHANGED <<configVars, current_index, stop, raising, child, first_task_completed,
                 grace_over, watcherVars, downloadVars, candidateVars>>

NoticeSent ==
  /\ at = "noticing"
  /\ Leaves(IF stop THEN "cancelled" ELSE "none", held)
  /\ UNCHANGED <<configVars, stop, childVars, watcherVars, downloadVars>>

\* begin_script_run, take, watch and spawn: no await between them suspends.
Begins ==
  /\ at = "head" /\ eligible[current_index]
  /\ at' = "running" /\ child' = "alive" /\ status' = "running"
  /\ first_task_completed' = FALSE /\ grace_over' = FALSE
  /\ IF Takes(current_index)
     THEN _pending' = NoPending /\ UNCHANGED held
     ELSE DiscardsPending(held)
  /\ target' = Watched(current_index)
  /\ watcher' = IF target' # None THEN "timing" ELSE "none"
  /\ watcher_cancel' = FALSE
  /\ UNCHANGED <<configVars, current_index, stop, raising, downloadVars>>

\* The first part of _cancel_and_wait(watcher).
CancelsWatcher == watcher_cancel' = ~WatcherDone

\* Mutant: a download under way is left to itself.
WaitsOnlyWhenCancelled(cancelled) == watcher # "none" /\ (cancelled \/ ~has_download)

\* ScriptUpdateQueue.finish has something to wait for.
MustWait(cancelled) == watcher # "none"

\* The await of the child ends and finish begins.  What the script was given is discarded
\* before it, or after it if the await has raised.
ChildAwaited ==
  /\ at = "running" /\ child \in {"done", "cancelled"}
  /\ LET error == IF stop THEN "cancelled" ELSE "none"
         cancelled == error # "none" \/ status = "failed"
         remaining == held \ {current_index}
     IN IF MustWait(cancelled)
        THEN /\ raising' = error
             /\ IF cancelled \/ ~has_download
                THEN at' = "converging" /\ CancelsWatcher
                ELSE at' = "waiting" /\ UNCHANGED watcher_cancel
             /\ held' = IF error = "none" THEN remaining ELSE held
             /\ UNCHANGED <<current_index, has_download, _pending>>
        ELSE /\ Leaves(error, remaining)
             /\ UNCHANGED <<has_download, watcher_cancel>>
  /\ UNCHANGED <<configVars, stop, childVars, watcher, target, download, download_cancel,
                 baseline>>

\* Mutant: a stop waits until the download under way has ended by itself.
WaitShielded ==
  /\ at = "waiting" /\ stop /\ WatcherDone
  /\ at' = "converging" /\ raising' = "cancelled"
  /\ UNCHANGED <<configVars, current_index, stop, childVars, watcherVars, downloadVars,
                 candidateVars>>

\* The stop reaches finish while it waits for a download under way.
WaitInterrupted ==
  /\ at = "waiting" /\ stop
  /\ at' = "converging" /\ raising' = "cancelled"
  /\ CancelsWatcher
  /\ UNCHANGED <<configVars, current_index, stop, childVars, watcher, target, downloadVars,
                 candidateVars>>

\* Mutant: a stop that came while finish waited for what it had cancelled is lost.
ErrorWithoutStop == IF watcher = "unconfirmed" THEN "unconfirmed" ELSE raising

\* An unconfirmed writer is reported; a stop that was swallowed in _cancel_and_wait
\* is raised again.
ErrorOfFinish ==
  IF watcher = "unconfirmed" THEN "unconfirmed" ELSE IF stop THEN "cancelled" ELSE raising

\* finish returns or raises.
Finishes ==
  /\ (at = "waiting" /\ ~stop) \/ at = "converging"
  /\ WatcherDone
  /\ Leaves(ErrorOfFinish, held \ {current_index})
  /\ watcher' = "none" /\ watcher_cancel' = FALSE /\ has_download' = FALSE
  /\ UNCHANGED <<configVars, stop, childVars, target, download, download_cancel, baseline>>

-----------------------------------------------------------------------------
(* The child, the user and the configuration.                              *)

Completes ==
  /\ child = "alive" /\ status = "running" /\ ~first_task_completed
  /\ first_task_completed' = TRUE
  /\ UNCHANGED <<configVars, ownerVars, child, status, grace_over, watcherVars, downloadVars,
                 candidateVars>>

GracePasses ==
  /\ first_task_completed /\ ~grace_over
  /\ grace_over' = TRUE
  /\ UNCHANGED <<configVars, ownerVars, child, status, first_task_completed, watcherVars,
                 downloadVars, candidateVars>>

SetsStatus ==
  /\ child = "alive" /\ status = "running"
  /\ status' \in {"completed", "failed"}
  /\ UNCHANGED <<configVars, ownerVars, child, first_task_completed, grace_over, watcherVars,
                 downloadVars, candidateVars>>

\* With a stop it ends cancelled, whatever its status is then.
ChildEnds ==
  /\ child = "alive"
  /\ child' = IF stop THEN "cancelled" ELSE "done"
  /\ stop \/ status # "running"
  /\ UNCHANGED <<configVars, ownerVars, status, first_task_completed, grace_over, watcherVars,
                 downloadVars, candidateVars>>

\* The owner is at an await.
Stops ==
  /\ ~stop /\ at \notin {"head", "ended"}
  /\ stop' = TRUE
  /\ UNCHANGED <<configVars, current_index, at, raising, childVars, watcherVars, downloadVars,
                 candidateVars>>

Changes(i) ==
  /\ changes < MaxChanges /\ changes' = changes + 1
  /\ \/ eligible' = [eligible EXCEPT ![i] = ~@] /\ UNCHANGED edition
     \/ edition' = [edition EXCEPT ![i] = @ + 1] /\ UNCHANGED eligible
  /\ UNCHANGED <<ownerVars, childVars, watcherVars, downloadVars, candidateVars>>

-----------------------------------------------------------------------------
(* The watcher.                                                            *)

WatcherOnly == UNCHANGED <<configVars, ownerVars, childVars, candidateVars, target, watcher_cancel>>

\* The script ended before its time was over, or the watcher is cancelled.
TimerEnds ==
  /\ watcher = "timing" /\ (watcher_cancel \/ status # "running")
  /\ watcher' = IF watcher_cancel THEN "cancelled" ELSE "ok"
  /\ WatcherOnly /\ UNCHANGED downloadVars

TimerFires ==
  /\ watcher = "timing" /\ ~watcher_cancel
  /\ status = "running" /\ first_task_completed /\ grace_over
  /\ watcher' = "following"
  /\ download' = "created" /\ download_cancel' = FALSE /\ has_download' = TRUE
  /\ WatcherOnly /\ UNCHANGED baseline

\* The script failed, or the watcher is cancelled: _cancel_and_wait(download).
Withdraws ==
  /\ watcher = "following"
  /\ watcher_cancel \/ (DownloadAlive /\ status = "failed")
  /\ watcher' = IF watcher_cancel THEN "withdrawing" ELSE "aborting"
  /\ download_cancel' = DownloadAlive
  /\ WatcherOnly /\ UNCHANGED <<download, baseline, has_download>>

\* A download that fails is no error of the watcher, one whose writer may still be
\* there is.
WatcherEnds ==
  /\ ~DownloadAlive
  /\ \/ watcher = "following" /\ ~watcher_cancel
     \/ watcher \in {"aborting", "withdrawing"}
  /\ watcher' = CASE download = "unconfirmed" -> "unconfirmed"
                  [] download # "unconfirmed" /\ watcher = "withdrawing" -> "cancelled"
                  [] OTHER -> "ok"
  /\ WatcherOnly /\ UNCHANGED downloadVars

-----------------------------------------------------------------------------
(* The download: _prefetch.                                                *)

DownloadOnly ==
  UNCHANGED <<configVars, ownerVars, childVars, watcherVars, download_cancel, has_download>>

\* The entry would not run any more, or its adapter has nothing to fetch; or the task is
\* cancelled before its first step.
NothingFetched ==
  /\ download = "created"
  /\ download' = IF download_cancel THEN "cancelled" ELSE "ok"
  /\ DownloadOnly /\ UNCHANGED <<baseline, candidateVars>>

FetchBegins ==
  /\ download = "created" /\ ~download_cancel /\ Identity(target) # 0
  /\ download' = "fetching" /\ baseline' = Identity(target)
  /\ held' = held \cup {target}
  /\ DownloadOnly /\ UNCHANGED _pending

\* It raises what the adapter raises, after the candidate is discarded.
FetchRaises ==
  /\ download = "fetching"
  /\ download' \in {"unconfirmed", IF download_cancel THEN "cancelled" ELSE "failed"}
  /\ held' = held \ {target}
  /\ DownloadOnly /\ UNCHANGED <<baseline, _pending>>

\* A candidate whose configuration has changed is discarded; so is an older one.
Fetched ==
  /\ download = "fetching" /\ ~download_cancel
  /\ download' = "ok"
  /\ IF Identity(target) = baseline
     THEN /\ _pending' = [index |-> target, identity |-> baseline]
          /\ held' = held \ {_pending.index}
     ELSE held' = held \ {target} /\ UNCHANGED _pending
  /\ DownloadOnly /\ UNCHANGED baseline

-----------------------------------------------------------------------------
OwnerStep == Skips \/ NoticeSent \/ Begins \/ ChildAwaited \/ WaitInterrupted \/ Finishes
WatcherStep == TimerEnds \/ TimerFires \/ Withdraws \/ WatcherEnds
DownloadStep == NothingFetched \/ FetchBegins \/ FetchRaises \/ Fetched

AtRest == at = "ended" /\ UNCHANGED vars

Next ==
  \/ OwnerStep \/ WatcherStep \/ DownloadStep
  \/ Completes \/ GracePasses \/ SetsStatus \/ ChildEnds \/ Stops
  \/ \E i \in Index : Changes(i)
  \/ AtRest

Spec == Init /\ [][Next]_vars

\* The event loop runs what can run.  A script and a fetch are only taken to end when
\* they are cancelled.
Fairness ==
  /\ WF_vars(OwnerStep) /\ WF_vars(WatcherStep) /\ WF_vars(stop /\ ChildEnds)
  /\ WF_vars(download = "created" /\ DownloadStep) /\ WF_vars(download_cancel /\ FetchRaises)

FairSpec == Spec /\ Fairness

-----------------------------------------------------------------------------
(* Properties.                                                             *)

\* Types of all variables.
TypeOK ==
  /\ eligible \in [Index -> BOOLEAN] /\ edition \in [Index -> 0..MaxChanges]
  /\ changes \in 0..MaxChanges
  /\ current_index \in Index /\ at \in Places /\ stop \in BOOLEAN /\ raising \in Errors
  /\ child \in ChildStates /\ status \in {"waiting", "running", "completed", "failed", "skipped"}
  /\ first_task_completed \in BOOLEAN /\ grace_over \in BOOLEAN
  /\ watcher \in WatcherStates /\ watcher_cancel \in BOOLEAN /\ target \in Index \cup {None}
  /\ download \in DownloadStates /\ download_cancel \in BOOLEAN /\ has_download \in BOOLEAN
  /\ baseline \in 0..MaxChanges + 1
  /\ _pending \in [index : Index \cup {None}, identity : 0..MaxChanges + 1]
  /\ held \subseteq Index

\* The hand-over: while a script is prepared or runs, the only download that may be
\* writing is one that was begun under this very script, for a later entry; none is
\* left between two scripts or after the run ("包尚未下载完不能启动下一脚本").
DownloadsStayAhead ==
  /\ DownloadAlive =>
       /\ watcher \in {"following", "aborting", "withdrawing"}
       /\ at \in {"running", "waiting", "converging"} /\ target > current_index
  /\ ~WatcherDone => at \in {"running", "waiting", "converging"}

\* Whoever has prefetched files answers for them: the script that was given them, until it
\* is left, the session for its pending candidate, or the download that fetches them.
\* When the run is over none are left, however it ended.
CandidatesAccountedFor ==
  /\ \A i \in held :
       \/ i = current_index /\ (at = "running" \/ (at = "converging" /\ raising # "none"))
       \/ i = _pending.index
       \/ i = target /\ download = "fetching"
  /\ at = "ended" => held = {} /\ _pending = NoPending

\* After a stop, also one that comes while finish waits for what it has cancelled, and
\* after a download whose writer may still be there, no further script is begun.
HaltIsFinal ==
  [][stop \/ download = "unconfirmed" => ~(at = "head" /\ at' = "running")]_vars

\* A stop ends the run, even if the script and the download end only because they are
\* cancelled.
StopEndsRun == stop ~> at = "ended"
=============================================================================
