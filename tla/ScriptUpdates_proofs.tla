-------------------------- MODULE ScriptUpdates_proofs --------------------------
(* What a sequential queue run keeps for any queue, whatever is changed,   *)
(* stopped, cancelled or fails while it fetches ahead.                     *)
EXTENDS ScriptUpdates, WellFoundedInduction, TLAPS

-----------------------------------------------------------------------------
(* The inductive invariant.                                                *)

Following == {"following", "aborting", "withdrawing"}

\* A watcher belongs to the script that is run: there is none between two scripts.
WatcherInTime == at \in {"head", "noticing", "ended"} => watcher = "none"

\* A download is always followed, and what it is fetched for is ahead.
DownloadWatched == DownloadAlive => watcher \in Following

TargetAhead == watcher # "none" => target \in Index /\ target > current_index

\* That a writer may still be there is passed on from the download to the watcher, and
\* by finish to the owner, who ends the run.
UnconfirmedPassedOn ==
  download = "unconfirmed" => watcher \in Following \cup {"unconfirmed"} \/ at = "ended"

StopSeen == at = "head" => ~stop

EditionsCounted == \A i \in Index : edition[i] <= changes

Inv ==
  /\ TypeOK /\ WatcherInTime /\ DownloadWatched /\ TargetAhead /\ UnconfirmedPassedOn
  /\ StopSeen /\ EditionsCounted /\ CandidatesAccountedFor

-----------------------------------------------------------------------------
(* The entry a fetch is for.                                               *)

\* The next entry that would run is a later one.
LEMMA NextTargetIsLater ==
  ASSUME NEW i \in Index
  PROVE  NextTarget(i) = None \/ (NextTarget(i) \in Index /\ NextTarget(i) > i)
<1> DEFINE later == {j \in Index : j > i /\ eligible[j]}
<1>1. CASE later = {}
  BY <1>1 DEF NextTarget
<1>2. CASE later # {}
  <2>1. later \subseteq Nat
    BY QueueAssumption DEF Index
  <2>2. PICK j \in later : \A k \in later : ~ (<<k, j>> \in OpToRel(<, Nat))
    <3> HIDE DEF later
    <3>1. QED
      BY <1>2, <2>1, WFMin, NatLessThanWellFounded, Zenon
  <2>3. \A k \in later : j <= k
    <3> SUFFICES ASSUME NEW k \in later PROVE j <= k
      OBVIOUS
    <3>1. j \in Nat /\ k \in Nat /\ <<k, j>> \in Nat \X Nat
      BY <2>1
    <3>2. ~ (k < j)
      BY <2>2, <3>1, <<k, j>>[1] = k, <<k, j>>[2] = j DEF OpToRel
    <3>3. QED
      BY <3>1, <3>2
  <2>4. NextTarget(i) \in later
    BY <1>2, <2>3 DEF NextTarget
  <2>5. QED
    BY <2>4
<1>3. QED
  BY <1>1, <1>2

LEMMA WatchedIsLater ==
  ASSUME NEW i \in Index
  PROVE  Watched(i) = None \/ (Watched(i) \in Index /\ Watched(i) > i)
  BY NextTargetIsLater DEF Watched

LEMMA IndexIsNat == Index \subseteq Nat /\ None \notin Index /\ 1 \in Index
  BY QueueAssumption DEF Index, None

LEMMA IdentityType ==
  ASSUME Inv, NEW i \in Index
  PROVE  Identity(i) \in 0..MaxChanges + 1
  BY QueueAssumption DEF Identity, Inv, TypeOK

-----------------------------------------------------------------------------
(* The steps.                                                              *)

LEMMA InitInv == Init => Inv
<1> SUFFICES ASSUME Init PROVE Inv
  OBVIOUS
<1>1. TypeOK
  <2>1. edition \in [Index -> 0..MaxChanges] /\ changes \in 0..MaxChanges /\ baseline \in 0..MaxChanges + 1
    BY QueueAssumption DEF Init
  <2>2. _pending \in [index : Index \cup {None}, identity : 0..MaxChanges + 1]
    BY QueueAssumption DEF Init, NoPending
  <2>3. QED
    BY <2>1, <2>2, IndexIsNat
    DEF Init, TypeOK, Places, Errors, ChildStates, WatcherStates, DownloadStates
<1>2. QED
  BY <1>1 DEF Init, Inv, WatcherInTime, DownloadWatched, DownloadAlive, TargetAhead,
              UnconfirmedPassedOn, StopSeen, EditionsCounted, CandidatesAccountedFor

\* The owner goes on to the next entry, or ends the run: nobody downloads any more, and
\* the only files left are the pending candidate's.
LEMMA LeavesInv ==
  ASSUME Inv, NEW error \in Errors, NEW remaining \in SUBSET Index, Leaves(error, remaining),
         remaining \subseteq {_pending.index}, error = "none" => ~stop /\ download # "unconfirmed",
         ~DownloadAlive, watcher' = "none", watcher_cancel' \in BOOLEAN, has_download' \in BOOLEAN,
         UNCHANGED <<configVars, stop, childVars, target, download, download_cancel, baseline>>
  PROVE  Inv'
<1>1. /\ at' \in {"head", "ended"} /\ raising' = error /\ current_index' \in Index
      /\ at' = "head" => error = "none"
      /\ held' \subseteq {_pending'.index}
      /\ at' = "ended" => held' = {} /\ _pending' = NoPending
      /\ held' \subseteq Index /\ (_pending' = _pending \/ _pending' = NoPending)
  <2>1. \/ /\ at' = "head" /\ error = "none"
           /\ current_index < Entries /\ current_index' = current_index + 1
        \/ at' = "ended" /\ current_index' = current_index
    <3>1. CASE error = "none" /\ Continues(current_index)
      BY <3>1 DEF Leaves, Continues
    <3>2. CASE ~ (error = "none" /\ Continues(current_index))
      BY <3>2 DEF Leaves
    <3>3. QED
      BY <3>1, <3>2
  <2>2. current_index' \in Index
    BY <2>1, QueueAssumption DEF Inv, TypeOK, Index
  <2>3. /\ raising' = error
        /\ \/ held' = remaining \ {_pending.index} /\ _pending' = NoPending
           \/ at' # "ended" /\ held' = remaining /\ _pending' = _pending
    BY DEF Leaves, DiscardsPending
  <2>4. QED
    BY <2>1, <2>2, <2>3
<1>2. TypeOK'
  <2>1. NoPending \in [index : Index \cup {None}, identity : 0..MaxChanges + 1]
    BY QueueAssumption DEF NoPending
  <2>2. QED
    BY <1>1, <2>1 DEF Inv, TypeOK, configVars, childVars, Places, WatcherStates
<1>3. WatcherInTime' /\ TargetAhead'
  BY DEF WatcherInTime, TargetAhead
<1>4. DownloadWatched' /\ UnconfirmedPassedOn' /\ StopSeen'
  BY <1>1 DEF DownloadWatched, DownloadAlive, UnconfirmedPassedOn, StopSeen
<1>5. EditionsCounted'
  BY DEF Inv, EditionsCounted, configVars
<1>6. CandidatesAccountedFor'
  BY <1>1 DEF CandidatesAccountedFor
<1>7. QED
  BY <1>2, <1>3, <1>4, <1>5, <1>6 DEF Inv

LEMMA OwnerInv ==
  ASSUME Inv, OwnerStep
  PROVE  Inv'
<1>1. CASE Skips
  <2>1. TypeOK'
    BY <1>1 DEF Skips, Inv, TypeOK, Places, configVars, watcherVars, downloadVars, candidateVars
  <2>2. QED
    BY <1>1, <2>1
    DEF Skips, Inv, WatcherInTime, DownloadWatched, DownloadAlive, TargetAhead, UnconfirmedPassedOn,
        StopSeen, EditionsCounted, CandidatesAccountedFor, configVars, watcherVars, downloadVars,
        candidateVars
<1>2. CASE NoticeSent
  <2>1. watcher = "none" /\ ~DownloadAlive /\ download # "unconfirmed"
    BY <1>2 DEF NoticeSent, Inv, WatcherInTime, DownloadWatched, UnconfirmedPassedOn, Following
  <2>2. held \subseteq {_pending.index}
    BY <1>2, <2>1 DEF NoticeSent, Inv, CandidatesAccountedFor, DownloadAlive
  <2>3. PICK error \in Errors : Leaves(error, held) /\ (error = "none" => ~stop)
    BY <1>2 DEF NoticeSent, Errors
  <2>4. /\ held \in SUBSET Index /\ watcher' = "none" /\ watcher_cancel' \in BOOLEAN
        /\ has_download' \in BOOLEAN
        /\ UNCHANGED <<configVars, stop, childVars, target, download, download_cancel, baseline>>
    BY <1>2, <2>1 DEF NoticeSent, Inv, TypeOK, watcherVars, downloadVars
  <2>5. QED
    BY <2>1, <2>2, <2>3, <2>4, LeavesInv
<1>3. CASE Begins
  <2>1. watcher = "none" /\ ~DownloadAlive /\ download # "unconfirmed" /\ current_index \in Index
    BY <1>3 DEF Begins, Inv, TypeOK, WatcherInTime, DownloadWatched, UnconfirmedPassedOn, Following
  <2>2. held \subseteq {_pending.index}
    BY <1>3, <2>1 DEF Begins, Inv, CandidatesAccountedFor, DownloadAlive
  <2>3. held' \subseteq {current_index} /\ _pending' = NoPending /\ held' \subseteq Index
    BY <1>3, <2>2 DEF Begins, Takes, DiscardsPending, Inv, TypeOK
  <2>4. target' = None \/ (target' \in Index /\ target' > current_index)
    BY <1>3, <2>1, WatchedIsLater DEF Begins
  <2>5. (watcher' = "timing" /\ target' # None) \/ watcher' = "none"
    BY <1>3 DEF Begins
  <2>6. TypeOK'
    <3>1. NoPending \in [index : Index \cup {None}, identity : 0..MaxChanges + 1]
      BY QueueAssumption DEF NoPending
    <3>2. QED
      BY <1>3, <2>3, <2>4, <2>5, <3>1
      DEF Begins, Inv, TypeOK, Places, ChildStates, WatcherStates, configVars, downloadVars
  <2>7. WatcherInTime' /\ DownloadWatched' /\ TargetAhead' /\ UnconfirmedPassedOn' /\ StopSeen'
    BY <1>3, <2>1, <2>4, <2>5
    DEF Begins, WatcherInTime, DownloadWatched, DownloadAlive, TargetAhead, UnconfirmedPassedOn,
        StopSeen, downloadVars
  <2>8. EditionsCounted' /\ CandidatesAccountedFor'
    BY <1>3, <2>3 DEF Begins, Inv, EditionsCounted, CandidatesAccountedFor, configVars
  <2>9. QED
    BY <2>6, <2>7, <2>8 DEF Inv
<1>4. CASE ChildAwaited
  <2> DEFINE error == IF stop THEN "cancelled" ELSE "none"
             remaining == held \ {current_index}
  <2>1. /\ remaining \in SUBSET Index
        /\ \A i \in remaining : i = _pending.index \/ (i = target /\ download = "fetching")
    BY <1>4 DEF ChildAwaited, Inv, TypeOK, CandidatesAccountedFor
  <2>2. UNCHANGED <<configVars, stop, childVars, watcher, target, download, download_cancel, baseline>>
    BY <1>4 DEF ChildAwaited
  <2>3. CASE watcher = "none"
    <3>1. Leaves(error, remaining) /\ UNCHANGED <<has_download, watcher_cancel>>
      BY <1>4, <2>3 DEF ChildAwaited, MustWait
    <3>2. ~DownloadAlive /\ download # "unconfirmed"
      BY <1>4, <2>3 DEF ChildAwaited, Inv, DownloadWatched, UnconfirmedPassedOn, Following
    <3>3. remaining \subseteq {_pending.index}
      BY <2>1, <3>2 DEF DownloadAlive
    <3>4. /\ error \in Errors /\ (error = "none" => ~stop) /\ watcher' = "none"
          /\ watcher_cancel' \in BOOLEAN /\ has_download' \in BOOLEAN
      BY <2>2, <2>3, <3>1 DEF Errors, Inv, TypeOK
    <3> HIDE DEF error, remaining
    <3>5. QED
      BY <2>1, <2>2, <3>1, <3>2, <3>3, <3>4, LeavesInv
  <2>4. CASE watcher # "none"
    <3>1. /\ at' \in {"converging", "waiting"} /\ watcher_cancel' \in BOOLEAN /\ raising' \in Errors
          /\ held' = remaining \/ (held' = held /\ at' = "converging" /\ raising' # "none")
          /\ UNCHANGED <<current_index, has_download, _pending>>
      BY <1>4, <2>4 DEF ChildAwaited, MustWait, CancelsWatcher, WatcherDone, Inv, TypeOK, Errors
    <3>2. TypeOK'
      BY <2>1, <2>2, <3>1 DEF Inv, TypeOK, Places, configVars, childVars
    <3>3. WatcherInTime' /\ DownloadWatched' /\ TargetAhead' /\ UnconfirmedPassedOn' /\ StopSeen'
      BY <1>4, <2>2, <3>1
      DEF ChildAwaited, Inv, WatcherInTime, DownloadWatched, DownloadAlive, TargetAhead,
          UnconfirmedPassedOn, StopSeen
    <3>4. EditionsCounted' /\ CandidatesAccountedFor'
      BY <2>1, <2>2, <3>1 DEF Inv, EditionsCounted, CandidatesAccountedFor, configVars
    <3>5. QED
      BY <3>2, <3>3, <3>4 DEF Inv
  <2>5. QED
    BY <2>3, <2>4
<1>5. CASE WaitInterrupted
  <2>1. TypeOK'
    BY <1>5 DEF WaitInterrupted, CancelsWatcher, WatcherDone, Inv, TypeOK, Places, Errors, configVars,
                childVars, downloadVars, candidateVars
  <2>2. QED
    BY <1>5, <2>1
    DEF WaitInterrupted, Inv, WatcherInTime, DownloadWatched, DownloadAlive, TargetAhead,
        UnconfirmedPassedOn, StopSeen, EditionsCounted, CandidatesAccountedFor, configVars,
        downloadVars, candidateVars
<1>6. CASE Finishes
  <2>1. ~DownloadAlive
    BY <1>6 DEF Finishes, WatcherDone, Inv, DownloadWatched, Following
  <2>2. held \ {current_index} \subseteq {_pending.index}
    BY <1>6, <2>1 DEF Finishes, Inv, CandidatesAccountedFor, DownloadAlive
  <2>3. /\ ErrorOfFinish \in Errors
        /\ ErrorOfFinish = "none" => ~stop /\ watcher # "unconfirmed"
    BY DEF ErrorOfFinish, Errors, Inv, TypeOK
  <2>4. ErrorOfFinish = "none" => ~stop /\ download # "unconfirmed"
    BY <1>6, <2>3 DEF Finishes, WatcherDone, Inv, UnconfirmedPassedOn, Following
  <2>5. /\ held \ {current_index} \in SUBSET Index /\ Leaves(ErrorOfFinish, held \ {current_index})
        /\ watcher' = "none"
        /\ watcher_cancel' \in BOOLEAN /\ has_download' \in BOOLEAN
        /\ UNCHANGED <<configVars, stop, childVars, target, download, download_cancel, baseline>>
    BY <1>6 DEF Finishes, Inv, TypeOK
  <2>6. QED
    BY <2>1, <2>2, <2>3, <2>4, <2>5, LeavesInv
<1>7. QED
  BY <1>1, <1>2, <1>3, <1>4, <1>5, <1>6 DEF OwnerStep

\* The child, its time, the user and the configuration.
LEMMA OthersInv ==
  ASSUME Inv, \/ Completes \/ GracePasses \/ SetsStatus \/ ChildEnds \/ Stops
              \/ \E i \in Index : Changes(i)
  PROVE  Inv'
<1>1. CASE Completes \/ GracePasses \/ SetsStatus \/ ChildEnds
  <2>1. /\ UNCHANGED <<configVars, ownerVars, watcherVars, downloadVars, candidateVars>>
        /\ child' \in ChildStates /\ status' \in {"waiting", "running", "completed", "failed", "skipped"}
        /\ first_task_completed' \in BOOLEAN /\ grace_over' \in BOOLEAN
    BY <1>1 DEF Completes, GracePasses, SetsStatus, ChildEnds, ChildStates, Inv, TypeOK
  <2>2. TypeOK'
    BY <2>1 DEF Inv, TypeOK, configVars, ownerVars, watcherVars, downloadVars, candidateVars
  <2>3. QED
    BY <2>1, <2>2
    DEF Inv, WatcherInTime, DownloadWatched, DownloadAlive, TargetAhead, UnconfirmedPassedOn, StopSeen,
        EditionsCounted, CandidatesAccountedFor, configVars, ownerVars, watcherVars, downloadVars,
        candidateVars
<1>2. CASE Stops
  <2>1. TypeOK'
    BY <1>2 DEF Stops, Inv, TypeOK, configVars, childVars, watcherVars, downloadVars, candidateVars
  <2>2. QED
    BY <1>2, <2>1
    DEF Stops, Inv, WatcherInTime, DownloadWatched, DownloadAlive, TargetAhead, UnconfirmedPassedOn,
        StopSeen, EditionsCounted, CandidatesAccountedFor, configVars, childVars, watcherVars,
        downloadVars, candidateVars
<1>3. ASSUME NEW i \in Index, Changes(i) PROVE Inv'
  <2>1. /\ changes' = changes + 1 /\ changes' \in 0..MaxChanges
        /\ eligible' \in [Index -> BOOLEAN]
        /\ \A j \in Index : edition'[j] \in Nat /\ edition'[j] <= edition[j] + 1
        /\ edition' \in [Index -> Nat]
    <3>1. changes' = changes + 1 /\ changes' \in 0..MaxChanges
      BY <1>3, QueueAssumption DEF Changes, Inv, TypeOK
    <3>2. CASE eligible' = [eligible EXCEPT ![i] = ~eligible[i]] /\ UNCHANGED edition
      BY <3>1, <3>2, QueueAssumption DEF Inv, TypeOK
    <3>3. CASE edition' = [edition EXCEPT ![i] = edition[i] + 1] /\ UNCHANGED eligible
      BY <3>1, <3>3, QueueAssumption DEF Inv, TypeOK
    <3>4. QED
      BY <1>3, <3>2, <3>3 DEF Changes
  <2>2. EditionsCounted' /\ edition' \in [Index -> 0..MaxChanges]
    <3>1. ASSUME NEW j \in Index PROVE edition'[j] <= changes' /\ edition'[j] \in 0..MaxChanges
      <4>1. edition[j] <= changes /\ edition[j] \in Nat /\ changes \in Nat /\ MaxChanges \in Nat
        BY QueueAssumption DEF Inv, TypeOK, EditionsCounted
      <4>2. QED
        BY <2>1, <4>1
    <3>2. QED
      BY <2>1, <3>1 DEF EditionsCounted
  <2>3. TypeOK'
    BY <1>3, <2>1, <2>2
    DEF Changes, Inv, TypeOK, ownerVars, childVars, watcherVars, downloadVars, candidateVars
  <2>4. QED
    BY <1>3, <2>2, <2>3
    DEF Changes, Inv, WatcherInTime, DownloadWatched, DownloadAlive, TargetAhead, UnconfirmedPassedOn,
        StopSeen, CandidatesAccountedFor, ownerVars, watcherVars, downloadVars, candidateVars
<1>4. QED
  BY <1>1, <1>2, <1>3

LEMMA WatcherInv ==
  ASSUME Inv, WatcherStep
  PROVE  Inv'
<1> USE DEF Inv, WatcherInTime, DownloadWatched, DownloadAlive, TargetAhead, UnconfirmedPassedOn, StopSeen,
            Following, WatcherOnly, configVars, ownerVars, childVars, candidateVars, downloadVars
<1>1. /\ EditionsCounted' /\ UNCHANGED <<configVars, ownerVars, childVars, candidateVars, target, watcher_cancel>>
      /\ watcher \notin {"none"} /\ watcher' \notin {"none"} /\ UNCHANGED baseline
  BY DEF WatcherStep, TimerEnds, TimerFires, Withdraws, WatcherEnds, EditionsCounted
<1>2. TypeOK'
  <2>1. /\ watcher' \in WatcherStates /\ download' \in DownloadStates
        /\ download_cancel' \in BOOLEAN /\ has_download' \in BOOLEAN
    <3>1. CASE TimerEnds
      BY <3>1 DEF TimerEnds, TypeOK, WatcherStates
    <3>2. CASE TimerFires
      BY <3>2 DEF TimerFires, TypeOK, WatcherStates, DownloadStates
    <3>3. CASE Withdraws
      BY <3>3 DEF Withdraws, TypeOK, WatcherStates
    <3>4. CASE WatcherEnds
      BY <3>4 DEF WatcherEnds, TypeOK, WatcherStates
    <3>5. QED
      BY <3>1, <3>2, <3>3, <3>4 DEF WatcherStep
  <2>2. QED
    BY <1>1, <2>1 DEF TypeOK
<1>3. WatcherInTime' /\ TargetAhead' /\ StopSeen'
  BY <1>1
<1>4. DownloadWatched' /\ UnconfirmedPassedOn'
  BY <1>1 DEF WatcherStep, TimerEnds, TimerFires, Withdraws, WatcherEnds
<1>5. download = "fetching" <=> download' = "fetching"
  BY DEF WatcherStep, TimerEnds, TimerFires, Withdraws, WatcherEnds
<1>6. CandidatesAccountedFor'
  BY <1>1, <1>5 DEF CandidatesAccountedFor
<1>7. QED
  BY <1>1, <1>2, <1>3, <1>4, <1>6

\* A download writes under its watcher, and what it leaves is pending or discarded.
LEMMA DownloadInv ==
  ASSUME Inv, DownloadStep
  PROVE  Inv'
<1>1. /\ UNCHANGED <<configVars, ownerVars, childVars, watcherVars, download_cancel, has_download>>
      /\ download \in {"created", "fetching"} /\ watcher \in Following
      /\ target \in Index /\ target > current_index /\ at # "ended"
  BY DEF DownloadStep, NothingFetched, FetchBegins, FetchRaises, Fetched, DownloadOnly, Inv,
         DownloadWatched, DownloadAlive, Following, TargetAhead, WatcherInTime
<1>2. /\ Identity(target) \in 0..MaxChanges + 1 /\ baseline \in 0..MaxChanges + 1
  BY <1>1, IdentityType DEF Inv, TypeOK
<1>3. TypeOK'
  <2>1. /\ download' \in DownloadStates /\ baseline' \in 0..MaxChanges + 1 /\ held' \subseteq Index
    BY <1>1, <1>2 DEF DownloadStep, NothingFetched, FetchBegins, FetchRaises, Fetched, DownloadStates,
                      Inv, TypeOK, candidateVars
  <2>2. _pending' \in [index : Index \cup {None}, identity : 0..MaxChanges + 1]
    BY <1>1, <1>2 DEF DownloadStep, NothingFetched, FetchBegins, FetchRaises, Fetched, Inv, TypeOK,
                      candidateVars
  <2>3. QED
    BY <1>1, <2>1, <2>2 DEF Inv, TypeOK, configVars, ownerVars, childVars, watcherVars
<1>4. WatcherInTime' /\ TargetAhead' /\ StopSeen' /\ EditionsCounted' /\ DownloadWatched' /\ UnconfirmedPassedOn'
  BY <1>1 DEF Inv, WatcherInTime, TargetAhead, StopSeen, EditionsCounted, DownloadWatched,
              UnconfirmedPassedOn, Following, configVars, ownerVars, childVars, watcherVars
<1>5. CandidatesAccountedFor'
  <2>1. CASE NothingFetched
    BY <1>1, <2>1 DEF NothingFetched, Inv, CandidatesAccountedFor, ownerVars, watcherVars, candidateVars
  <2>2. CASE FetchBegins
    BY <1>1, <2>2 DEF FetchBegins, Inv, CandidatesAccountedFor, ownerVars, watcherVars
  <2>3. CASE FetchRaises
    BY <1>1, <2>3 DEF FetchRaises, Inv, CandidatesAccountedFor, ownerVars, watcherVars
  <2>4. CASE Fetched
    BY <1>1, <2>4 DEF Fetched, Inv, CandidatesAccountedFor, ownerVars, watcherVars
  <2>5. QED
    BY <2>1, <2>2, <2>3, <2>4 DEF DownloadStep
<1>6. QED
  BY <1>3, <1>4, <1>5 DEF Inv

-----------------------------------------------------------------------------
(* The theorems.                                                           *)

LEMMA StepInv == Inv /\ [Next]_vars => Inv'
<1> SUFFICES ASSUME Inv, [Next]_vars PROVE Inv'
  OBVIOUS
<1>1. CASE OwnerStep
  BY <1>1, OwnerInv
<1>2. CASE WatcherStep
  BY <1>2, WatcherInv
<1>3. CASE DownloadStep
  BY <1>3, DownloadInv
<1>4. CASE \/ Completes \/ GracePasses \/ SetsStatus \/ ChildEnds \/ Stops
           \/ \E i \in Index : Changes(i)
  BY <1>4, OthersInv
<1>5. CASE UNCHANGED vars
  <2>1. TypeOK'
    BY <1>5 DEF vars, Inv, TypeOK, configVars, ownerVars, childVars, watcherVars, downloadVars, candidateVars
  <2>2. QED
    BY <1>5, <2>1
    DEF vars, Inv, WatcherInTime, DownloadWatched, DownloadAlive, TargetAhead, UnconfirmedPassedOn, StopSeen,
        EditionsCounted, CandidatesAccountedFor, configVars, ownerVars, childVars, watcherVars,
        downloadVars, candidateVars
<1>6. QED
  BY <1>1, <1>2, <1>3, <1>4, <1>5 DEF Next, AtRest

LEMMA InvariantHolds == Spec => []Inv
  BY InitInv, StepInv, PTL DEF Spec

\* The owner, the watcher, the download and the candidate keep their types; a candidate
\* and a fetch are always for an entry of the queue.
THEOREM TypeCorrect == Spec => []TypeOK
<1>1. Inv => TypeOK
  BY DEF Inv
<1>2. QED
  BY <1>1, InvariantHolds, PTL

\* For any queue: no download is under way between two scripts or after the run, and one
\* that is under way was begun under the current script and is for a later entry.
THEOREM DownloadsAreAhead == Spec => []DownloadsStayAhead
<1>1. Inv => DownloadsStayAhead
  BY DEF Inv, TypeOK, DownloadsStayAhead, DownloadWatched, WatcherInTime, TargetAhead, Following, WatcherDone,
         Places
<1>2. QED
  BY <1>1, InvariantHolds, PTL

\* However the run goes and ends, prefetched files have one who answers for them, and
\* none are left when it is over.
THEOREM CandidatesAreAccountedFor == Spec => []CandidatesAccountedFor
<1>1. Inv => CandidatesAccountedFor
  BY DEF Inv
<1>2. QED
  BY <1>1, InvariantHolds, PTL

\* No script is begun after a stop or after a download whose writer may still be there.
THEOREM HaltsAreFinal == Spec => HaltIsFinal
<1>1. Inv /\ [Next]_vars =>
        [stop \/ download = "unconfirmed" => ~(at = "head" /\ at' = "running")]_vars
  <2>1. Inv /\ at = "head" => ~stop /\ download # "unconfirmed"
    BY DEF Inv, StopSeen, UnconfirmedPassedOn, WatcherInTime, Following
  <2>2. QED
    BY <2>1
<1>2. QED
  BY <1>1, InvariantHolds, PTL DEF Spec, HaltIsFinal
=============================================================================
