-------------------------- MODULE NativeConfigSnapshot --------------------------
(***************************************************************************)
(* The native configuration directory of one general script (folder mode), *)
(* lent to the accounts of MAS and given back: the file operations of      *)
(* app/utils/common/io.py and the manager that calls them,                 *)
(* app/task/general/manager.py.  Every step is one file operation; the     *)
(* process may die between any two, and the user may edit the directory    *)
(* while no task runs.                                                     *)
(***************************************************************************)
EXTENDS Naturals, FiniteSets

CONSTANTS
  UserContents,    \* what the user may make of the directory, Absent if he may delete it
  MasContents,     \* the configurations MAS keeps for its accounts: it saves the
                   \* directory as one of them (ScriptConfig.final_task, the write-back
                   \* of AutoProxy), so they may be the user's or the script's too
  ScriptContents,  \* what the script itself may write while it runs
  Absent,          \* no such directory
  Torn,            \* a directory that is half deleted or half copied
  None,
  Faults,          \* what may fail: "swap", "copy" of the directory into the snapshot
                   \* at the beginning of a task, "recopy" after an account, "mark" of
                   \* what was injected, "recover", "remove" of what MAS has put where
                   \* the user has nothing
  MaxAccounts, MaxFaults, MaxCrashes   \* bounds

Content == (UserContents \cup MasContents \cup ScriptContents) \ {Absent}
Dir == Content \cup {Absent, Torn}
Markers == [baseline : Content \cup {Torn}, injected : Content \cup {None}, version : {"old", "new"}]

ASSUME ContentAssumption == Absent # Torn /\ Torn \notin UserContents \cup MasContents \cup ScriptContents
ASSUME WrittenAssumption == Absent \notin MasContents \cup ScriptContents
ASSUME NoneAssumption == None \notin Dir \cup Markers
ASSUME FaultAssumption == Faults \subseteq {"swap", "copy", "recopy", "mark", "recover", "remove"}
ASSUME BoundAssumption == MaxAccounts \in Nat \ {0} /\ MaxFaults \in Nat /\ MaxCrashes \in Nat

VARIABLES
  live, staging, backup,  \* the directory, its .automas-new and its .automas-old
  snap, ready,            \* the snapshot and its ready marker
  kept,                   \* snapshots of an older version, renamed aside
  phase,                  \* what the manager is doing, see Phases
  step,                   \* the file operation it is at
  source,                 \* the content that is being swapped in
  external_config_exists, external_config_snapshot_ready,
  viewing,                \* the task only shows a backup (view_only)
  native,                 \* the current account uses the native configuration
  accounts,               \* accounts started by this task
  own,                    \* history: the user's configuration, None when it was given up
  mishap,                 \* history: what has cost the user his configuration, see Mishaps
  faults, crashes

disk == <<live, staging, backup, snap, ready, kept>>
memory == <<source, external_config_exists, external_config_snapshot_ready,
            viewing, native, accounts>>
vars == <<disk, phase, step, memory, own, mishap, faults, crashes>>

Preparing == {"recovering", "snapshotting"}
Ending    == {"crashing", "finishing", "crashing_again"}
Phases    == {"off", "idle", "accounts", "restoring", "injecting", "running",
              "resnapshotting"} \cup Preparing \cup Ending
SwapSteps  == {"swap", "copying", "away", "in", "tidy"}
ClearSteps == {"clear", "deleting", "unlink"}
Steps == {"none", "begin", "removing", "aside", "copy", "copied", "commit", "show", "record"}
           \cup SwapSteps \cup ClearSteps

\* The two steps that put something else where the user's configuration is: "unmarked", a
\* snapshot without its marker is given back, and "mistaken", recovery takes the user's
\* configuration for what MAS had put there.
Mishaps == {"none", "unmarked", "mistaken"}

Marker(baseline, injected, version) ==
  [baseline |-> baseline, injected |-> injected, version |-> version]

\* A first start, or the leftovers of a run of an older version that died.
Init ==
  /\ own \in UserContents \cup {Absent}
  /\ \/ live = own /\ snap = Absent /\ ready = None
     \/ /\ own # Absent
        /\ live \in MasContents \cup {own} /\ snap = own
        /\ ready \in {Marker(own, i, "old") : i \in {live, None}}
  /\ staging = Absent /\ backup = Absent /\ kept = {}
  /\ phase = "off" /\ step = "none" /\ source = Absent
  /\ external_config_exists = FALSE /\ external_config_snapshot_ready = FALSE
  /\ viewing = FALSE /\ native = FALSE /\ accounts = 0
  /\ mishap = "none" /\ faults = 0 /\ crashes = 0

-----------------------------------------------------------------------------
(* The program and its surroundings.                                       *)

Start ==
  /\ phase = "off" /\ phase' = "idle"
  /\ UNCHANGED <<disk, step, memory, own, mishap, faults, crashes>>

\* The user edits, replaces or deletes the directory while no task runs.
UserEdits ==
  /\ phase \in {"off", "idle"}
  /\ live' \in UserContents \ {live}
  /\ own' = live' /\ mishap' = "none"
  /\ UNCHANGED <<staging, backup, snap, ready, kept, phase, step, memory, faults, crashes>>

\* The process dies: what is in memory is gone.
Crash ==
  /\ phase \notin {"off", "idle"} /\ crashes < MaxCrashes
  /\ crashes' = crashes + 1
  /\ phase' = "off" /\ step' = "none" /\ source' = Absent
  /\ external_config_exists' = FALSE /\ external_config_snapshot_ready' = FALSE
  /\ viewing' = FALSE /\ native' = FALSE /\ accounts' = 0
  /\ UNCHANGED <<disk, own, mishap, faults>>

-----------------------------------------------------------------------------
(* Where the manager goes when an operation has returned or raised.        *)

GoTo(p, s) == phase' = p /\ step' = s

\* An exception of main_task leads to on_crash and then final_task; one of final_task
\* to on_crash again, which swallows its own.  An account's own errors end the account.
RaisedTo ==
  CASE phase = "injecting" -> "accounts"
    [] phase \in Preparing \cup {"restoring", "resnapshotting"} -> "crashing"
    [] phase = "crashing" -> "finishing"
    [] phase = "finishing" -> "crashing_again"
    [] phase = "crashing_again" -> "idle"

Raise == GoTo(RaisedTo, IF RaisedTo \in Ending THEN "begin" ELSE "none")

AfterRestore ==
  \/ phase # "restoring" /\ GoTo(phase, "clear")
  \/ phase = "restoring" /\ viewing /\ GoTo(phase, "show")
  \/ phase = "restoring" /\ ~viewing /\ GoTo("running", "none")

AfterSwap ==
  CASE phase = "recovering" -> GoTo(phase, "clear")
    [] phase = "injecting" -> GoTo(phase, "record")
    [] OTHER -> AfterRestore

EndedTo == IF phase = "crashing" THEN GoTo("finishing", "begin") ELSE GoTo("idle", "none")

-----------------------------------------------------------------------------
(* swap_in_dir(source, live).                                              *)

SwapCopies ==
  /\ step = "swap"
  /\ staging' = Torn /\ backup' = Absent
  /\ GoTo(phase, "copying")
  /\ UNCHANGED <<live, snap, ready, kept, memory, own, mishap, faults, crashes>>

SwapCopied ==
  /\ step = "copying"
  /\ staging' = source
  /\ GoTo(phase, "away")
  /\ UNCHANGED <<live, backup, snap, ready, kept, memory, own, mishap, faults, crashes>>

\* Mutant: the directory is deleted instead, which takes more than one step.
DeletesInPlace ==
  /\ step = "away"
  /\ live' = IF live \in {Absent, Torn} THEN Absent ELSE Torn
  /\ GoTo(phase, IF live \in {Absent, Torn} THEN "in" ELSE "away")
  /\ UNCHANGED <<staging, backup, snap, ready, kept, memory, own, mishap, faults, crashes>>

\* The directory is renamed, so that it is whole wherever it is.
MovesAway ==
  /\ step = "away"
  /\ backup' = live /\ live' = Absent
  /\ GoTo(phase, "in")
  /\ UNCHANGED <<staging, snap, ready, kept, memory, own, mishap, faults, crashes>>

SwapsIn ==
  /\ step = "in"
  /\ live' = staging /\ staging' = Absent
  /\ GoTo(phase, "tidy")
  /\ UNCHANGED <<backup, snap, ready, kept, memory, own, mishap, faults, crashes>>

SwapTidies ==
  /\ step = "tidy"
  /\ staging' = Absent /\ backup' = Absent
  /\ AfterSwap
  /\ UNCHANGED <<live, snap, ready, kept, memory, own, mishap, faults, crashes>>

MayFail(what) == what \in Faults /\ faults < MaxFaults /\ faults' = faults + 1

\* A file cannot be read or copied, or a process still holds one of the directory.
AwayFails ==
  /\ step = "copying" \/ (step = "away" /\ live # Absent)
  /\ MayFail("swap")
  /\ Raise
  /\ UNCHANGED <<disk, memory, own, mishap, crashes>>

\* The new directory is not accepted; the old one is renamed back if that works.
SwapInFails ==
  /\ step = "in" /\ MayFail("swap")
  /\ live' \in {backup, Absent}
  /\ staging' = Absent /\ backup' = Absent
  /\ Raise
  /\ UNCHANGED <<snap, ready, kept, memory, own, mishap, crashes>>

-----------------------------------------------------------------------------
(* clear_native_config_snapshot.                                           *)

ClearStarts ==
  /\ step = "clear"
  /\ IF phase \in Ending /\ ~external_config_snapshot_ready
     THEN EndedTo /\ UNCHANGED snap
     ELSE /\ snap' = IF snap = Absent THEN Absent ELSE Torn
          /\ GoTo(phase, "deleting")
  /\ UNCHANGED <<live, staging, backup, ready, kept, memory, own, mishap, faults, crashes>>

\* Simplified: force_rmtree may leave a file it cannot delete, which the copy that follows
\* merges with what it copies (dirs_exist_ok), and an error of the unlink is suppressed.
Deleted ==
  /\ step = "deleting"
  /\ snap' = Absent
  /\ GoTo(phase, "unlink")
  /\ UNCHANGED <<live, staging, backup, ready, kept, memory, own, mishap, faults, crashes>>

Unlinked ==
  /\ step = "unlink"
  /\ ready' = None
  /\ CASE phase = "recovering" -> GoTo("snapshotting", "begin")
       [] phase \in {"snapshotting", "resnapshotting"} -> GoTo(phase, "copy")
       [] OTHER -> EndedTo
  /\ external_config_snapshot_ready' =
       (external_config_snapshot_ready /\ phase \notin Ending)
  /\ UNCHANGED <<live, staging, backup, snap, kept, source, external_config_exists,
                 viewing, native, accounts, own, mishap, faults, crashes>>

-----------------------------------------------------------------------------
(* recover_native_config, at the beginning of a task.                      *)

Readable == snap # Absent /\ ready # None

\* Of a directory that is there, by the fingerprints in the marker.
VerdictOfFound ==
  IF live = ready.injected THEN "restored"
  ELSE IF live = ready.baseline THEN "intact" ELSE "skipped"

\* Mutant: a directory that is gone is taken for one that the user has deleted.
VerdictGoneIsDeleted ==
  CASE ~Readable -> "cleared"
    [] Readable /\ ready.version = "old" -> "legacy"
    [] Readable /\ ready.version = "new" ->
         IF live = Absent THEN "cleared" ELSE VerdictOfFound

Verdict ==
  CASE ~Readable -> "cleared"
    [] Readable /\ ready.version = "old" -> "legacy"
    [] Readable /\ ready.version = "new" /\ live = Absent -> "restored"
    [] Readable /\ ready.version = "new" /\ live # Absent -> VerdictOfFound

\* What the user has there is what MAS had put there, too, and not what is in the snapshot.
Mistaken == Verdict = "restored" /\ live = own /\ own # Absent /\ snap # own

\* A new task, and a new manager.
TaskBegins ==
  /\ phase = "idle"
  /\ staging' = Absent /\ backup' = Absent
  /\ viewing' \in BOOLEAN
  /\ external_config_exists' = FALSE /\ external_config_snapshot_ready' = FALSE
  /\ native' = FALSE /\ accounts' = 0
  /\ UNCHANGED <<live, snap, ready, kept, crashes>>

\* Unless it restores, the program takes what is there for the user's: a configuration
\* that is only in the snapshot is given up, or kept aside.
Prepare ==
  /\ TaskBegins
  /\ phase' = "recovering"
  /\ step' = CASE Verdict = "restored" -> "swap"
               [] Verdict = "legacy" -> "aside"
               [] OTHER -> "clear"
  /\ source' = IF Verdict = "restored" THEN snap ELSE Absent
  /\ own' = IF Verdict # "restored" /\ live # own THEN None ELSE own
  /\ mishap' = IF Mistaken THEN "mistaken" ELSE IF live = own THEN "none" ELSE mishap
  /\ UNCHANGED faults

\* A file of the directory cannot be read for its fingerprint.
PrepareFails ==
  /\ TaskBegins
  /\ Readable /\ ready.version = "new" /\ live # Absent /\ MayFail("recover")
  /\ GoTo("crashing", "begin") /\ source' = Absent
  /\ UNCHANGED <<own, mishap>>

\* _preserve_legacy_snapshot: the directory first, then its marker.
SetsAside ==
  /\ step = "aside"
  /\ IF snap # Absent
     THEN /\ kept' = kept \cup {snap} /\ snap' = Absent
          /\ UNCHANGED <<ready, phase, step>>
     ELSE /\ ready' = None /\ UNCHANGED <<snap, kept>>
          /\ GoTo("snapshotting", "begin")
  /\ UNCHANGED <<live, staging, backup, memory, own, mishap, faults, crashes>>

SetsAsideFails ==
  /\ step = "aside" /\ snap # Absent /\ MayFail("recover")
  /\ Raise
  /\ UNCHANGED <<disk, memory, own, mishap, crashes>>

-----------------------------------------------------------------------------
(* _snapshot_external_config, commit_native_config_snapshot.               *)

SnapshotBegins ==
  /\ phase \in {"snapshotting", "resnapshotting"} /\ step = "begin"
  /\ external_config_exists' = (live # Absent)
  /\ IF live # Absent
     THEN GoTo(phase, "clear") /\ UNCHANGED external_config_snapshot_ready
     ELSE GoTo("accounts", "none") /\ external_config_snapshot_ready' = TRUE
  /\ UNCHANGED <<disk, source, viewing, native, accounts, own, mishap, faults, crashes>>

SnapshotCopies ==
  /\ step = "copy"
  /\ snap' = Torn
  /\ GoTo(phase, "copied")
  /\ UNCHANGED <<live, staging, backup, ready, kept, memory, own, mishap, faults, crashes>>

SnapshotCopied ==
  /\ step = "copied"
  /\ snap' = live
  /\ GoTo(phase, "commit")
  /\ UNCHANGED <<live, staging, backup, ready, kept, memory, own, mishap, faults, crashes>>

\* The marker is written when the copy is complete.
SnapshotCommitted ==
  /\ step = "commit"
  /\ ready' = Marker(snap, None, "new")
  /\ external_config_snapshot_ready' = TRUE
  /\ GoTo("accounts", "none")
  /\ UNCHANGED <<live, staging, backup, snap, kept, source, external_config_exists,
                 viewing, native, accounts, own, mishap, faults, crashes>>

\* A file of the directory cannot be read, or the marker not be written.
SnapshotFails ==
  /\ step \in {"copied", "commit"} /\ MayFail(IF phase = "snapshotting" THEN "copy" ELSE "recopy")
  /\ Raise
  /\ UNCHANGED <<disk, memory, own, mishap, crashes>>

-----------------------------------------------------------------------------
(* The accounts of main_task.                                              *)

\* A task that only shows a backup has one account.
MoreAccounts == accounts < (IF viewing THEN 1 ELSE MaxAccounts)

NativeAccount ==
  /\ phase = "accounts" /\ MoreAccounts
  /\ accounts' = accounts + 1 /\ native' = TRUE
  /\ GoTo("restoring", "begin")
  /\ UNCHANGED <<disk, source, external_config_exists, external_config_snapshot_ready,
                 viewing, own, mishap, faults, crashes>>

\* An account of MAS has its configuration swapped in if there is one.
MasAccount ==
  /\ phase = "accounts" /\ MoreAccounts
  /\ accounts' = accounts + 1 /\ native' = FALSE
  /\ \/ source' \in MasContents /\ GoTo("injecting", "swap")
     \/ UNCHANGED source /\ GoTo("running", "none")
  /\ UNCHANGED <<disk, external_config_exists, external_config_snapshot_ready,
                 viewing, own, mishap, faults, crashes>>

\* set_general of a session that shows a backup: also for a native account.
ShowsBackup ==
  /\ step = "show"
  /\ \/ source' \in MasContents /\ GoTo("injecting", "swap")
     \/ UNCHANGED source /\ GoTo("running", "none")
  /\ UNCHANGED <<disk, external_config_exists, external_config_snapshot_ready,
                 viewing, native, accounts, own, mishap, faults, crashes>>

\* Mutant: the fingerprint is recorded although nothing was snapshotted.
RecordedAnyway == ready' = [baseline |-> snap, injected |-> live, version |-> "new"]

\* mark_native_config_injected.
Recorded == ready' = IF Readable THEN [ready EXCEPT !.injected = live] ELSE ready

MarksInjected ==
  /\ step = "record"
  /\ Recorded
  /\ GoTo("running", "none")
  /\ UNCHANGED <<live, staging, backup, snap, kept, memory, own, mishap, faults, crashes>>

MarkFails ==
  /\ step = "record" /\ MayFail("mark")
  /\ Raise
  /\ UNCHANGED <<disk, memory, own, mishap, crashes>>

\* On an account that uses the native configuration the script works for its user.
LentOut == ~native \/ viewing

ScriptWrites ==
  /\ phase = "running"
  /\ live' \in ScriptContents \ {live}
  /\ IF LentOut THEN UNCHANGED <<own, mishap>> ELSE own' = live' /\ mishap' = "none"
  /\ UNCHANGED <<staging, backup, snap, ready, kept, phase, step, memory, faults, crashes>>

\* Mutant: a new snapshot also after a session that showed a backup.
TakesNewSnapshotAlways == native

TakesNewSnapshot == native /\ ~viewing

ScriptEnds ==
  /\ phase = "running"
  /\ IF TakesNewSnapshot THEN GoTo("resnapshotting", "begin") ELSE GoTo("accounts", "none")
  /\ UNCHANGED <<disk, memory, own, mishap, faults, crashes>>

\* All accounts are through, or the task is stopped.
TaskEnds ==
  /\ phase = "accounts"
  /\ GoTo("finishing", "begin")
  /\ UNCHANGED <<disk, memory, own, mishap, faults, crashes>>

-----------------------------------------------------------------------------
(* _restore_external_config, before a native account and at the end.       *)

\* Whether the snapshot has its marker is not asked.
RestoreBegins ==
  /\ phase \in Ending \cup {"restoring"} /\ step = "begin"
  /\ \/ ~external_config_snapshot_ready /\ AfterRestore /\ UNCHANGED <<live, source>>
     \/ /\ external_config_snapshot_ready /\ ~external_config_exists
        /\ IF live = Absent
           THEN AfterRestore /\ UNCHANGED <<live, source>>
           ELSE GoTo(phase, "removing") /\ live' = Torn /\ UNCHANGED source
     \/ /\ external_config_snapshot_ready /\ external_config_exists
        /\ IF snap = Absent
           THEN Raise /\ UNCHANGED <<live, source>>
           ELSE GoTo(phase, "swap") /\ source' = snap /\ UNCHANGED live
  /\ mishap' = IF external_config_snapshot_ready /\ external_config_exists
                  /\ snap # Absent /\ ready = None
               THEN "unmarked" ELSE mishap
  /\ UNCHANGED <<staging, backup, snap, ready, kept, external_config_exists,
                 external_config_snapshot_ready, viewing, native, accounts, own, faults, crashes>>

\* _remove_script_config: what a process still holds stays behind, and is ignored.
Removed ==
  /\ step = "removing"
  /\ \/ live' = Absent /\ UNCHANGED faults
     \/ UNCHANGED live /\ MayFail("remove")
  /\ AfterRestore
  /\ UNCHANGED <<staging, backup, snap, ready, kept, memory, own, mishap, crashes>>

-----------------------------------------------------------------------------
FileStep ==
  \/ SwapCopies \/ SwapCopied \/ MovesAway \/ SwapsIn \/ SwapTidies
  \/ ClearStarts \/ Deleted \/ Unlinked \/ SetsAside \/ Removed
  \/ SnapshotCopies \/ SnapshotCopied \/ SnapshotCommitted \/ MarksInjected

TaskStep ==
  \/ Prepare \/ SnapshotBegins \/ NativeAccount \/ MasAccount \/ ShowsBackup
  \/ ScriptWrites \/ ScriptEnds \/ TaskEnds \/ RestoreBegins

Next ==
  \/ Start \/ UserEdits \/ Crash
  \/ FileStep \/ TaskStep
  \/ AwayFails \/ SwapInFails \/ SnapshotFails \/ MarkFails \/ PrepareFails \/ SetsAsideFails

Spec == Init /\ [][Next]_vars

-----------------------------------------------------------------------------
(* Properties.                                                             *)

\* Types of all variables; a marker is never one of an absent directory.
TypeOK ==
  /\ live \in Dir /\ staging \in Dir /\ backup \in Dir /\ snap \in Dir /\ source \in Dir
  /\ ready \in {None} \cup Markers
  /\ kept \subseteq Content
  /\ phase \in Phases /\ step \in Steps
  /\ external_config_exists \in BOOLEAN /\ external_config_snapshot_ready \in BOOLEAN
  /\ viewing \in BOOLEAN /\ native \in BOOLEAN
  /\ accounts \in 0..MaxAccounts
  /\ own \in Content \cup {Absent, None} /\ mishap \in Mishaps
  /\ faults \in 0..MaxFaults /\ crashes \in 0..MaxCrashes

\* A configuration of the user is at every moment where the next start finds it:
\* in place, or in a snapshot whose marker says that it is complete.  The renamed
\* directory of a swap does not count, for recovery deletes it first.
OwnSurvives ==
  own \notin {Absent, None} => own = live \/ own \in kept \/ (Readable /\ snap = own)

\* Whatever fails, dies or is edited, only two steps cost the user his configuration:
\* giving back a snapshot that has no marker, and a recovery that takes the user's
\* configuration for the one MAS had put there, because the two are equal.
OwnLostOnlyByMishap == mishap = "none" => OwnSurvives

\* Whatever dies or fails, the directory is never half a configuration while the user
\* has one there (_restore_external_config: "原生目录要么原样要么完整就位, 不出现半删中间态";
\* swap_in_dir: it stays as it is or becomes the source as a whole).
OwnerNeverSeesTorn == own \notin {Absent, None} => live # Torn

\* Nothing but these two steps leaves the user with half a configuration.
TornOnlyByMishap == mishap = "none" => OwnerNeverSeesTorn

\* The program gives up a configuration that no mishap has cost in one case only: recovery
\* does not recognise what it finds in its place (recover_native_config, "skipped"; one of
\* an older version it keeps aside).
GivesUpOnlyForUnknown ==
  [][own \notin {Absent, None} /\ mishap = "none" /\ own' = None =>
       Verdict = "skipped" \/ (Verdict = "legacy" /\ snap = own)]_vars

\* Recovery keeps a configuration it does not recognise because the user has
\* edited it (recover_native_config: "用户在崩溃后手动改过原生配置").
SkippedMeansUserEdit == [][Prepare /\ Verdict = "skipped" => own \in {live, None}]_vars
=============================================================================
