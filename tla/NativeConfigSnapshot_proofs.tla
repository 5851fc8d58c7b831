----------------------- MODULE NativeConfigSnapshot_proofs -----------------------
(* That the user's own configuration survives, for any number of accounts, *)
(* failures and deaths of the process.                                     *)
EXTENDS NativeConfigSnapshot, TLAPS

-----------------------------------------------------------------------------
(* What holds whatever is written to the disk and whatever fails.          *)

Snapshotting == {"snapshotting", "resnapshotting"}
Quiet == {"off", "idle", "accounts", "running"}

\* Where each phase can be.
StepOfPhase ==
  /\ phase \in Quiet => step = "none"
  /\ phase = "recovering" => step \in SwapSteps \cup ClearSteps \cup {"aside"}
  /\ phase \in Snapshotting => step \in {"begin", "copy", "copied", "commit"} \cup ClearSteps
  /\ phase = "restoring" => step \in {"begin", "removing", "show"} \cup SwapSteps
  /\ phase = "injecting" => step \in SwapSteps \cup {"record"}
  /\ phase \in Ending => step \in {"begin", "removing"} \cup SwapSteps \cup ClearSteps

\* A swap brings in what it was asked to, and only MAS's configurations are injected.
SwapInv ==
  /\ (phase = "injecting" /\ step \in SwapSteps => source \in MasContents)
  /\ (step \in {"away", "in"} => staging = source)
  /\ (step = "tidy" => live = source)
  /\ (step = "record" => live \in MasContents)

\* A snapshot is only taken of a directory that is there, without a marker until it is
\* complete, and is what the marker says or what a deletion has left of that.
CopyInv ==
  /\ (phase \in Snapshotting /\ step # "begin" => live # Absent)
  /\ (step \in {"copy", "copied", "commit"} => ready = None)
  /\ (step = "commit" => snap = live)
  /\ (ready # None /\ ready.version = "new" => snap \in {ready.baseline, Torn, Absent})

\* The marker of an older version is gone when the accounts begin, or recovery has failed.
OldMarkerInv ==
  /\ (step = "aside" => snap # Torn)
  /\ (ready # None /\ ready.version = "old" =>
        /\ phase \in {"off", "idle", "recovering"} \cup Ending /\ snap # Torn
        /\ (phase \in Ending => ~external_config_snapshot_ready)
        /\ (phase = "recovering" => step = "aside" \/ (step \in ClearSteps /\ snap = Absent)))

\* When the manager has a snapshot to give back, also after a failure.
FlagInv ==
  /\ (phase \in {"recovering", "snapshotting"} => ~external_config_snapshot_ready)
  /\ (phase \in {"accounts", "injecting", "restoring", "running", "resnapshotting"} =>
        external_config_snapshot_ready)
  /\ (phase \in Ending /\ step \notin {"begin", "clear"} => external_config_snapshot_ready)

TypeInv == TypeOK /\ StepOfPhase /\ SwapInv /\ CopyInv /\ OldMarkerInv /\ FlagInv

-----------------------------------------------------------------------------
(* Where the user's configuration is.                                      *)

\* The user's configuration is x, unless there is none or it was given up.
Mine(x) == own \in {x, Absent, None}

InPlace == Mine(live)

NothingKept == snap = Absent /\ ready = None

\* The directory is lent out: what the snapshot has is the user's.
Lent ==
  IF external_config_exists
  THEN /\ snap # Absent /\ Mine(snap)
       /\ ready # None /\ ready.version = "new"
  ELSE NothingKept /\ Mine(Absent)

\* Recovery, and the snapshot that follows it.
RecoveryInv ==
  phase = "recovering" =>
    /\ (step \notin SwapSteps => InPlace)
    /\ (step \in SwapSteps => /\ Readable /\ ready.version = "new"
                              /\ source = snap /\ Mine(snap))
    /\ (step = "unlink" => snap = Absent)

SnapshotInv ==
  phase \in Snapshotting =>
    /\ InPlace
    /\ (step = "begin" /\ live = Absent => NothingKept)
    /\ (step # "begin" => external_config_exists)

\* Between the accounts, with the directory lent out, and while the script runs.
AccountInv ==
  /\ (phase \in {"accounts", "injecting", "restoring"} => Lent)
  /\ (phase = "running" =>
        /\ (LentOut => Lent)
        /\ (~LentOut => InPlace /\ (live = Absent => NothingKept)))
  /\ (phase = "injecting" => LentOut)
  /\ (step = "show" => viewing)
  /\ (step = "removing" => ~external_config_exists)

\* The copy after an account has failed: the manager counts on a snapshot without marker.
Unmarked == step = "begin" /\ external_config_exists /\ ready = None /\ InPlace

\* At the end, the manager gives back what it took.
EndingInv ==
  phase \in Ending /\ external_config_snapshot_ready =>
    IF step \in ClearSteps THEN InPlace ELSE Lent \/ Unmarked

\* A swap that gives back has the snapshot for its source.
GiveBackInv ==
  /\ (step \in SwapSteps /\ phase \in Ending \cup {"restoring"} =>
        external_config_exists /\ source = snap)
  /\ (step = "in" /\ own \notin {Absent, None} => backup # Torn)

\* Where the user's configuration is: in place, or in the snapshot.
OwnKept == own \notin {Absent, None, live} => Readable /\ snap = own

Inv ==
  /\ RecoveryInv /\ SnapshotInv /\ AccountInv /\ EndingInv
  /\ GiveBackInv /\ OwnKept /\ OwnerNeverSeesTorn

\* A mishap ends all of it, until the user or his script writes a new configuration or a
\* task finds the old one in place.
Safe == mishap = "none" => Inv

-----------------------------------------------------------------------------
(* Where the operations that end lead to, phase by phase.                  *)

LEMMA WhereRaised ==
  ASSUME Raise
  PROVE /\ phase = "injecting" => phase' = "accounts" /\ step' = "none"
        /\ phase \in {"recovering", "snapshotting", "restoring", "resnapshotting"} =>
             phase' = "crashing" /\ step' = "begin"
        /\ phase = "crashing" => phase' = "finishing" /\ step' = "begin"
        /\ phase = "finishing" => phase' = "crashing_again" /\ step' = "begin"
        /\ phase = "crashing_again" => phase' = "idle" /\ step' = "none"
BY SMT DEF Raise, RaisedTo, GoTo, Preparing, Ending

LEMMA WhereRestored ==
  ASSUME AfterRestore
  PROVE /\ phase # "restoring" => phase' = phase /\ step' = "clear"
        /\ phase = "restoring" /\ viewing => phase' = "restoring" /\ step' = "show"
        /\ phase = "restoring" /\ ~viewing => phase' = "running" /\ step' = "none"
BY Zenon DEF AfterRestore, GoTo

LEMMA WhereSwapped ==
  ASSUME AfterSwap
  PROVE /\ phase = "recovering" => phase' = "recovering" /\ step' = "clear"
        /\ phase = "injecting" => phase' = "injecting" /\ step' = "record"
        /\ phase \notin {"recovering", "injecting"} => AfterRestore
BY SMT DEF AfterSwap, GoTo

LEMMA WhereCleared ==
  ASSUME Unlinked
  PROVE /\ phase = "recovering" => phase' = "snapshotting" /\ step' = "begin"
        /\ phase \in Snapshotting => phase' = phase /\ step' = "copy"
        /\ phase = "crashing" => phase' = "finishing" /\ step' = "begin"
        /\ phase \in {"finishing", "crashing_again"} => phase' = "idle" /\ step' = "none"
BY SMT DEF Unlinked, EndedTo, GoTo, Snapshotting

LEMMA Contents ==
  /\ MasContents \subseteq Content /\ ScriptContents \subseteq Content
  /\ UserContents \subseteq Content \cup {Absent}
  /\ Absent \notin Content /\ Torn \notin Content /\ None \notin Content
  /\ Absent # Torn /\ None \notin {Absent, Torn} /\ None \notin Markers
  /\ Dir = Content \cup {Absent, Torn}
BY ContentAssumption, WrittenAssumption, NoneAssumption DEF Content, Dir

-----------------------------------------------------------------------------
(* Every step preserves the types.                                         *)

USE DEF GoTo, memory, disk, Readable, InPlace, Mine, NothingKept, Lent, LentOut, Snapshotting, Quiet,
        Preparing, Ending, SwapSteps, ClearSteps

LEMMA StartTypes == ASSUME TypeInv, Start PROVE TypeInv'
BY SMT DEF Start, TypeInv, TypeOK, StepOfPhase, SwapInv, CopyInv, OldMarkerInv, FlagInv, Phases

LEMMA UserEditsTypes == ASSUME TypeInv, UserEdits PROVE TypeInv'
BY Contents, SMT DEF UserEdits, TypeInv, TypeOK, StepOfPhase, SwapInv, CopyInv, OldMarkerInv,
    FlagInv, Mishaps

LEMMA CrashTypes == ASSUME TypeInv, Crash PROVE TypeInv'
<1>1. crashes' \in 0..MaxCrashes /\ accounts' \in 0..MaxAccounts
  BY BoundAssumption DEF Crash, TypeInv, TypeOK
<1>2. TypeOK'
  BY <1>1, Contents, Zenon DEF Crash, TypeInv, TypeOK, Phases, Steps
<1>3. QED
  BY <1>2, SMT DEF Crash, TypeInv, StepOfPhase, SwapInv, CopyInv, OldMarkerInv, FlagInv

LEMMA SwapTypes ==
  ASSUME TypeInv, SwapCopies \/ SwapCopied \/ MovesAway \/ SwapsIn
  PROVE  TypeInv'
<1>1. CASE SwapCopies
  BY <1>1, Contents, SMT
  DEF SwapCopies, TypeInv, TypeOK, StepOfPhase, SwapInv, CopyInv, OldMarkerInv, FlagInv, Phases,
      Steps
<1>2. CASE SwapCopied
  BY <1>2, SMT
  DEF SwapCopied, TypeInv, TypeOK, StepOfPhase, SwapInv, CopyInv, OldMarkerInv, FlagInv, Phases,
      Steps
<1>3. CASE MovesAway
  BY <1>3, Contents, SMT
  DEF MovesAway, TypeInv, TypeOK, StepOfPhase, SwapInv, CopyInv, OldMarkerInv, FlagInv, Phases,
      Steps
<1>4. CASE SwapsIn
  BY <1>4, Contents, SMT
  DEF SwapsIn, TypeInv, TypeOK, StepOfPhase, SwapInv, CopyInv, OldMarkerInv, FlagInv, Phases, Steps
<1>5. QED
  BY <1>1, <1>2, <1>3, <1>4

LEMMA SwapTidiesTypes == ASSUME TypeInv, SwapTidies PROVE TypeInv'
BY WhereSwapped, WhereRestored, Contents, SMT
DEF SwapTidies, TypeInv, TypeOK, StepOfPhase, SwapInv, CopyInv, OldMarkerInv, FlagInv, Phases, Steps

LEMMA FaultCounted ==
  ASSUME TypeInv, NEW what, MayFail(what)
  PROVE  faults' \in 0..MaxFaults
BY BoundAssumption DEF TypeInv, TypeOK, MayFail

LEMMA FailTypes ==
  ASSUME TypeInv, AwayFails \/ SwapInFails \/ SnapshotFails \/ MarkFails \/ SetsAsideFails
  PROVE  TypeInv'
<1>1. faults' \in 0..MaxFaults /\ Raise
  BY FaultCounted DEF AwayFails, SwapInFails, SnapshotFails, MarkFails, SetsAsideFails
<1>2. CASE AwayFails
  <2>1. /\ phase \in Preparing \cup Ending \cup {"injecting", "restoring", "resnapshotting"}
        /\ UNCHANGED <<source, ready, snap>>
    BY <1>2, SMT DEF AwayFails, TypeInv, TypeOK, StepOfPhase, Phases
  <2>2. TypeOK'
    BY <1>1, <1>2, <2>1, WhereRaised, SMT DEF AwayFails, TypeInv, TypeOK, Phases, Steps
  <2>3. QED
    BY <1>1, <1>2, <2>1, <2>2, WhereRaised, SMT
    DEF AwayFails, TypeInv, StepOfPhase, SwapInv, CopyInv, OldMarkerInv, FlagInv
<1>3. CASE SwapInFails
  <2>1. /\ phase \in Preparing \cup Ending \cup {"injecting", "restoring", "resnapshotting"}
        /\ UNCHANGED <<source, ready, snap>>
    BY <1>3, SMT DEF SwapInFails, TypeInv, TypeOK, StepOfPhase, Phases
  <2>2. TypeOK'
    BY <1>1, <1>3, <2>1, WhereRaised, Contents, SMT DEF SwapInFails, TypeInv, TypeOK, Phases, Steps
  <2>3. QED
    BY <1>1, <1>3, <2>1, <2>2, WhereRaised, SMT
    DEF SwapInFails, TypeInv, StepOfPhase, SwapInv, CopyInv, OldMarkerInv, FlagInv
<1>4. CASE SnapshotFails
  BY <1>1, <1>4, WhereRaised, SMT
  DEF SnapshotFails, TypeInv, TypeOK, StepOfPhase, SwapInv, CopyInv, OldMarkerInv, FlagInv,
      Phases, Steps
<1>5. CASE MarkFails
  BY <1>1, <1>5, WhereRaised, SMT
  DEF MarkFails, TypeInv, TypeOK, StepOfPhase, SwapInv, CopyInv, OldMarkerInv, FlagInv, Phases,
      Steps
<1>6. CASE SetsAsideFails
  BY <1>1, <1>6, WhereRaised, SMT
  DEF SetsAsideFails, TypeInv, TypeOK, StepOfPhase, SwapInv, CopyInv, OldMarkerInv, FlagInv,
      Phases, Steps
<1>7. QED
  BY <1>2, <1>3, <1>4, <1>5, <1>6

LEMMA ClearTypes ==
  ASSUME TypeInv, ClearStarts \/ Deleted \/ Unlinked
  PROVE  TypeInv'
<1>1. CASE ClearStarts
  BY <1>1, Contents, SMT
  DEF ClearStarts, EndedTo, TypeInv, TypeOK, StepOfPhase, SwapInv, CopyInv, OldMarkerInv,
      FlagInv, Phases, Steps
<1>2. CASE Deleted
  BY <1>2, Contents, SMT
  DEF Deleted, TypeInv, TypeOK, StepOfPhase, SwapInv, CopyInv, OldMarkerInv, FlagInv, Phases, Steps
<1>3. CASE Unlinked
  <2>1. /\ step = "unlink" /\ ready' = None /\ external_config_snapshot_ready' \in BOOLEAN
        /\ (phase \in Ending => ~external_config_snapshot_ready')
        /\ (phase \notin Ending =>
              (external_config_snapshot_ready' <=> external_config_snapshot_ready))
        /\ UNCHANGED <<live, staging, backup, snap, kept, source, external_config_exists,
                       viewing, native, accounts, own, mishap, faults, crashes>>
    BY <1>3, Zenon DEF Unlinked, TypeInv, TypeOK
  <2>2. QED
    BY <1>3, <2>1, WhereCleared, Contents, SMT
    DEF TypeInv, TypeOK, StepOfPhase, SwapInv, CopyInv, OldMarkerInv, FlagInv, Phases, Steps
<1>4. QED
  BY <1>1, <1>2, <1>3

LEMMA SetsAsideTypes == ASSUME TypeInv, SetsAside PROVE TypeInv'
BY Contents, SMT
DEF SetsAside, TypeInv, TypeOK, StepOfPhase, SwapInv, CopyInv, OldMarkerInv, FlagInv, Phases, Steps

LEMMA PrepareTypes == ASSUME TypeInv, Prepare PROVE TypeInv'
<1>1. /\ step' \in {"swap", "aside", "clear"}
      /\ (step' = "aside" => snap # Torn)
      /\ (ready # None /\ ready.version = "old" => step' = "aside" \/ (step' = "clear" /\ snap = Absent))
  <2>1. Readable => ready.version \in {"old", "new"}
    BY DEF TypeInv, TypeOK, Markers
  <2>2. Verdict \in {"cleared", "legacy", "restored", "intact", "skipped"}
    BY <2>1, SMT DEF Verdict, VerdictOfFound
  <2>3. /\ (Verdict = "legacy" => Readable /\ ready.version = "old")
        /\ (Readable /\ ready.version = "old" => Verdict = "legacy")
        /\ (Verdict = "restored" => Readable /\ ready.version = "new")
    BY <2>1, SMT DEF Verdict, VerdictOfFound
  <2>4. /\ (Verdict = "restored" => step' = "swap") /\ (Verdict = "legacy" => step' = "aside")
        /\ (Verdict \notin {"restored", "legacy"} => step' = "clear")
    BY SMT DEF Prepare
  <2>5. QED
    BY <2>2, <2>3, <2>4, Zenon DEF TypeInv, OldMarkerInv, FlagInv
<1>2. source' \in Dir /\ own' \in Content \cup {Absent, None}
  BY Contents, Zenon DEF Prepare, TaskBegins, TypeInv, TypeOK
<1>3. accounts' \in 0..MaxAccounts /\ mishap' \in Mishaps
  BY BoundAssumption DEF Prepare, TaskBegins, Mishaps, TypeInv, TypeOK
<1>4. TypeOK'
  BY <1>1, <1>3, <1>2, Contents, Zenon DEF Prepare, TaskBegins, TypeInv, TypeOK, Phases, Steps
<1>5. QED
  BY <1>1, <1>4, SMT DEF Prepare, TaskBegins, TypeInv, StepOfPhase, SwapInv, CopyInv,
      OldMarkerInv, FlagInv

LEMMA PrepareFailsTypes == ASSUME TypeInv, PrepareFails PROVE TypeInv'
<1>1. accounts' \in 0..MaxAccounts /\ faults' \in 0..MaxFaults
  BY BoundAssumption, FaultCounted DEF PrepareFails, TaskBegins
<1>2. TypeOK'
  BY <1>1, Contents, Zenon DEF PrepareFails, TaskBegins, TypeInv, TypeOK, Phases, Steps
<1>3. QED
  BY <1>1, <1>2, SMT
  DEF PrepareFails, TaskBegins, TypeInv, StepOfPhase, SwapInv, CopyInv, OldMarkerInv, FlagInv

LEMMA SnapshotTypes ==
  ASSUME TypeInv, SnapshotBegins \/ SnapshotCopies \/ SnapshotCopied
  PROVE  TypeInv'
<1>1. CASE SnapshotBegins
  <2>1. /\ external_config_exists' \in BOOLEAN /\ external_config_snapshot_ready' \in BOOLEAN
        /\ \/ live # Absent /\ phase' = phase /\ step' = "clear"
           \/ phase' = "accounts" /\ step' = "none"
    BY <1>1, Zenon DEF SnapshotBegins, TypeInv, TypeOK
  <2>2. QED
    BY <1>1, <2>1, SMT
    DEF SnapshotBegins, TypeInv, TypeOK, StepOfPhase, SwapInv, CopyInv, OldMarkerInv, FlagInv,
        Phases, Steps
<1>2. CASE SnapshotCopies
  BY <1>2, Contents, SMT
  DEF SnapshotCopies, TypeInv, TypeOK, StepOfPhase, SwapInv, CopyInv, OldMarkerInv, FlagInv,
      Phases, Steps
<1>3. CASE SnapshotCopied
  BY <1>3, SMT
  DEF SnapshotCopied, TypeInv, TypeOK, StepOfPhase, SwapInv, CopyInv, OldMarkerInv, FlagInv,
      Phases, Steps
<1>4. QED
  BY <1>1, <1>2, <1>3

LEMMA SnapshotCommittedTypes == ASSUME TypeInv, SnapshotCommitted PROVE TypeInv'
<1>1. snap \in Content \cup {Torn}
  BY Contents, SMT DEF SnapshotCommitted, TypeInv, TypeOK, StepOfPhase, CopyInv, Phases
<1>2. ready' \in Markers /\ ready'.version = "new" /\ ready'.baseline = snap
  BY <1>1 DEF SnapshotCommitted, Marker, Markers
<1>3. QED
  BY <1>2, SMT
  DEF SnapshotCommitted, TypeInv, TypeOK, StepOfPhase, SwapInv, CopyInv, OldMarkerInv, FlagInv,
      Phases, Steps

LEMMA MarksInjectedTypes == ASSUME TypeInv, MarksInjected PROVE TypeInv'
<1>1. phase = "injecting" /\ live \in Content
  BY Contents, SMT DEF MarksInjected, TypeInv, TypeOK, StepOfPhase, SwapInv, Phases
<1>2. ready' \in {None} \cup Markers
  BY <1>1 DEF MarksInjected, Recorded, Markers, TypeInv, TypeOK
<1>3. ready' # None =>
        ready # None /\ ready'.version = ready.version /\ ready'.baseline = ready.baseline
  BY NoneAssumption DEF MarksInjected, Recorded, Markers, TypeInv, TypeOK
<1>4. QED
  BY <1>1, <1>2, <1>3, SMT
  DEF MarksInjected, TypeInv, TypeOK, StepOfPhase, SwapInv, CopyInv, OldMarkerInv, FlagInv,
      Phases, Steps

LEMMA AccountTypes ==
  ASSUME TypeInv, NativeAccount \/ MasAccount
  PROVE  TypeInv'
<1>1. accounts' \in 0..MaxAccounts
  <2>1. accounts < MaxAccounts /\ accounts' = accounts + 1
    <3>1. accounts < (IF viewing THEN 1 ELSE MaxAccounts)
      BY Zenon DEF NativeAccount, MasAccount, MoreAccounts
    <3>2. QED
      BY <3>1, BoundAssumption, SMT DEF NativeAccount, MasAccount, TypeInv, TypeOK
  <2>2. QED
    BY <2>1, BoundAssumption DEF TypeInv, TypeOK
<1>2. /\ accounts' \in 0..MaxAccounts /\ native' \in BOOLEAN /\ phase = "accounts"
      /\ \/ phase' = "restoring" /\ step' = "begin" /\ source' = source
         \/ phase' = "injecting" /\ step' = "swap" /\ source' \in MasContents
         \/ phase' = "running" /\ step' = "none" /\ source' = source
      /\ UNCHANGED <<disk, external_config_exists, external_config_snapshot_ready,
                     viewing, own, mishap, faults, crashes>>
  BY <1>1, Zenon DEF NativeAccount, MasAccount
<1>3. QED
  BY <1>2, Contents, SMT DEF TypeInv, TypeOK, StepOfPhase, SwapInv, CopyInv, OldMarkerInv,
      FlagInv, Phases, Steps

LEMMA ShowsBackupTypes == ASSUME TypeInv, ShowsBackup PROVE TypeInv'
BY Contents, SMT
DEF ShowsBackup, TypeInv, TypeOK, StepOfPhase, SwapInv, CopyInv, OldMarkerInv, FlagInv, Phases,
    Steps

LEMMA ScriptTypes ==
  ASSUME TypeInv, ScriptWrites \/ ScriptEnds \/ TaskEnds
  PROVE  TypeInv'
BY Contents, SMT
DEF ScriptWrites, ScriptEnds, TaskEnds, TypeInv, TypeOK, StepOfPhase, SwapInv, CopyInv,
    OldMarkerInv, FlagInv, Phases, Steps,
    Mishaps

LEMMA RestoreTypes ==
  ASSUME TypeInv, RestoreBegins \/ Removed
  PROVE  TypeInv'
<1>1. CASE RestoreBegins
  <2>1. /\ phase \in Ending \cup {"restoring"} /\ step = "begin"
        /\ mishap' \in {mishap, "unmarked"}
        /\ UNCHANGED <<staging, backup, snap, ready, kept, external_config_exists,
                       external_config_snapshot_ready, viewing, native, accounts, own, faults,
                       crashes>>
        /\ \/ AfterRestore /\ live' = live /\ source' = source
           \/ /\ external_config_snapshot_ready
              /\ phase' = phase /\ step' = "removing" /\ live' = Torn /\ source' = source
           \/ Raise /\ live' = live /\ source' = source
           \/ /\ external_config_snapshot_ready
              /\ phase' = phase /\ step' = "swap" /\ source' = snap /\ live' = live
    BY <1>1, Zenon DEF RestoreBegins
  <2>2. QED
    BY <2>1, WhereRestored, WhereRaised, Contents, SMT
    DEF TypeInv, TypeOK, StepOfPhase, SwapInv, CopyInv, OldMarkerInv, FlagInv, Phases, Steps,
        Mishaps
<1>2. CASE Removed
  <2>1. faults' \in 0..MaxFaults /\ live' \in {live, Absent}
    BY <1>2, FaultCounted DEF Removed, TypeInv, TypeOK
  <2>2. QED
    BY <1>2, <2>1, WhereRestored, Contents, SMT
    DEF Removed, TypeInv, TypeOK, StepOfPhase, SwapInv, CopyInv, OldMarkerInv, FlagInv, Phases,
        Steps
<1>3. QED
  BY <1>1, <1>2

LEMMA InitTypes == Init => TypeInv
<1> SUFFICES ASSUME Init PROVE TypeInv
  OBVIOUS
<1>1. /\ own \in Content \cup {Absent} /\ live \in Content \cup {Absent} /\ snap \in {own, Absent}
      /\ own = Absent => snap = Absent
  BY Contents DEF Init
<1>2. ready \in {None} \cup Markers
  BY <1>1, Contents DEF Init, Marker, Markers
<1>3. 0 \in 0..MaxAccounts /\ 0 \in 0..MaxFaults /\ 0 \in 0..MaxCrashes
  BY BoundAssumption
<1>4. TypeOK
  BY <1>1, <1>2, <1>3, Contents, Zenon DEF Init, TypeOK, Phases, Steps, Mishaps
<1>5. ready # None => ready.version = "old"
  BY DEF Init, Marker
<1>6. QED
  BY <1>1, <1>4, <1>5, Contents, SMT DEF Init, TypeInv, StepOfPhase, SwapInv, CopyInv,
      OldMarkerInv, FlagInv

LEMMA StepTypes == TypeInv /\ [Next]_vars => TypeInv'
<1> SUFFICES ASSUME TypeInv, [Next]_vars PROVE TypeInv'
  OBVIOUS
<1>1. CASE FileStep
  BY <1>1, SwapTypes, SwapTidiesTypes, ClearTypes, SetsAsideTypes, RestoreTypes, SnapshotTypes,
     SnapshotCommittedTypes, MarksInjectedTypes, Zenon DEF FileStep
<1>2. CASE TaskStep
  BY <1>2, PrepareTypes, SnapshotTypes, AccountTypes, ShowsBackupTypes, ScriptTypes,
      RestoreTypes, Zenon
  DEF TaskStep
<1>3. CASE \/ Start \/ UserEdits \/ Crash
         \/ AwayFails \/ SwapInFails \/ SnapshotFails \/ MarkFails \/ PrepareFails \/ SetsAsideFails
  BY <1>3, StartTypes, UserEditsTypes, CrashTypes, FailTypes, PrepareFailsTypes, Zenon
<1>4. CASE UNCHANGED vars
  <2>1. TypeOK'
    BY <1>4, Zenon DEF vars, TypeInv, TypeOK
  <2>2. QED
    BY <1>4, <2>1, SMT DEF vars, TypeInv, StepOfPhase, SwapInv, CopyInv, OldMarkerInv, FlagInv
<1>5. QED
  BY <1>1, <1>2, <1>3, <1>4, Zenon DEF Next

LEMMA TypesHold == Spec => []TypeInv
BY InitTypes, StepTypes, PTL DEF Spec

\* Every variable has its type, and a marker is never one of an absent directory, whatever
\* fails and whatever anybody writes.
THEOREM TypeCorrect == Spec => []TypeOK
<1>1. TypeInv => TypeOK
  BY DEF TypeInv
<1>2. QED
  BY <1>1, TypesHold, PTL

-----------------------------------------------------------------------------
(* Every step keeps the user's configuration.                              *)

USE DEF Safe, Inv, Unmarked, RecoveryInv, SnapshotInv, AccountInv, EndingInv, GiveBackInv, OwnKept, OwnerNeverSeesTorn

LEMMA StartStep == ASSUME TypeInv, Safe, Start PROVE Safe'
BY SMT DEF Start

LEMMA UserEditsStep == ASSUME TypeInv, Safe, UserEdits PROVE Safe'
BY Contents, SMT DEF UserEdits, TypeInv, StepOfPhase

LEMMA CrashStep == ASSUME TypeInv, Safe, Crash PROVE Safe'
BY SMT DEF Crash

LEMMA SwapCopiesStep == ASSUME TypeInv, Safe, SwapCopies PROVE Safe'
BY SMT DEF SwapCopies

LEMMA SwapCopiedStep == ASSUME TypeInv, Safe, SwapCopied PROVE Safe'
BY SMT DEF SwapCopied

LEMMA MovesAwayStep == ASSUME TypeInv, Safe, MovesAway PROVE Safe'
BY Contents, SMT DEF MovesAway, TypeInv, TypeOK, StepOfPhase, FlagInv, Phases

LEMMA SwapsInStep == ASSUME TypeInv, Safe, SwapsIn PROVE Safe'
BY Contents, SMT DEF SwapsIn, TypeInv, TypeOK, StepOfPhase, FlagInv, SwapInv, Phases

LEMMA SwapTidiesStep == ASSUME TypeInv, Safe, SwapTidies PROVE Safe'
BY WhereSwapped, WhereRestored, SMT DEF SwapTidies, TypeInv, SwapInv

LEMMA AwayFailsStep == ASSUME TypeInv, Safe, AwayFails PROVE Safe'
BY WhereRaised, SMT DEF AwayFails, TypeInv, TypeOK, StepOfPhase, FlagInv, Phases

LEMMA SwapInFailsStep == ASSUME TypeInv, Safe, SwapInFails PROVE Safe'
BY WhereRaised, Contents, SMT DEF SwapInFails, TypeInv, TypeOK, StepOfPhase, FlagInv, Phases

LEMMA SnapshotFailsStep == ASSUME TypeInv, Safe, SnapshotFails PROVE Safe'
BY WhereRaised, SMT DEF SnapshotFails, TypeInv, TypeOK, CopyInv, StepOfPhase, FlagInv, Phases

LEMMA MarkFailsStep == ASSUME TypeInv, Safe, MarkFails PROVE Safe'
BY WhereRaised, SMT DEF MarkFails, TypeInv, TypeOK, StepOfPhase, Phases

LEMMA SetsAsideFailsStep == ASSUME TypeInv, Safe, SetsAsideFails PROVE Safe'
BY WhereRaised, SMT DEF SetsAsideFails, TypeInv, TypeOK, StepOfPhase, FlagInv, Phases

LEMMA ClearStartsStep == ASSUME TypeInv, Safe, ClearStarts PROVE Safe'
BY SMT DEF ClearStarts, EndedTo, TypeInv, TypeOK, StepOfPhase, Phases

LEMMA DeletedStep == ASSUME TypeInv, Safe, Deleted PROVE Safe'
BY SMT DEF Deleted, TypeInv, TypeOK, StepOfPhase, FlagInv, Phases

LEMMA UnlinkedStep == ASSUME TypeInv, Safe, Unlinked PROVE Safe'
<1>1. /\ step = "unlink" /\ ready' = None
      /\ (phase \in Ending => ~external_config_snapshot_ready')
      /\ (phase \notin Ending => (external_config_snapshot_ready' <=> external_config_snapshot_ready))
      /\ UNCHANGED <<live, staging, backup, snap, kept, source, external_config_exists,
                     viewing, native, accounts, own, mishap, faults, crashes>>
  BY Zenon DEF Unlinked
<1>2. phase \in Snapshotting \cup Ending \cup {"recovering"}
  BY <1>1, SMT DEF TypeInv, TypeOK, StepOfPhase, Phases
<1>3. QED
  BY <1>1, <1>2, WhereCleared, SMT DEF TypeInv, FlagInv

LEMMA SetsAsideStep == ASSUME TypeInv, Safe, SetsAside PROVE Safe'
BY SMT DEF SetsAside, TypeInv, TypeOK, StepOfPhase, Phases

LEMMA PrepareStep == ASSUME TypeInv, Safe, Prepare PROVE Safe'
BY Contents, SMT DEF Prepare, TaskBegins, Mistaken, Verdict, VerdictOfFound, Markers, TypeInv,
    TypeOK

LEMMA PrepareFailsStep == ASSUME TypeInv, Safe, PrepareFails PROVE Safe'
BY SMT DEF PrepareFails, TaskBegins

LEMMA SnapshotBeginsStep == ASSUME TypeInv, Safe, SnapshotBegins PROVE Safe'
<1>1. /\ phase \in Snapshotting /\ step = "begin"
      /\ UNCHANGED <<disk, source, viewing, native, accounts, own, mishap, faults, crashes>>
  BY DEF SnapshotBegins
<1>2. CASE live # Absent
  <2>1. /\ external_config_exists' = TRUE /\ phase' = phase /\ step' = "clear"
        /\ external_config_snapshot_ready' = external_config_snapshot_ready
    BY <1>2, Zenon DEF SnapshotBegins
  <2>2. QED
    BY <1>1, <1>2, <2>1, SMT
<1>3. CASE live = Absent
  <2>1. /\ external_config_exists' = FALSE /\ external_config_snapshot_ready' = TRUE
        /\ phase' = "accounts" /\ step' = "none"
    BY <1>3, Zenon DEF SnapshotBegins
  <2>2. QED
    BY <1>1, <1>3, <2>1, SMT
<1>4. QED
  BY <1>2, <1>3

LEMMA SnapshotCopiesStep == ASSUME TypeInv, Safe, SnapshotCopies PROVE Safe'
BY SMT DEF SnapshotCopies, TypeInv, TypeOK, StepOfPhase, Phases

LEMMA SnapshotCopiedStep == ASSUME TypeInv, Safe, SnapshotCopied PROVE Safe'
BY SMT DEF SnapshotCopied, TypeInv, TypeOK, StepOfPhase, Phases

LEMMA SnapshotCommittedStep == ASSUME TypeInv, Safe, SnapshotCommitted PROVE Safe'
BY Contents, SMT DEF SnapshotCommitted, Marker, Markers, TypeInv, TypeOK, StepOfPhase, CopyInv,
    Phases

LEMMA MarksInjectedStep == ASSUME TypeInv, Safe, MarksInjected PROVE Safe'
BY Contents, SMT DEF MarksInjected, Recorded, Markers, TypeInv, TypeOK, StepOfPhase, SwapInv, Phases

LEMMA NativeAccountStep == ASSUME TypeInv, Safe, NativeAccount PROVE Safe'
BY SMT DEF NativeAccount

LEMMA MasAccountStep == ASSUME TypeInv, Safe, MasAccount PROVE Safe'
BY SMT DEF MasAccount

LEMMA ShowsBackupStep == ASSUME TypeInv, Safe, ShowsBackup PROVE Safe'
BY SMT DEF ShowsBackup, TypeInv, TypeOK, StepOfPhase, Phases

LEMMA ScriptWritesStep == ASSUME TypeInv, Safe, ScriptWrites PROVE Safe'
BY Contents, SMT DEF ScriptWrites, TypeInv, StepOfPhase

LEMMA ScriptEndsStep == ASSUME TypeInv, Safe, ScriptEnds PROVE Safe'
BY SMT DEF ScriptEnds, TakesNewSnapshot

LEMMA TaskEndsStep == ASSUME TypeInv, Safe, TaskEnds PROVE Safe'
BY SMT DEF TaskEnds

LEMMA RestoreBeginsStep == ASSUME TypeInv, Safe, RestoreBegins PROVE Safe'
<1> SUFFICES ASSUME mishap' = "none" PROVE Inv'
  BY DEF Safe
<1>1. /\ phase \in Ending \cup {"restoring"} /\ step = "begin"
      /\ UNCHANGED <<staging, backup, snap, ready, kept, external_config_exists,
                     external_config_snapshot_ready, viewing, native, accounts, own>>
  BY DEF RestoreBegins
<1>2. /\ mishap = "none"
      /\ external_config_snapshot_ready /\ external_config_exists /\ snap # Absent => ready # None
  BY Zenon DEF RestoreBegins
<1>3. Inv
  BY <1>2 DEF Safe
<1>4. CASE ~external_config_snapshot_ready
  <2>1. AfterRestore /\ live' = live
    BY <1>4, Zenon DEF RestoreBegins
  <2>2. QED
    BY <1>1, <1>3, <1>4, <2>1, WhereRestored, SMT DEF TypeInv, FlagInv
<1>5. CASE external_config_snapshot_ready /\ ~external_config_exists
  <2>1. \/ AfterRestore /\ live = Absent /\ live' = live
        \/ phase' = phase /\ step' = "removing" /\ live' = Torn
    BY <1>5, Zenon DEF RestoreBegins
  <2>2. QED
    BY <1>1, <1>3, <1>5, <2>1, WhereRestored, SMT
<1>6. CASE external_config_snapshot_ready /\ external_config_exists
  <2>1. \/ snap = Absent /\ Raise /\ live' = live
        \/ snap # Absent /\ phase' = phase /\ step' = "swap" /\ source' = snap /\ live' = live
    BY <1>6, Zenon DEF RestoreBegins
  <2>2. QED
    BY <1>1, <1>2, <1>3, <1>6, <2>1, WhereRaised, SMT
<1>7. QED
  BY <1>4, <1>5, <1>6

LEMMA RemovedStep == ASSUME TypeInv, Safe, Removed PROVE Safe'
BY WhereRestored, SMT DEF Removed, TypeInv, TypeOK, StepOfPhase, FlagInv, Phases

HIDE DEF Safe, Inv, Unmarked, RecoveryInv, SnapshotInv, AccountInv, EndingInv, GiveBackInv, OwnKept, OwnerNeverSeesTorn

-----------------------------------------------------------------------------
(* The theorems.                                                           *)

LEMMA InitSafe == Init => Safe
<1> SUFFICES ASSUME Init PROVE Inv
  BY DEF Safe
<1>1. /\ own \in Content \cup {Absent}
      /\ \/ live = own /\ snap = Absent /\ ready = None
         \/ /\ own # Absent /\ snap = own /\ ready \in Markers /\ ready.version = "old"
            /\ live \in MasContents \cup {own}
  <2>1. CASE live = own /\ snap = Absent /\ ready = None
    BY <2>1, Contents DEF Init
  <2>2. CASE /\ own # Absent /\ live \in MasContents \cup {own} /\ snap = own
             /\ ready \in {Marker(own, i, "old") : i \in {live, None}}
    BY <2>2, Contents DEF Init, Marker, Markers
  <2>3. QED
    BY <2>1, <2>2 DEF Init
<1>2. QED
  BY <1>1, Contents, SMT
  DEF Init, Inv, RecoveryInv, SnapshotInv, AccountInv, EndingInv, GiveBackInv, OwnKept,
      OwnerNeverSeesTorn

LEMMA StepSafe == ASSUME TypeInv, Safe, [Next]_vars PROVE Safe'
<1>1. CASE FileStep
  BY <1>1, SwapCopiesStep, SwapCopiedStep, MovesAwayStep, SwapsInStep, SwapTidiesStep,
      ClearStartsStep, DeletedStep,
     UnlinkedStep, SetsAsideStep, SnapshotCopiesStep, SnapshotCopiedStep, SnapshotCommittedStep, MarksInjectedStep,
     RemovedStep
  DEF FileStep
<1>2. CASE TaskStep
  BY <1>2, PrepareStep, SnapshotBeginsStep, NativeAccountStep, MasAccountStep, ShowsBackupStep,
      ScriptWritesStep,
     ScriptEndsStep, TaskEndsStep, RestoreBeginsStep
  DEF TaskStep
<1>3. CASE \/ Start \/ UserEdits \/ Crash
         \/ AwayFails \/ SwapInFails \/ SnapshotFails \/ MarkFails \/ PrepareFails \/ SetsAsideFails
  BY <1>3, StartStep, UserEditsStep, CrashStep, AwayFailsStep, SwapInFailsStep, SnapshotFailsStep,
     MarkFailsStep, PrepareFailsStep, SetsAsideFailsStep
<1>4. CASE UNCHANGED vars
  BY <1>4, SMT
  DEF vars, Safe, Inv, Unmarked, RecoveryInv, SnapshotInv, AccountInv, EndingInv, GiveBackInv,
      OwnKept, OwnerNeverSeesTorn
<1>5. QED
  BY <1>1, <1>2, <1>3, <1>4 DEF Next

LEMMA SafeHolds == Spec => []Safe
BY InitSafe, StepSafe, TypesHold, PTL DEF Spec

\* The user's own configuration is at every moment where the next start finds it, in every
\* order of lending, restoring, failing, dying, and of the user editing or deleting the
\* directory in between, whatever contents meet: in place or in a snapshot with a valid
\* marker, until the manager gives back a snapshot that has no marker, or recovery takes
\* the user's configuration for MAS's because they are equal (app/utils/common/io.py,
\* app/task/general/manager.py).
THEOREM ConfigurationSurvives == Spec => []OwnLostOnlyByMishap
<1>1. Safe => OwnLostOnlyByMishap
  BY DEF Safe, Inv, OwnKept, OwnSurvives, OwnLostOnlyByMishap
<1>2. QED
  BY <1>1, SafeHolds, PTL

\* Recovery gives up a configuration of the user that no mishap has cost only when it finds
\* one in its place that is neither MAS's nor the one it snapshotted, or a snapshot of an
\* older version, which it keeps aside; no other step gives one up (recover_native_config).
THEOREM GivenUpOnlyForUnknown == Spec => GivesUpOnlyForUnknown
<1> DEFINE Known == own \notin {Absent, None} /\ mishap = "none" /\ own' = None =>
                      Verdict = "skipped" \/ (Verdict = "legacy" /\ snap = own)
<1>1. TypeInv /\ Safe /\ Next => Known
  <2>. SUFFICES ASSUME TypeInv, Inv, Next, own \notin {Absent, None}, own' = None
                PROVE  Verdict = "skipped" \/ (Verdict = "legacy" /\ snap = own)
    BY DEF Safe
  <2>1. own' # own
    OBVIOUS
  <2>2. CASE Prepare
    <3>1. Verdict # "restored" /\ own # live
      BY <2>1, <2>2 DEF Prepare
    <3>2. Readable /\ snap = own
      BY <3>1 DEF Inv, OwnKept
    <3>3. own \in Content
      BY Contents DEF TypeInv, TypeOK
    <3>4. ASSUME ready.version = "new" PROVE ready.baseline = own
      BY <3>2, <3>3, <3>4, Contents DEF TypeInv, CopyInv
    <3>5. QED
      BY <3>1, <3>2, <3>4, SMT DEF Verdict, VerdictOfFound, TypeInv, TypeOK, Markers
  <2>3. CASE UserEdits
    BY <2>3, Contents DEF UserEdits
  <2>4. CASE ScriptWrites
    BY <2>1, <2>4, Contents DEF ScriptWrites
  <2>5. CASE ~(Prepare \/ UserEdits \/ ScriptWrites)
    BY <2>1, <2>5, Zenon
    DEF Next, Start, Crash, FileStep, TaskStep, AwayFails, SwapInFails, SnapshotFails,
        MarkFails, PrepareFails, SetsAsideFails, SwapCopies, SwapCopied, MovesAway, SwapsIn,
        SwapTidies, ClearStarts, Deleted, Unlinked, SetsAside, Removed, SnapshotCopies,
        SnapshotCopied, SnapshotCommitted, MarksInjected, SnapshotBegins, NativeAccount, MasAccount, ShowsBackup,
        ScriptEnds, TaskEnds, RestoreBegins
  <2>6. QED
    BY <2>2, <2>3, <2>4, <2>5
<1>2. TypeInv /\ Safe /\ [Next]_vars => [Known]_vars
  BY <1>1
<1>3. QED
  BY <1>2, TypesHold, SafeHolds, PTL DEF Spec, GivesUpOnlyForUnknown

\* The user is never left with half a configuration, however swap_in_dir is interrupted and
\* whatever else fails, but by one of the two mishaps.
THEOREM NeverTornForItsOwner == Spec => []TornOnlyByMishap
<1>1. Safe => TornOnlyByMishap
  BY DEF Safe, Inv, TornOnlyByMishap
<1>2. QED
  BY <1>1, SafeHolds, PTL
=============================================================================
