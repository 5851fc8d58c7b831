------------------------- MODULE ScriptReservations -------------------------
(***************************************************************************)
(* _ScriptTaskReservations of app/core/task_manager/manager.py: the        *)
(* in-process table by which tasks occupy scripts, installation roots and  *)
(* emulator instances.  Both methods are synchronous, so each call is one  *)
(* atomic step; tasks call them in any order.                              *)
(*                                                                         *)
(* A path is abstracted to a member of Roots: two spellings with the same  *)
(* normal form are one root, and Below is the containment the code decides *)
(* on normal forms.                                                        *)
(***************************************************************************)
EXTENDS Naturals

CONSTANTS Owners,     \* task ids
          Scripts, Roots, Emulators,
          Below,      \* <<r, p>>: r lies strictly inside p
          Nobody      \* a key that is not in _owners

ASSUME BelowAssumption == Below \subseteq Roots \X Roots
ASSUME NobodyAssumption == Nobody \notin Owners

VARIABLES owners,              \* _owners
          owner_keys,          \* _owner_keys, an absent entry being {}
          reserved_root_paths, \* the roots whose key _reserved_root_paths has
          reply                \* the last call and what it returned

vars == <<owners, owner_keys, reserved_root_paths, reply>>

ScriptKey(s)   == <<"script", s>>
RootKey(r)     == <<"install-root", r>>
EmulatorKey(e) == <<"emulator", e>>

Keys == {ScriptKey(s) : s \in Scripts} \cup {RootKey(r) : r \in Roots}
          \cup {EmulatorKey(e) : e \in Emulators}

\* What a call returned (TRUE or FALSE, spelled out per method) and to which call.
Answer(result, o, s, keys) ==
  [result |-> result, owner |-> o, script |-> s, keys |-> keys]

NoReply == [result |-> "none"]

Replies == {NoReply} \cup
  [result : {"granted", "refused", "released", "not held"},
   owner : Owners, script : Scripts, keys : SUBSET Keys]

Overlap(r, p) == r = p \/ <<r, p>> \in Below \/ <<p, r>> \in Below

ResourceKeys(s, roots, emulators) ==
  {ScriptKey(s)} \cup {RootKey(r) : r \in roots}
    \cup {EmulatorKey(e) : e \in emulators}

\* Mutant: a parent directory of a taken root is not seen as a conflict.
ParentUnseen(o, roots) ==
  \E p \in reserved_root_paths :
    /\ owners[RootKey(p)] \notin {Nobody, o}
    /\ \E r \in roots : r = p \/ <<r, p>> \in Below

\* The second test of try_acquire: an installation root of another owner that
\* is, contains or lies inside one of the requested roots.
RootConflict(o, roots) ==
  \E p \in reserved_root_paths :
    /\ owners[RootKey(p)] \notin {Nobody, o}
    /\ \E r \in roots : Overlap(r, p)

\* Mutant: the owner's own keys count as conflicts, so a task cannot ask again.
NotReentrant(o, keys, roots) ==
  /\ \A k \in keys : owners[k] = Nobody
  /\ ~RootConflict(o, roots)

Grantable(o, keys, roots) ==
  /\ \A k \in keys : owners[k] \in {Nobody, o}
  /\ ~RootConflict(o, roots)

\* Another script of the same owner still needs key k.
StillReserved(o, s, k) == \E t \in Scripts \ {s} : k \in owner_keys[o][t]

\* Mutant: a release frees the keys another script of the owner still needs.
FreesSharedKeys(o, s) == owner_keys[o][s]

Freed(o, s) == {k \in owner_keys[o][s] : ~StillReserved(o, s, k)}

Init ==
  /\ owners = [k \in Keys |-> Nobody]
  /\ owner_keys = [o \in Owners |-> [s \in Scripts |-> {}]]
  /\ reserved_root_paths = {}
  /\ reply = NoReply

-----------------------------------------------------------------------------
(* try_acquire.  emulators is the optional emulator key: empty or one.     *)

Granted(o, s, roots, emulators) ==
  LET keys == ResourceKeys(s, roots, emulators) IN
  /\ Grantable(o, keys, roots)
  /\ owners' = [k \in Keys |-> IF k \in keys THEN o ELSE owners[k]]
  /\ owner_keys' = [owner_keys EXCEPT ![o][s] = @ \cup keys]
  /\ reserved_root_paths' = reserved_root_paths \cup roots
  /\ reply' = Answer("granted", o, s, keys)

Refused(o, s, roots, emulators) ==
  /\ ~Grantable(o, ResourceKeys(s, roots, emulators), roots)
  /\ reply' = Answer("refused", o, s, ResourceKeys(s, roots, emulators))
  /\ UNCHANGED <<owners, owner_keys, reserved_root_paths>>

Release(o, s) ==
  /\ owners[ScriptKey(s)] = o
  /\ owners' = [k \in Keys |->
                  IF k \in Freed(o, s) /\ owners[k] = o THEN Nobody ELSE owners[k]]
  /\ owner_keys' = [owner_keys EXCEPT ![o][s] = {}]
  /\ reserved_root_paths' =
       {r \in reserved_root_paths : RootKey(r) \notin Freed(o, s)}
  /\ reply' = Answer("released", o, s, {})

\* The second release of a standalone task (its run loop has released the
\* script before clean_task does), or one by a task that never held it.
ReleaseRefused(o, s) ==
  /\ owners[ScriptKey(s)] # o
  /\ reply' = Answer("not held", o, s, {})
  /\ UNCHANGED <<owners, owner_keys, reserved_root_paths>>

OptionalEmulator == {{}} \cup {{e} : e \in Emulators}

Next ==
  \E o \in Owners, s \in Scripts :
    \/ \E roots \in SUBSET Roots, emulators \in OptionalEmulator :
         Granted(o, s, roots, emulators) \/ Refused(o, s, roots, emulators)
    \/ Release(o, s)
    \/ ReleaseRefused(o, s)

Spec == Init /\ [][Next]_vars

-----------------------------------------------------------------------------
TypeOK ==
  /\ owners \in [Keys -> Owners \cup {Nobody}]
  /\ owner_keys \in [Owners -> [Scripts -> SUBSET Keys]]
  /\ reserved_root_paths \subseteq Roots
  /\ reply \in Replies

\* The key table and the per-owner table agree: a key has an owner exactly
\* when one of that owner's scripts lists it.  So no key leaks (nobody could
\* ever release it) and none is freed under a script that still needs it.
TablesAgree ==
  \A k \in Keys, o \in Owners :
    owners[k] = o <=> \E s \in Scripts : k \in owner_keys[o][s]

\* A script's entry is there as long as any of its resources is: release, which
\* looks at the script key only, can always find what it has to free.
ScriptKeyCoversResources ==
  \A o \in Owners, s \in Scripts :
    owner_keys[o][s] # {} => ScriptKey(s) \in owner_keys[o][s]

\* The path table, which the containment test walks, lists exactly the roots
\* whose key is taken; a missing entry would make that test skip the root.
PathsFollowKeys ==
  \A r \in Roots : r \in reserved_root_paths <=> owners[RootKey(r)] # Nobody

\* The three tables of the reservation stay in step.
TablesInStep == TablesAgree /\ ScriptKeyCoversResources /\ PathsFollowKeys

\* Two tasks never occupy the same installation directory, nor a directory and
\* one of its sub-directories, through whatever scripts and later additions.
RootsExclusive ==
  \A o, q \in Owners : \A s, t \in Scripts : \A r, p \in Roots :
    /\ RootKey(r) \in owner_keys[o][s]
    /\ RootKey(p) \in owner_keys[q][t]
    /\ Overlap(r, p)
    => o = q

\* A key changes hands only through being free: no call takes a resource from
\* the task that has it.
NoTakeOver ==
  [][\A k \in Keys : owners[k] # Nobody => owners'[k] \in {owners[k], Nobody}]_vars

\* The table implements the exclusive locks of ResourceLocks: nothing clashing
\* is granted, nothing free is refused, a release frees exactly its script.
Locks == INSTANCE ResourceLocks WITH holding <- owner_keys
ImplementsLocks == Locks!Spec
=============================================================================
