---------------------- MODULE ScriptReservations_proofs ----------------------
(* The reservation table is exclusive, for any number of tasks, scripts,   *)
(* installation roots (nested in any way) and emulators.                   *)
EXTENDS ScriptReservations, TLAPS

\* Through script s an owner lists no script key but that of s.
OwnScriptKeyOnly ==
  \A o \in Owners : \A s, t \in Scripts : ScriptKey(t) \in owner_keys[o][s] => t = s

\* The inductive invariant.  RootsExclusive is kept by the containment test
\* only if that test sees every taken root (PathsFollowKeys), and a release
\* keeps the tables in step only if they were (TablesAgree).
IInv ==
  /\ TypeOK
  /\ TablesAgree
  /\ ScriptKeyCoversResources
  /\ OwnScriptKeyOnly
  /\ PathsFollowKeys
  /\ RootsExclusive

\* The three families of keys do not meet, and a key names one resource.
LEMMA KeyFamilies ==
  /\ \A s, t : ScriptKey(s) = ScriptKey(t) => s = t
  /\ \A r, p : RootKey(r) = RootKey(p) => r = p
  /\ \A s, r : ScriptKey(s) # RootKey(r)
  /\ \A s, e : ScriptKey(s) # EmulatorKey(e)
  /\ \A r, e : RootKey(r) # EmulatorKey(e)
BY DEF ScriptKey, RootKey, EmulatorKey

\* The keys try_acquire computes are keys, with the script's own among them and
\* exactly the requested roots.
LEMMA RequestedKeys ==
  ASSUME NEW s \in Scripts, NEW roots \in SUBSET Roots,
         NEW emulators \in OptionalEmulator
  PROVE  /\ ResourceKeys(s, roots, emulators) \in SUBSET Keys
         /\ ScriptKey(s) \in ResourceKeys(s, roots, emulators)
         /\ \A t \in Scripts : ScriptKey(t) \in ResourceKeys(s, roots, emulators) => t = s
         /\ \A r \in Roots : RootKey(r) \in ResourceKeys(s, roots, emulators) <=> r \in roots
<1>1. emulators \in SUBSET Emulators
  BY DEF OptionalEmulator
<1>2. ResourceKeys(s, roots, emulators) \in SUBSET Keys
  BY <1>1 DEF ResourceKeys, Keys
<1>3. ScriptKey(s) \in ResourceKeys(s, roots, emulators)
  BY DEF ResourceKeys
<1>4. \A t \in Scripts : ScriptKey(t) \in ResourceKeys(s, roots, emulators) => t = s
  BY KeyFamilies DEF ResourceKeys
<1>5. \A r \in Roots : RootKey(r) \in ResourceKeys(s, roots, emulators) <=> r \in roots
  BY KeyFamilies DEF ResourceKeys
<1>6. QED
  BY <1>2, <1>3, <1>4, <1>5

\* Nothing is held at the start.
LEMMA InitInvariant == Init => IInv
<1> SUFFICES ASSUME Init PROVE IInv
  OBVIOUS
<1>1. TypeOK
  BY DEF Init, TypeOK, Replies, NoReply
<1>2. TablesAgree
  BY NobodyAssumption DEF Init, TablesAgree
<1>3. ScriptKeyCoversResources /\ OwnScriptKeyOnly /\ RootsExclusive
  BY DEF Init, ScriptKeyCoversResources, OwnScriptKeyOnly, RootsExclusive
<1>4. PathsFollowKeys
  BY DEF Init, PathsFollowKeys, Keys
<1>5. QED
  BY <1>1, <1>2, <1>3, <1>4 DEF IInv

\* A granted request keeps the invariant.
LEMMA GrantedInvariant ==
  ASSUME IInv, NEW o \in Owners, NEW s \in Scripts, NEW roots \in SUBSET Roots,
         NEW emulators \in OptionalEmulator, Granted(o, s, roots, emulators)
  PROVE  IInv'
<1> DEFINE keys == ResourceKeys(s, roots, emulators)
<1>k. /\ keys \in SUBSET Keys
      /\ ScriptKey(s) \in keys
      /\ \A t \in Scripts : ScriptKey(t) \in keys => t = s
      /\ \A r \in Roots : RootKey(r) \in keys <=> r \in roots
  BY RequestedKeys
<1>g. /\ Grantable(o, keys, roots)
      /\ owners' = [k \in Keys |-> IF k \in keys THEN o ELSE owners[k]]
      /\ owner_keys' = [owner_keys EXCEPT ![o][s] = @ \cup keys]
      /\ reserved_root_paths' = reserved_root_paths \cup roots
      /\ reply' = Answer("granted", o, s, keys)
  BY DEF Granted
<1> HIDE DEF keys
<1>t. TypeOK
  BY DEF IInv
<1>u. \A q \in Owners, t \in Scripts :
        owner_keys'[q][t] = IF q = o /\ t = s THEN owner_keys[q][t] \cup keys
                                              ELSE owner_keys[q][t]
  BY <1>g, <1>t DEF TypeOK
<1>1. TypeOK'
  BY <1>k, <1>g, <1>t DEF TypeOK, Replies, Answer
<1>2. TablesAgree'
  <2> SUFFICES ASSUME NEW k \in Keys, NEW q \in Owners
               PROVE  owners'[k] = q <=> \E t \in Scripts : k \in owner_keys'[q][t]
    BY DEF TablesAgree
  <2>1. owners[k] = q <=> \E t \in Scripts : k \in owner_keys[q][t]
    BY DEF IInv, TablesAgree
  <2>2. CASE k \in keys
    <3>1. owners[k] \in {Nobody, o} /\ owners'[k] = o
      BY <1>g, <2>2 DEF Grantable
    <3>2. k \in owner_keys'[o][s]
      BY <1>u, <2>2
    <3>3. CASE q = o
      BY <3>1, <3>2, <3>3
    <3>4. CASE q # o
      BY <1>u, <2>1, <3>1, <3>4, NobodyAssumption
    <3>5. QED
      BY <3>3, <3>4
  <2>3. CASE k \notin keys
    <3>1. owners'[k] = owners[k]
      BY <1>g, <2>3
    <3>2. \A t \in Scripts : k \in owner_keys'[q][t] <=> k \in owner_keys[q][t]
      BY <1>u, <2>3
    <3>3. QED
      BY <2>1, <3>1, <3>2
  <2>4. QED
    BY <2>2, <2>3
<1>3. ScriptKeyCoversResources'
  BY <1>k, <1>u DEF IInv, ScriptKeyCoversResources
<1>4. OwnScriptKeyOnly'
  BY <1>k, <1>u DEF IInv, OwnScriptKeyOnly
<1>5. PathsFollowKeys'
  <2> SUFFICES ASSUME NEW r \in Roots
               PROVE  r \in reserved_root_paths' <=> owners'[RootKey(r)] # Nobody
    BY DEF PathsFollowKeys
  <2>1. RootKey(r) \in Keys
    BY DEF Keys
  <2>2. owners'[RootKey(r)] = IF r \in roots THEN o ELSE owners[RootKey(r)]
    BY <1>k, <1>g, <2>1
  <2>3. r \in reserved_root_paths <=> owners[RootKey(r)] # Nobody
    BY DEF IInv, PathsFollowKeys
  <2>4. QED
    BY <1>g, <2>2, <2>3, NobodyAssumption
<1>6. RootsExclusive'
  <2> SUFFICES ASSUME NEW a \in Owners, NEW b \in Owners,
                      NEW t \in Scripts, NEW w \in Scripts,
                      NEW r \in Roots, NEW p \in Roots,
                      RootKey(r) \in owner_keys'[a][t],
                      RootKey(p) \in owner_keys'[b][w],
                      Overlap(r, p), a # b
               PROVE  FALSE
    BY DEF RootsExclusive, Overlap
  <2>n. ~RootConflict(o, roots)
    BY <1>g DEF Grantable
  \* An old root of an owner other than o overlaps no requested root.
  <2>1. ASSUME NEW q \in Owners, q # o, NEW x \in Scripts, NEW y \in Roots,
               RootKey(y) \in owner_keys[q][x], NEW z \in roots
        PROVE  ~Overlap(z, y)
    <3>1. RootKey(y) \in Keys
      BY DEF Keys
    <3>2. owners[RootKey(y)] = q
      BY <2>1, <3>1 DEF IInv, TablesAgree
    <3>3. y \in reserved_root_paths
      BY <3>2, NobodyAssumption DEF IInv, PathsFollowKeys
    <3>4. QED
      BY <2>n, <2>1, <3>2, <3>3, NobodyAssumption DEF RootConflict
  <2>2. RootKey(r) \in owner_keys[a][t] \/ (a = o /\ r \in roots)
    BY <1>u, <1>k
  <2>3. RootKey(p) \in owner_keys[b][w] \/ (b = o /\ p \in roots)
    BY <1>u, <1>k
  <2>4. CASE RootKey(r) \in owner_keys[a][t] /\ RootKey(p) \in owner_keys[b][w]
    BY <2>4 DEF IInv, RootsExclusive
  <2>5. CASE a = o /\ r \in roots
    <3>1. RootKey(p) \in owner_keys[b][w]
      BY <2>3, <2>5
    <3>2. QED
      BY <2>1, <2>5, <3>1
  <2>6. CASE b = o /\ p \in roots
    <3>1. RootKey(r) \in owner_keys[a][t]
      BY <2>2, <2>6
    <3>2. ~Overlap(p, r)
      BY <2>1, <2>6, <3>1
    <3>3. QED
      BY <3>2 DEF Overlap
  <2>7. QED
    BY <2>2, <2>3, <2>4, <2>5, <2>6
<1>7. QED
  BY <1>1, <1>2, <1>3, <1>4, <1>5, <1>6 DEF IInv

\* A release keeps the invariant.
LEMMA ReleaseInvariant ==
  ASSUME IInv, NEW o \in Owners, NEW s \in Scripts, Release(o, s)
  PROVE  IInv'
<1>r. /\ owners' = [k \in Keys |->
                      IF k \in Freed(o, s) /\ owners[k] = o THEN Nobody ELSE owners[k]]
      /\ owner_keys' = [owner_keys EXCEPT ![o][s] = {}]
      /\ reserved_root_paths' = {r \in reserved_root_paths : RootKey(r) \notin Freed(o, s)}
      /\ reply' = Answer("released", o, s, {})
  BY DEF Release
<1>t. TypeOK
  BY DEF IInv
<1>u. \A q \in Owners, t \in Scripts :
        owner_keys'[q][t] = IF q = o /\ t = s THEN {} ELSE owner_keys[q][t]
  BY <1>r, <1>t DEF TypeOK
<1>f. \A k \in Freed(o, s) : k \in Keys /\ owners[k] = o
  BY <1>t DEF IInv, TypeOK, TablesAgree, Freed
<1>1. TypeOK'
  BY <1>r, <1>t DEF TypeOK, Replies, Answer
<1>2. TablesAgree'
  <2> SUFFICES ASSUME NEW k \in Keys, NEW q \in Owners
               PROVE  owners'[k] = q <=> \E t \in Scripts : k \in owner_keys'[q][t]
    BY DEF TablesAgree
  <2>1. owners[k] = q <=> \E t \in Scripts : k \in owner_keys[q][t]
    BY DEF IInv, TablesAgree
  <2>2. CASE q # o
    <3>1. owners'[k] = q <=> owners[k] = q
      BY <1>r, <2>2, NobodyAssumption
    <3>2. \A t \in Scripts : owner_keys'[q][t] = owner_keys[q][t]
      BY <1>u, <2>2
    <3>3. QED
      BY <2>1, <3>1, <3>2
  <2>3. CASE q = o
    <3>1. owners'[k] = o <=> owners[k] = o /\ k \notin Freed(o, s)
      BY <1>r, NobodyAssumption
    <3>2. (\E t \in Scripts : k \in owner_keys'[o][t])
            <=> \E t \in Scripts \ {s} : k \in owner_keys[o][t]
      BY <1>u
    <3>3. QED
      BY <2>1, <2>3, <3>1, <3>2 DEF Freed, StillReserved
  <2>4. QED
    BY <2>2, <2>3
<1>3. ScriptKeyCoversResources'
  BY <1>u DEF IInv, ScriptKeyCoversResources
<1>4. OwnScriptKeyOnly'
  BY <1>u DEF IInv, OwnScriptKeyOnly
<1>5. PathsFollowKeys'
  <2> SUFFICES ASSUME NEW r \in Roots
               PROVE  r \in reserved_root_paths' <=> owners'[RootKey(r)] # Nobody
    BY DEF PathsFollowKeys
  <2>1. RootKey(r) \in Keys
    BY DEF Keys
  <2>2. r \in reserved_root_paths <=> owners[RootKey(r)] # Nobody
    BY DEF IInv, PathsFollowKeys
  <2>3. QED
    BY <1>r, <1>f, <2>1, <2>2
<1>6. RootsExclusive'
  BY <1>u DEF IInv, RootsExclusive
<1>7. QED
  BY <1>1, <1>2, <1>3, <1>4, <1>5, <1>6 DEF IInv

\* Every step keeps the invariant: a refused call changes the reply only.
LEMMA NextInvariant == IInv /\ [Next]_vars => IInv'
<1> SUFFICES ASSUME IInv, [Next]_vars PROVE IInv'
  OBVIOUS
<1>1. ASSUME NEW o \in Owners, NEW s \in Scripts, NEW roots \in SUBSET Roots,
             NEW emulators \in OptionalEmulator, Granted(o, s, roots, emulators)
      PROVE  IInv'
  BY <1>1, GrantedInvariant
<1>2. ASSUME NEW o \in Owners, NEW s \in Scripts, Release(o, s)
      PROVE  IInv'
  BY <1>2, ReleaseInvariant
<1>3. ASSUME UNCHANGED <<owners, owner_keys, reserved_root_paths>>, reply' \in Replies
      PROVE  IInv'
  BY <1>3 DEF IInv, TypeOK, TablesAgree, ScriptKeyCoversResources, OwnScriptKeyOnly,
              PathsFollowKeys, RootsExclusive
<1>4. CASE UNCHANGED vars
  <2>1. reply \in Replies
    BY DEF IInv, TypeOK
  <2>2. QED
    BY <1>3, <1>4, <2>1 DEF vars
<1>r. ASSUME NEW o \in Owners, NEW s \in Scripts, NEW roots \in SUBSET Roots,
             NEW emulators \in OptionalEmulator, Refused(o, s, roots, emulators)
      PROVE  IInv'
  <2>1. ResourceKeys(s, roots, emulators) \in SUBSET Keys
    BY RequestedKeys
  <2>2. reply' \in Replies
    BY <1>r, <2>1 DEF Refused, Replies, Answer
  <2>3. QED
    BY <1>3, <1>r, <2>2 DEF Refused
<1>n. ASSUME NEW o \in Owners, NEW s \in Scripts, ReleaseRefused(o, s)
      PROVE  IInv'
  <2>1. reply' \in Replies
    BY <1>n DEF ReleaseRefused, Replies, Answer
  <2>2. QED
    BY <1>3, <1>n, <2>1 DEF ReleaseRefused
<1>5. CASE Next
  BY <1>1, <1>2, <1>r, <1>n, <1>5 DEF Next
<1>6. QED
  BY <1>4, <1>5

\* The reservation table keeps its types in every behaviour.
THEOREM TypeCorrect == Spec => []TypeOK
<1>1. IInv => TypeOK
  BY DEF IInv
<1>2. QED
  BY InitInvariant, NextInvariant, <1>1, PTL DEF Spec

\* No two tasks ever occupy overlapping installation directories.
THEOREM RootsAlwaysExclusive == Spec => []RootsExclusive
<1>1. IInv => RootsExclusive
  BY DEF IInv
<1>2. QED
  BY InitInvariant, NextInvariant, <1>1, PTL DEF Spec

\* The key table, the per-owner table and the path table never diverge: no resource
\* leaks, none is freed while a script of its owner needs it, and the containment
\* test sees every root that is taken.
THEOREM TablesStayInStep == Spec => []TablesInStep
<1>1. IInv => TablesInStep
  BY DEF IInv, TablesInStep
<1>2. QED
  BY InitInvariant, NextInvariant, <1>1, PTL DEF Spec

-----------------------------------------------------------------------------
\* A taken key stays with its owner until it is free, in every behaviour.
THEOREM NeverTakenOver == Spec => NoTakeOver
<1>1. IInv /\ [Next]_vars =>
        [\A k \in Keys : owners[k] # Nobody => owners'[k] \in {owners[k], Nobody}]_vars
  <2> SUFFICES ASSUME IInv, Next, NEW k \in Keys, owners[k] # Nobody
               PROVE  owners'[k] \in {owners[k], Nobody}
    BY DEF vars
  <2>1. ASSUME NEW o \in Owners, NEW s \in Scripts, NEW roots \in SUBSET Roots,
               NEW emulators \in OptionalEmulator, Granted(o, s, roots, emulators)
        PROVE  owners'[k] \in {owners[k], Nobody}
    BY <2>1 DEF Granted, Grantable
  <2>2. ASSUME NEW o \in Owners, NEW s \in Scripts, Release(o, s)
        PROVE  owners'[k] \in {owners[k], Nobody}
    BY <2>2 DEF Release
  <2>3. QED
    BY <2>1, <2>2 DEF Next, Refused, ReleaseRefused
<1>2. QED
  BY InitInvariant, NextInvariant, <1>1, PTL DEF Spec, NoTakeOver

\* The two tests of try_acquire decide exactly whether the request is free of
\* clashes with what other owners hold.
LEMMA GrantableIffFree ==
  ASSUME IInv, NEW o \in Owners, NEW keys \in SUBSET Keys, NEW roots \in SUBSET Roots,
         \A r \in Roots : RootKey(r) \in keys <=> r \in roots
  PROVE  Grantable(o, keys, roots) <=> Locks!Free(o, keys)
<1>h. \A q \in Owners, k \in Keys : owners[k] = q <=> k \in Locks!HeldBy(q)
  BY DEF IInv, TablesAgree, Locks!HeldBy
<1>k. \A r \in Roots : RootKey(r) \in Keys
  BY DEF Keys
<1>p. \A p \in Roots : p \in reserved_root_paths <=> owners[RootKey(p)] # Nobody
  BY DEF IInv, PathsFollowKeys
<1>t. \A k \in Keys : owners[k] \in Owners \cup {Nobody}
  BY DEF IInv, TypeOK
<1>o. \A r, p : Locks!Overlap(r, p) <=> Overlap(r, p)
  BY DEF Locks!Overlap, Overlap
<1>c. \A k, l : Locks!Clash(k, l) <=>
        k = l \/ \E r, p \in Roots : k = RootKey(r) /\ l = RootKey(p) /\ Overlap(r, p)
  BY <1>o DEF Locks!Clash, Locks!RootKey, RootKey
<1>1. ASSUME Locks!Free(o, keys) PROVE Grantable(o, keys, roots)
  <2>f. \A q \in Owners \ {o} : \A k \in keys : \A l \in Locks!HeldBy(q) : ~Locks!Clash(k, l)
    BY <1>1 DEF Locks!Free
  <2>1. \A k \in keys : owners[k] \in {Nobody, o}
    BY <1>h, <1>t, <1>c, <2>f
  <2>2. ASSUME NEW p \in reserved_root_paths, owners[RootKey(p)] \notin {Nobody, o},
               NEW r \in roots, Overlap(r, p)
        PROVE  FALSE
    <3>1. p \in Roots
      BY DEF IInv, TypeOK
    <3>2. PICK q \in Owners \ {o} : owners[RootKey(p)] = q
      BY <1>k, <1>t, <2>2, <3>1
    <3>3. RootKey(p) \in Locks!HeldBy(q)
      BY <1>h, <1>k, <3>1, <3>2
    <3>4. RootKey(r) \in keys
      OBVIOUS
    <3>5. Locks!Clash(RootKey(r), RootKey(p))
      BY <1>c, <2>2, <3>1
    <3>6. QED
      BY <2>f, <3>3, <3>4, <3>5
  <2>3. QED
    BY <2>1, <2>2 DEF Grantable, RootConflict
<1>2. ASSUME Grantable(o, keys, roots) PROVE Locks!Free(o, keys)
  <2> SUFFICES ASSUME NEW q \in Owners \ {o}, NEW k \in keys, NEW l \in Locks!HeldBy(q),
                      Locks!Clash(k, l)
               PROVE  FALSE
    BY DEF Locks!Free
  <2>1. l \in Keys
    BY DEF IInv, TypeOK, Locks!HeldBy
  <2>2. owners[l] = q
    BY <1>h, <2>1
  <2>3. CASE k = l
    BY <1>2, <2>2, <2>3, NobodyAssumption DEF Grantable
  <2>4. ASSUME NEW r \in Roots, NEW p \in Roots,
               k = RootKey(r), l = RootKey(p), Overlap(r, p)
        PROVE  FALSE
    <3>1. r \in roots
      BY <2>4
    <3>2. p \in reserved_root_paths
      BY <1>p, <2>2, <2>4, NobodyAssumption
    <3>3. QED
      BY <1>2, <2>2, <2>4, <3>1, <3>2, NobodyAssumption DEF Grantable, RootConflict
  <2>5. QED
    BY <1>c, <2>3, <2>4
<1>3. QED
  BY <1>1, <1>2

\* The table implements the exclusive locks: it grants a request exactly when
\* the locks do, for any containment relation between the directories.
THEOREM LocksImplemented == Spec => ImplementsLocks
<1>1. Init => Locks!Init
  BY DEF Init, Locks!Init, NoReply, Locks!NoReply
<1>2. IInv /\ [Next]_vars => [Locks!Next]_<<owner_keys, reply>>
  <2> SUFFICES ASSUME IInv, Next PROVE Locks!Next
    BY DEF vars
  <2>k. Locks!Keys = Keys /\ \A s : Locks!ScriptKey(s) = ScriptKey(s)
    BY DEF Locks!Keys, Keys, Locks!ScriptKeys, Locks!ScriptKey, ScriptKey, Locks!RootKey, RootKey,
           Locks!EmulatorKey, EmulatorKey
  <2>1. ASSUME NEW o \in Owners, NEW s \in Scripts, NEW roots \in SUBSET Roots,
               NEW emulators \in OptionalEmulator,
               Granted(o, s, roots, emulators) \/ Refused(o, s, roots, emulators)
        PROVE  Locks!Next
    <3> DEFINE keys == ResourceKeys(s, roots, emulators)
    <3>1. /\ keys \in SUBSET Keys
          /\ ScriptKey(s) \in keys
          /\ \A t \in Scripts : ScriptKey(t) \in keys => t = s
          /\ \A r \in Roots : RootKey(r) \in keys <=> r \in roots
      BY RequestedKeys
    <3>2. Grantable(o, keys, roots) <=> Locks!Free(o, keys)
      BY <3>1, GrantableIffFree
    <3>3. Locks!Acquire(o, s, keys)
      BY <2>1, <3>2 DEF Granted, Refused, Locks!Acquire, Answer, Locks!Answer
    <3>4. keys \in Locks!Requests(s)
      <4>1. keys = {Locks!ScriptKey(s)} \cup (keys \ {Locks!ScriptKey(s)})
        BY <2>k, <3>1
      <4>2. keys \ {Locks!ScriptKey(s)} \in SUBSET (Locks!Keys \ Locks!ScriptKeys)
        BY <2>k, <3>1 DEF Locks!ScriptKeys
      <4>3. QED
        BY <4>1, <4>2 DEF Locks!Requests
    <3>5. QED
      BY <3>3, <3>4 DEF Locks!Next
  <2>2. ASSUME NEW o \in Owners, NEW s \in Scripts, Release(o, s) \/ ReleaseRefused(o, s)
        PROVE  Locks!Next
    <3>1. ScriptKey(s) \in Keys
      BY DEF Keys
    <3>2. owners[ScriptKey(s)] = o <=> ScriptKey(s) \in owner_keys[o][s]
      BY <3>1 DEF IInv, TablesAgree, OwnScriptKeyOnly
    <3>3. Locks!Release(o, s)
      BY <2>2, <2>k, <3>2 DEF Release, ReleaseRefused, Locks!Release, Answer, Locks!Answer
    <3>4. QED
      BY <3>3 DEF Locks!Next
  <2>3. QED
    BY <2>1, <2>2 DEF Next
<1>3. QED
  BY InitInvariant, NextInvariant, <1>1, <1>2, PTL DEF Spec, ImplementsLocks, Locks!Spec
=============================================================================
