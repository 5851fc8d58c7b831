--------------------------- MODULE ConfigStore_proofs ---------------------------
(* What the execution gate and the save worker keep for any number of      *)
(* actors, roots and retries.                                              *)
EXTENDS ConfigStore, FiniteSetTheorems, SequenceTheorems, WellFoundedInduction, TLAPS

-----------------------------------------------------------------------------
(* Sequences.                                                              *)

\* A set of numbers that is not empty has a least element.
LEMMA LeastElement ==
  ASSUME NEW S \in SUBSET Nat, S # {}
  PROVE  Min(S) \in S /\ \A y \in S : Min(S) <= y
<1>1. PICK x \in S : \A y \in S : ~ (<<y, x>> \in OpToRel(<, Nat))
  BY WFMin, NatLessThanWellFounded, Zenon
<1>2. \A y \in S : x <= y
  <2> SUFFICES ASSUME NEW y \in S PROVE x <= y
    OBVIOUS
  <2>1. x \in Nat /\ y \in Nat /\ <<y, x>> \in Nat \X Nat
    OBVIOUS
  <2>2. ~ (y < x)
    BY <1>1, <2>1, <<y, x>>[1] = y, <<y, x>>[2] = x DEF OpToRel
  <2>3. QED
    BY <2>1, <2>2
<1>3. QED
  BY <1>2 DEF Min

\* What is in a sequence is at one of its places.
LEMMA InSequence ==
  ASSUME NEW S, NEW s \in Seq(S), NEW x
  PROVE  x \in ToSet(s) <=> \E i \in 1..Len(s) : s[i] = x
  BY LenProperties DEF ToSet

\* The queue without one of its entries still has everybody else.
LEMMA RemovesOnlyOne ==
  ASSUME NEW S, NEW s \in Seq(S), NEW e, RemoveFirst(s, e) # s
  PROVE  /\ RemoveFirst(s, e) \in Seq(S)
         /\ \A x \in ToSet(s) : x # e => x \in ToSet(RemoveFirst(s, e))
<1> DEFINE I == {i \in 1..Len(s) : s[i] = e}
           k == Min(I)
<1>1. I \in SUBSET Nat /\ I # {}
  BY DEF RemoveFirst
<1>2. k \in 1..Len(s) /\ s[k] = e
  BY <1>1, LeastElement
<1> DEFINE u == SubSeq(s, 1, k - 1)
           v == SubSeq(s, k + 1, Len(s))
<1>3. RemoveFirst(s, e) = u \o v
  BY <1>1 DEF RemoveFirst, RemoveAt, SelectInSeq
<1> HIDE DEF I, k
<1>3a. k \in Int /\ Len(s) \in Nat /\ \A i \in 1..Len(s) : s[i] \in S
  BY <1>2, LenProperties, ElementOfSeq
<1>3b. u \in Seq(S) /\ Len(u) = k - 1 /\ \A i \in 1..(k - 1) : u[i] = s[i]
  <2>1. \A i \in 1..(k - 1) : s[i] \in S
    BY <1>2, <1>3a
  <2>2. /\ u \in Seq(S) /\ Len(u) = IF 1 <= k - 1 THEN k - 1 - 1 + 1 ELSE 0
        /\ \A i \in 1..(k - 1 - 1 + 1) : u[i] = s[1 + i - 1]
    BY <1>3a, <2>1, SubSeqProperties
  <2>3. QED
    BY <1>2, <1>3a, <2>2
<1>3c. v \in Seq(S) /\ Len(v) = Len(s) - k /\ \A i \in 1..(Len(s) - k) : v[i] = s[k + i]
  <2>1. \A i \in (k + 1)..Len(s) : s[i] \in S
    BY <1>2, <1>3a
  <2>2. /\ v \in Seq(S)
        /\ Len(v) = IF k + 1 <= Len(s) THEN Len(s) - (k + 1) + 1 ELSE 0
        /\ \A i \in 1..(Len(s) - (k + 1) + 1) : v[i] = s[k + 1 + i - 1]
    BY <1>3a, <2>1, SubSeqProperties
  <2>3. QED
    BY <1>2, <1>3a, <2>2
<1> HIDE DEF u, v
<1>4. /\ RemoveFirst(s, e) \in Seq(S) /\ Len(RemoveFirst(s, e)) = Len(u) + Len(v)
      /\ \A i \in 1..(Len(u) + Len(v)) :
           RemoveFirst(s, e)[i] = IF i <= Len(u) THEN u[i] ELSE v[i - Len(u)]
  <2>1. /\ u \o v \in Seq(S) /\ Len(u \o v) = Len(u) + Len(v)
        /\ \A i \in 1..(Len(u) + Len(v)) :
             (u \o v)[i] = IF i <= Len(u) THEN u[i] ELSE v[i - Len(u)]
    BY <1>3b, <1>3c, ConcatProperties, Zenon
  <2>2. QED
    BY <1>3, <2>1, Zenon
<1>5. ASSUME NEW x \in ToSet(s), x # e PROVE x \in ToSet(RemoveFirst(s, e))
  <2>1. PICK i \in 1..Len(s) : s[i] = x
    BY <1>5, InSequence
  <2>2. CASE i < k
    <3>1. i \in 1..Len(RemoveFirst(s, e)) /\ RemoveFirst(s, e)[i] = x
      BY <1>2, <1>3a, <1>3b, <1>3c, <1>4, <2>1, <2>2
    <3>2. QED
      BY <1>4, <3>1, InSequence
  <2>3. CASE i > k
    <3>0. /\ i - k \in 1..(Len(s) - k) /\ k + (i - k) = i /\ i - 1 - (k - 1) = i - k
          /\ i - 1 \in 1..(k - 1 + (Len(s) - k)) /\ ~ (i - 1 <= k - 1)
      BY <1>2, <1>3a, <2>3
    <3>1. i - 1 \in 1..Len(RemoveFirst(s, e)) /\ v[i - 1 - Len(u)] = s[i]
      BY <1>3b, <1>3c, <1>4, <3>0, Zenon
    <3>2. RemoveFirst(s, e)[i - 1] = IF i - 1 <= Len(u) THEN u[i - 1] ELSE v[i - 1 - Len(u)]
      BY <1>3b, <1>3c, <1>4, <3>0, Zenon
    <3>2a. RemoveFirst(s, e)[i - 1] = x
      <4>1. ~ (i - 1 <= Len(u))
        BY <1>3b, <3>0
      <4>2. QED
        BY <2>1, <3>1, <3>2, <4>1, Zenon
    <3>3. QED
      BY <1>4, <3>1, <3>2a, InSequence
  <2>4. QED
    BY <1>2, <1>5, <2>1, <2>2, <2>3
<1>6. QED
  BY <1>4, <1>5

\* The waiter the gate goes to: the first that still waits, when there is one.
LEMMA FirstWaiter ==
  ASSUME waiters \in Seq(Actors)
  PROVE  \/ Next1 = 0 /\ \A i \in 1..Len(waiters) : act[waiters[i]] # "waiting"
         \/ /\ Next1 \in 1..Len(waiters) /\ act[waiters[Next1]] = "waiting"
            /\ \A i \in 1..Len(waiters) : act[waiters[i]] = "waiting" => Next1 <= i
<1> DEFINE I == {i \in 1..Len(waiters) : act[waiters[i]] = "waiting"}
<1>1. Next1 = IF I # {} THEN Min(I) ELSE 0
  BY DEF Next1, SelectInSeq
<1>2. CASE I = {}
  BY <1>1, <1>2
<1>3. CASE I # {}
  <2>1. I \in SUBSET Nat
    OBVIOUS
  <2> HIDE DEF I
  <2>2. Min(I) \in I /\ \A y \in I : Min(I) <= y
    BY <1>3, <2>1, LeastElement
  <2> USE DEF I
  <2>3. QED
    BY <1>1, <1>3, <2>2
<1>4. QED
  BY <1>2, <1>3

-----------------------------------------------------------------------------
(* The gate.                                                               *)

\* Nobody queues at a free gate.
GateInv ==
  /\ GateTypeOK /\ GateNeverLost
  /\ owner = NoActor => waiters = <<>>

\* What anybody but the one who moves can see of a step of the gate: a waiter may be
\* granted the gate.
OthersOnlyGranted(a) ==
  \A b \in Actors \ {a} : act'[b] = act[b] \/ (act[b] = "waiting" /\ act'[b] = "granted")

LEMMA GateEntered ==
  ASSUME GateInv, NEW a \in Actors, EntersAtOnce(a)
  PROVE  GateInv' /\ act[a] = "idle" /\ act' = [act EXCEPT ![a] = "inside"]
<1> USE NoActorAssumption
<1>1. GateTypeOK' /\ \A b \in Actors : act'[b] = IF b = a THEN "inside" ELSE act[b]
  BY DEF EntersAtOnce, GateInv, GateTypeOK, ActStates
<1>2. GateNeverLost'
  BY <1>1 DEF EntersAtOnce, GateInv, GateNeverLost, Holding
<1>3. QED
  BY <1>1, <1>2 DEF EntersAtOnce, GateInv

LEMMA GateQueued ==
  ASSUME GateInv, NEW a \in Actors, EntersQueue(a)
  PROVE  GateInv' /\ act[a] = "idle" /\ act' = [act EXCEPT ![a] = "waiting"]
<1> USE NoActorAssumption
<1>1. owner # NoActor /\ UNCHANGED <<owner, depth>> /\ waiters' = Append(waiters, a)
  BY DEF EntersQueue, GateInv
<1>2. waiters \in Seq(Actors) /\ waiters' \in Seq(Actors)
  BY <1>1 DEF GateInv, GateTypeOK
<1>3. GateTypeOK' /\ \A b \in Actors : act'[b] = IF b = a THEN "waiting" ELSE act[b]
  BY <1>1, <1>2 DEF EntersQueue, GateInv, GateTypeOK, ActStates
<1>4. \A b \in Actors : b = a \/ b \in ToSet(waiters) => b \in ToSet(waiters')
  <2> SUFFICES ASSUME NEW b \in Actors, b = a \/ b \in ToSet(waiters) PROVE b \in ToSet(waiters')
    OBVIOUS
  <2>1. \E i \in 1..Len(waiters') : waiters'[i] = b
    <3>1. CASE b = a
      BY <1>1, <1>2, <3>1
    <3>2. CASE b \in ToSet(waiters)
      <4>1. PICK i \in 1..Len(waiters) : waiters[i] = b
        BY <1>2, <3>2, InSequence
      <4>2. QED
        BY <1>1, <1>2, <4>1
    <3>3. QED
      BY <3>1, <3>2
  <2>2. QED
    BY <1>2, <2>1, InSequence
<1>5. GateNeverLost'
  BY <1>1, <1>3, <1>4 DEF EntersQueue, GateInv, GateNeverLost, Holding
<1>6. QED
  BY <1>1, <1>3, <1>5 DEF EntersQueue, GateInv

LEMMA GateResumed ==
  ASSUME GateInv, NEW a \in Actors, Resumes(a)
  PROVE  GateInv' /\ act[a] = "granted" /\ act' = [act EXCEPT ![a] = "inside"]
<1>1. GateTypeOK' /\ \A b \in Actors : act'[b] = IF b = a THEN "inside" ELSE act[b]
  BY DEF Resumes, GateInv, GateTypeOK, ActStates
<1>2. GateNeverLost'
  BY <1>1 DEF Resumes, GateInv, GateNeverLost, Holding
<1>3. QED
  BY <1>1, <1>2 DEF Resumes, GateInv

LEMMA GateReentered ==
  ASSUME GateInv, NEW a \in Actors, Reenters(a) \/ LeavesInner(a)
  PROVE  GateInv' /\ UNCHANGED act
  BY DEF Reenters, LeavesInner, GateInv, GateTypeOK, GateNeverLost

LEMMA GateCancelled ==
  ASSUME GateInv, NEW a \in Actors, IsCancelled(a)
  PROVE  /\ GateInv' /\ act[a] \in {"waiting", "granted"} /\ act'[a] \in {"cancelled", "returning"}
         /\ \A b \in Actors \ {a} : act'[b] = act[b]
<1>1. GateTypeOK'
  BY DEF IsCancelled, GateInv, GateTypeOK, ActStates
<1>2. /\ act[a] = "waiting" => act'[a] = "cancelled"
      /\ act[a] = "granted" => act'[a] = "returning"
      /\ \A b \in Actors \ {a} : act'[b] = act[b]
  BY DEF IsCancelled, GateInv, GateTypeOK
<1>3. GateNeverLost'
  BY <1>2 DEF IsCancelled, GateInv, GateNeverLost, Holding
<1>4. QED
  BY <1>1, <1>2, <1>3 DEF IsCancelled, GateInv

\* The hand-over: the gate goes to the first that still waits, and to nobody only when
\* nobody waits.
LEMMA GateLeft ==
  ASSUME GateInv, NEW a \in Actors, NEW to \in {"idle", "outside"}, Leaves(a, to)
  PROVE  GateInv' /\ act[a] \in Holding /\ act'[a] = to /\ OthersOnlyGranted(a)
<1> USE NoActorAssumption
<1>1. act[a] \in Holding /\ waiters \in Seq(Actors)
  BY DEF Leaves, GateInv, GateTypeOK, GateNeverLost
<1>2. CASE Next1 = 0
  <2>1. \A b \in Actors : act[b] # "waiting"
    BY <1>1, <1>2, FirstWaiter, InSequence DEF GateInv, GateNeverLost
  <2>2. \A b \in Actors : act'[b] = IF b = a THEN to ELSE act[b]
    BY <1>2 DEF Leaves, GateInv, GateTypeOK
  <2>3. GateTypeOK' /\ waiters' = <<>>
    BY <1>2 DEF Leaves, GateInv, GateTypeOK, ActStates
  <2>4. GateNeverLost'
    BY <1>2, <2>1, <2>2 DEF Leaves, GateInv, GateNeverLost, Holding
  <2>5. QED
    BY <1>1, <2>2, <2>3, <2>4 DEF GateInv, OthersOnlyGranted
<1>3. CASE Next1 # 0
  <2> DEFINE k == Next1
             w == waiters[k]
  <2>1. /\ k \in 1..Len(waiters) /\ act[w] = "waiting"
        /\ \A i \in 1..Len(waiters) : act[waiters[i]] = "waiting" => k <= i
    BY <1>1, <1>3, FirstWaiter
  <2>2. w \in Actors /\ w # a
    BY <1>1, <2>1, ElementOfSeq DEF Holding
  <2>3. /\ owner' = w /\ depth' = 1 /\ waiters' = SubSeq(waiters, k + 1, Len(waiters))
        /\ act' = [act EXCEPT ![a] = to, ![w] = "granted"]
    BY <1>3 DEF Leaves
  <2> HIDE DEF k, w
  <2>4. \A b \in Actors : act'[b] = IF b = w THEN "granted" ELSE IF b = a THEN to ELSE act[b]
    BY <2>2, <2>3 DEF GateInv, GateTypeOK
  <2>5. /\ waiters' \in Seq(Actors) /\ Len(waiters') = Len(waiters) - k
        /\ \A i \in 1..(Len(waiters) - k) : waiters'[i] = waiters[k + i]
    <3>1. /\ k \in Int /\ k + 1 \in Int /\ Len(waiters) \in Int
          /\ \A i \in (k + 1)..Len(waiters) : waiters[i] \in Actors
      BY <1>1, <2>1, LenProperties, ElementOfSeq
    <3>2. /\ waiters' \in Seq(Actors)
          /\ Len(waiters') = IF k + 1 <= Len(waiters) THEN Len(waiters) - (k + 1) + 1 ELSE 0
          /\ \A i \in 1..(Len(waiters) - (k + 1) + 1) : waiters'[i] = waiters[k + 1 + i - 1]
      BY <2>3, <3>1, SubSeqProperties
    <3>3. Len(waiters') = Len(waiters) - k
      BY <2>1, <3>1, <3>2
    <3>4. ASSUME NEW i \in 1..(Len(waiters) - k) PROVE waiters'[i] = waiters[k + i]
      <4>1. i \in 1..(Len(waiters) - (k + 1) + 1) /\ k + 1 + i - 1 = k + i
        BY <2>1, <3>1
      <4>2. waiters'[i] = waiters[k + 1 + i - 1]
        BY <3>2, <4>1
      <4>3. QED
        BY <4>1, <4>2, Zenon
    <3>5. QED
      BY <3>2, <3>3, <3>4
  <2>6. GateTypeOK'
    BY <2>2, <2>3, <2>5 DEF GateInv, GateTypeOK, ActStates
  <2>7. ASSUME NEW b \in Actors, act'[b] = "waiting" PROVE b \in ToSet(waiters')
    <3>1. act[b] = "waiting" /\ b # w
      BY <2>4, <2>7
    <3>2. PICK i \in 1..Len(waiters) : waiters[i] = b
      BY <1>1, <3>1, InSequence DEF GateInv, GateNeverLost
    <3>3. i > k
      BY <1>1, <2>1, <3>1, <3>2 DEF w
    <3>4. i - k \in 1..(Len(waiters) - k) /\ k + (i - k) = i
      BY <2>1, <3>3
    <3>5. waiters'[i - k] = b
      BY <2>5, <3>2, <3>4
    <3>6. QED
      BY <2>5, <3>4, <3>5, InSequence
  <2>8. GateNeverLost'
    BY <1>1, <2>1, <2>2, <2>3, <2>4, <2>7 DEF Leaves, GateInv, GateNeverLost, Holding
  <2>9. QED
    BY <1>1, <2>1, <2>2, <2>3, <2>4, <2>6, <2>8 DEF GateInv, OthersOnlyGranted
<1>4. QED
  BY <1>2, <1>3

\* A cancelled actor hands the gate on when it was granted it, or leaves the queue.
LEMMA GateGivenUp ==
  ASSUME GateInv, NEW a \in Actors, GivesUp(a, "idle")
  PROVE  /\ GateInv' /\ act[a] \in {"cancelled", "returning"} /\ act'[a] = "idle"
         /\ OthersOnlyGranted(a)
<1>1. CASE act[a] = "returning" /\ Leaves(a, "idle")
  BY <1>1, GateLeft
<1>2. CASE /\ act[a] = "cancelled" /\ waiters' = RemoveFirst(waiters, a)
           /\ act' = [act EXCEPT ![a] = "idle"] /\ UNCHANGED <<owner, depth>>
  <2>1. \A b \in Actors : act'[b] = IF b = a THEN "idle" ELSE act[b]
    BY <1>2 DEF GateInv, GateTypeOK
  <2>2. /\ waiters' \in Seq(Actors)
        /\ \A b \in Actors \ {a} : b \in ToSet(waiters) => b \in ToSet(waiters')
    BY <1>2, RemovesOnlyOne DEF GateInv, GateTypeOK
  <2>3. GateTypeOK'
    BY <1>2, <2>2 DEF GateInv, GateTypeOK, ActStates
  <2>4. GateNeverLost'
    BY <1>2, <2>1, <2>2 DEF GateInv, GateNeverLost, Holding
  <2>5. owner' = NoActor => waiters' = <<>>
    BY <1>2 DEF GateInv, RemoveFirst
  <2>6. QED
    BY <1>2, <2>1, <2>3, <2>4, <2>5 DEF GateInv, OthersOnlyGranted
<1>3. QED
  BY <1>1, <1>2 DEF GivesUp

-----------------------------------------------------------------------------
(* The inductive invariant of the store.                                   *)

Callers == Writers \cup Threads

\* A transaction has been asked for and has not come to its end.
UnderWay == {"waiting", "cancelled", "granted", "returning", "inside"}

Pending == {a \in Callers : act[a] \in UnderWay}

\* A root was changed at most as often as transactions were asked for and are over.
ChangesAreCalls == \A r \in Roots : revision[r] + Cardinality(Pending) <= calls

\* A round of saving goes on only inside the gate.
RoundInGate ==
  /\ worker = "saving" => act[Worker] = "inside"
  /\ force => act[Flusher] = "inside"
  /\ todo # {} => worker = "saving" \/ force

\* A root that is to be tried again has retries left.
RetriesLeft ==
  \A r \in Roots : _save_failures[r] # None /\ _save_failures[r].next_retry # "never"
    => _save_failures[r].retry_count < MaxRetries

Inv == GateInv /\ TypeOK /\ ChangesAreCalls /\ RoundInGate /\ RetriesLeft /\ NothingForgotten

-----------------------------------------------------------------------------
(* What the steps of the gate leave of it.                                 *)

LEMMA Distinct ==
  /\ Worker \in Actors /\ Flusher \in Actors /\ Worker # Flusher
  /\ Callers \subseteq Actors /\ Worker \notin Callers /\ Flusher \notin Callers
  BY ActorAssumption DEF Tasks, Callers

LEMMA PendingFinite ==
  IsFiniteSet(Pending) /\ Cardinality(Pending) \in Nat
  BY Distinct, ActorAssumption, FS_Subset, FS_CardinalityType DEF Pending

LEMMA OneMore ==
  ASSUME NEW S, NEW T, NEW a, IsFiniteSet(S), T \subseteq S \cup {a}
  PROVE  Cardinality(T) \in Nat /\ Cardinality(T) <= Cardinality(S) + 1
<1>1. IsFiniteSet(S \cup {a}) /\ Cardinality(S \cup {a}) <= Cardinality(S) + 1
  <2>1. Cardinality(S) \in Nat
    BY FS_CardinalityType
  <2>2. /\ IsFiniteSet(S \cup {a})
        /\ Cardinality(S \cup {a}) = IF a \in S THEN Cardinality(S) ELSE Cardinality(S) + 1
    BY FS_AddElement
  <2>3. QED
    BY <2>1, <2>2
<1>2. QED
  BY <1>1, FS_Subset, FS_CardinalityType

LEMMA OneLess ==
  ASSUME NEW S, NEW T, NEW a \in S, IsFiniteSet(S), T \subseteq S \ {a}
  PROVE  Cardinality(T) \in Nat /\ Cardinality(T) + 1 <= Cardinality(S)
<1>1. IsFiniteSet(S \ {a}) /\ Cardinality(S \ {a}) = Cardinality(S) - 1
  BY FS_RemoveElement
<1>2. QED
  BY <1>1, FS_Subset, FS_CardinalityType

LEMMA OneMoves ==
  ASSUME GateInv, NEW a \in Actors, NEW to, act' = [act EXCEPT ![a] = to]
  PROVE  OthersOnlyGranted(a) /\ act'[a] = to
  BY DEF GateInv, GateTypeOK, OthersOnlyGranted

\* A call that begins is counted.
LEMMA CallCounted ==
  ASSUME Inv, NEW a \in Actors, OthersOnlyGranted(a), UNCHANGED revision, calls' = calls + 1
  PROVE  ChangesAreCalls'
<1>1. Pending' \subseteq Pending \cup {a}
  BY Distinct DEF Pending, UnderWay, OthersOnlyGranted
<1>2. Cardinality(Pending') \in Nat /\ Cardinality(Pending') <= Cardinality(Pending) + 1
  BY <1>1, PendingFinite, OneMore
<1>3. QED
  BY <1>2, PendingFinite, BoundAssumption DEF Inv, TypeOK, ChangesAreCalls

\* A call that goes on, or ends without a change, leaves the count alone.
LEMMA CallGoesOn ==
  ASSUME Inv, NEW a \in Actors, OthersOnlyGranted(a),
         a \in Callers => act[a] \in UnderWay \/ act'[a] \notin UnderWay,
         UNCHANGED <<revision, calls>>
  PROVE  ChangesAreCalls'
<1>1. Pending' \subseteq Pending
  BY Distinct DEF Pending, UnderWay, OthersOnlyGranted
<1>2. Cardinality(Pending') \in Nat /\ Cardinality(Pending') <= Cardinality(Pending)
  BY <1>1, PendingFinite, FS_Subset, FS_CardinalityType
<1>3. QED
  BY <1>2, PendingFinite, BoundAssumption DEF Inv, TypeOK, ChangesAreCalls

\* A call that ends changes each root once at most.
LEMMA CallEnds ==
  ASSUME Inv, NEW a \in Callers, OthersOnlyGranted(a),
         act[a] \in UnderWay, act'[a] \notin UnderWay, UNCHANGED calls,
         NEW S \in SUBSET Roots, Commits(S)
  PROVE  ChangesAreCalls' /\ revision' \in [Roots -> 0..MaxCalls]
<1>1. a \in Pending /\ Pending' \subseteq Pending \ {a}
  BY Distinct DEF Pending, UnderWay, OthersOnlyGranted
<1>2. Cardinality(Pending') \in Nat /\ Cardinality(Pending') + 1 <= Cardinality(Pending)
  BY <1>1, PendingFinite, OneLess
<1>3. \A r \in Roots : revision'[r] \in Nat /\ revision'[r] <= revision[r] + 1
  BY BoundAssumption DEF Inv, TypeOK, Commits
<1>4. \A r \in Roots : revision'[r] + Cardinality(Pending') <= calls
  BY <1>2, <1>3, PendingFinite, BoundAssumption DEF Inv, TypeOK, ChangesAreCalls
<1>5. \A r \in Roots : revision'[r] \in 0..MaxCalls
  BY <1>2, <1>3, <1>4, BoundAssumption DEF Inv, TypeOK
<1>6. QED
  BY <1>4, <1>5 DEF ChangesAreCalls, Commits

\* Nobody but the worker and the flusher can end their rounds.
LEMMA RoundUndisturbed ==
  ASSUME Inv, NEW a \in Actors, OthersOnlyGranted(a), UNCHANGED <<todo, force>>,
         a = Worker => worker # "saving", a = Flusher => ~force,
         worker' = "saving" <=> worker = "saving"
  PROVE  RoundInGate'
  BY Distinct DEF Inv, RoundInGate, OthersOnlyGranted

\* What was to be written still is, when nothing but the gate moves.
LEMMA StillKnown ==
  ASSUME Inv, NEW a \in Actors, OthersOnlyGranted(a), act[a] # "outside",
         _save_requested => _save_requested',
         UNCHANGED <<revision, written, _save_failures, todo, full, force>>
  PROVE  NothingForgotten' /\ RetriesLeft'
<1>1. \A t \in Threads : act[t] = "outside" => act'[t] = "outside"
  BY ActorAssumption DEF OthersOnlyGranted
<1>2. QED
  BY <1>1 DEF Inv, NothingForgotten, Wants, RetriesLeft

-----------------------------------------------------------------------------
(* Steps that leave the gate alone.                                        *)

LEMMA SameGate ==
  ASSUME Inv, UNCHANGED <<gateVars, revision, calls>>
  PROVE  GateInv' /\ GateTypeOK' /\ ChangesAreCalls'
<1>1. GateInv' /\ GateTypeOK'
  BY DEF Inv, GateInv, GateTypeOK, GateNeverLost, gateVars
<1>2. Pending' = Pending
  BY DEF Pending, gateVars
<1>3. QED
  BY <1>1, <1>2 DEF Inv, ChangesAreCalls

LEMMA WorkerSetOff ==
  ASSUME Inv, NEW due, EnsureWorker(worker, due)
  PROVE  /\ worker' \in WorkerStates /\ event' \in BOOLEAN /\ stranded' \in BOOLEAN
         /\ worker' = "saving" <=> worker = "saving"
  BY DEF Inv, TypeOK, EnsureWorker, WorkerStates

LEMMA TimeStep ==
  ASSUME Inv, QuietPeriodEnds \/ EventIsSet \/ \E r \in Roots : RetryComesDue(r)
  PROVE  Inv'
<1>1. CASE QuietPeriodEnds
  <2>1. GateInv' /\ GateTypeOK' /\ ChangesAreCalls'
    BY <1>1, SameGate DEF QuietPeriodEnds, boundVars
  <2>2. TypeOK'
    BY <1>1, <2>1 DEF QuietPeriodEnds, Inv, TypeOK, roundVars, boundVars
  <2>3. RoundInGate' /\ RetriesLeft' /\ NothingForgotten'
    BY <1>1 DEF QuietPeriodEnds, Inv, RoundInGate, RetriesLeft, NothingForgotten, Wants,
                gateVars, roundVars
  <2>4. QED
    BY <2>1, <2>2, <2>3 DEF Inv
<1>2. CASE EventIsSet
  <2>1. GateInv' /\ GateTypeOK' /\ ChangesAreCalls'
    BY <1>2, SameGate DEF EventIsSet, boundVars
  <2>2. TypeOK'
    BY <1>2, <2>1 DEF EventIsSet, Inv, TypeOK, saveVars, roundVars, boundVars
  <2>3. RoundInGate' /\ RetriesLeft' /\ NothingForgotten'
    BY <1>2 DEF EventIsSet, Inv, RoundInGate, RetriesLeft, NothingForgotten, Wants,
                gateVars, saveVars, roundVars
  <2>4. QED
    BY <2>1, <2>2, <2>3 DEF Inv
<1>3. ASSUME NEW r \in Roots, RetryComesDue(r) PROVE Inv'
  <2>1. GateInv' /\ GateTypeOK' /\ ChangesAreCalls'
    BY <1>3, SameGate DEF RetryComesDue, boundVars
  <2>2. /\ _save_failures[r] \in Failure
        /\ _save_failures' = [_save_failures EXCEPT ![r] = [@ EXCEPT !.next_retry = "passed"]]
        /\ [_save_failures[r] EXCEPT !.next_retry = "passed"] \in Failure
    BY <1>3 DEF RetryComesDue, Inv, TypeOK, Failure
  <2>3. TypeOK'
    BY <1>3, <2>1, <2>2 DEF RetryComesDue, Inv, TypeOK, roundVars, boundVars
  <2>4. /\ _save_failures'[r] # None
        /\ _save_failures'[r].retry_count = _save_failures[r].retry_count
        /\ \A q \in Roots \ {r} : _save_failures'[q] = _save_failures[q]
    BY <2>2, NoneAssumption DEF Inv, TypeOK, Failure
  <2>5. RetriesLeft'
    BY <1>3, <2>4 DEF RetryComesDue, Inv, RetriesLeft
  <2>6. NothingForgotten'
    BY <1>3, <2>4 DEF RetryComesDue, Inv, NothingForgotten, Wants, gateVars, roundVars
  <2>7. RoundInGate'
    BY <1>3 DEF RetryComesDue, Inv, RoundInGate, gateVars, roundVars
  <2>8. QED
    BY <2>1, <2>3, <2>5, <2>6, <2>7 DEF Inv
<1>4. QED
  BY <1>1, <1>2, <1>3

\* The worker looks at the clock, sleeps and wakes up.
LEMMA WorkerLooks ==
  ASSUME Inv, ClearsEvent \/ ReadsDeadline \/ WakesUp \/ WorkerDone
  PROVE  Inv'
<1>1. /\ UNCHANGED <<gateVars, revision, written, saveVars, roundVars, boundVars, ring>>
      /\ worker' \in WorkerStates /\ event' \in BOOLEAN /\ stranded' \in BOOLEAN
      /\ worker # "saving" /\ worker' # "saving"
  BY DEF ClearsEvent, ReadsDeadline, WakesUp, WorkerDone, Moves, EnsureWorker, WorkerStates, Inv, TypeOK,
         Due, NextSaveDue
<1>2. GateInv' /\ GateTypeOK' /\ ChangesAreCalls'
  BY <1>1, SameGate DEF boundVars
<1>3. TypeOK'
  BY <1>1, <1>2 DEF Inv, TypeOK, saveVars, roundVars, boundVars
<1>4. RoundInGate' /\ RetriesLeft' /\ NothingForgotten'
  BY <1>1 DEF Inv, RoundInGate, RetriesLeft, NothingForgotten, Wants, gateVars, saveVars, roundVars
<1>5. QED
  BY <1>2, <1>3, <1>4 DEF Inv

\* A root of the round is skipped, written, or fails.
LEMMA RoundStep ==
  ASSUME Inv, NEW r \in Roots, SkipsRoot(r) \/ WritesRoot(r) \/ FailsRoot(r)
  PROVE  Inv'
<1>1. GateInv' /\ GateTypeOK' /\ ChangesAreCalls' /\ RoundInGate'
  <2>1. /\ UNCHANGED <<gateVars, revision, calls, worker, force>>
        /\ todo' \subseteq todo
    BY DEF SkipsRoot, WritesRoot, FailsRoot, roundVars, boundVars
  <2>2. QED
    BY <2>1, SameGate DEF Inv, RoundInGate, gateVars
<1>2. CASE SkipsRoot(r)
  <2>1. TypeOK'
    BY <1>1, <1>2 DEF SkipsRoot, Inv, TypeOK, saveVars, boundVars
  <2>2. RetriesLeft' /\ NothingForgotten'
    BY <1>2 DEF SkipsRoot, Inv, RetriesLeft, NothingForgotten, Wants, gateVars, saveVars
  <2>3. QED
    BY <1>1, <2>1, <2>2 DEF Inv
<1>3. CASE WritesRoot(r)
  <2>1. TypeOK'
    BY <1>1, <1>3 DEF WritesRoot, Inv, TypeOK, boundVars
  <2>2. RetriesLeft' /\ NothingForgotten'
    BY <1>3 DEF WritesRoot, Inv, TypeOK, RetriesLeft, NothingForgotten, Wants, gateVars
  <2>3. QED
    BY <1>1, <2>1, <2>2 DEF Inv
<1>4. CASE FailsRoot(r)
  <2> DEFINE previous == _save_failures[r]
             count == IF previous = None THEN 0
                      ELSE previous.retry_count + (IF ~force /\ previous.io THEN 1 ELSE 0)
  <2>1. count \in 0..MaxRetries
    <3>1. CASE previous = None
      BY <3>1, BoundAssumption
    <3>2. CASE previous # None
      <4>1. previous \in Failure /\ previous.retry_count \in 0..MaxRetries /\ previous.io \in BOOLEAN
        BY <3>2 DEF Inv, TypeOK, Failure
      <4>2. ~force /\ previous.io => previous.retry_count < MaxRetries
        BY <1>4, <3>2 DEF FailsRoot, Wants, Inv, RetriesLeft
      <4>3. QED
        BY <3>2, <4>1, <4>2, BoundAssumption
    <3>3. QED
      BY <3>1, <3>2
  <2> HIDE DEF count
  <2>2. PICK io \in BOOLEAN : _save_failures' = [_save_failures EXCEPT ![r] =
          [revision |-> revision[r], io |-> io, retry_count |-> count,
           next_retry |-> IF RetryAllowed(io, count) THEN "ahead" ELSE "never"]]
    BY <1>4 DEF FailsRoot, count
  <2> DEFINE f == [revision |-> revision[r], io |-> io, retry_count |-> count,
                   next_retry |-> IF RetryAllowed(io, count) THEN "ahead" ELSE "never"]
  <2>3. f \in Failure /\ f # None
    BY <2>1, NoneAssumption DEF Failure, Inv, TypeOK
  <2>4. f.next_retry # "never" => f.retry_count < MaxRetries
    BY DEF RetryAllowed
  <2>5. /\ _save_failures' \in [Roots -> {None} \cup Failure] /\ _save_failures'[r] = f
        /\ \A q \in Roots \ {r} : _save_failures'[q] = _save_failures[q]
    BY <2>2, <2>3 DEF Inv, TypeOK
  <2> HIDE DEF f
  <2>6. TypeOK'
    BY <1>1, <1>4, <2>5, BoundAssumption DEF FailsRoot, Inv, TypeOK
  <2>7. RetriesLeft'
    BY <2>3, <2>4, <2>5 DEF Inv, RetriesLeft
  <2>8. NothingForgotten'
    BY <1>4, <2>3, <2>5 DEF FailsRoot, Inv, NothingForgotten, Wants, gateVars
  <2>9. QED
    BY <1>1, <2>6, <2>7, <2>8 DEF Inv
<1>5. QED
  BY <1>2, <1>3, <1>4

-----------------------------------------------------------------------------
(* Steps of the gate.                                                      *)

\* An actor enters, queues, is cancelled, or gives up.
LEMMA CallStep ==
  ASSUME Inv, NEW a \in Actors, GateInv', OthersOnlyGranted(a),
         act[a] # "outside", act'[a] # "outside",
         a = Worker => worker # "saving", a = Flusher => act[a] # "inside",
         \/ UNCHANGED calls /\ (act[a] = "idle" => a = Worker \/ act'[a] = "idle")
         \/ Called,
         worker' \in WorkerStates, worker' = "saving" <=> worker = "saving",
         event' \in BOOLEAN, stranded' \in BOOLEAN,
         UNCHANGED <<revision, written, saveVars, ring, roundVars, failures, deaths>>
  PROVE  Inv'
<1>1. ChangesAreCalls'
  <2>1. CASE calls' = calls + 1
    BY <2>1, CallCounted
  <2>2. CASE UNCHANGED calls /\ (act[a] = "idle" => a = Worker \/ act'[a] = "idle")
    <3>1. act[a] \in ActStates
      BY DEF Inv, GateInv, GateTypeOK
    <3>2. a \in Callers => act[a] \in UnderWay \/ act'[a] \notin UnderWay
      BY <2>2, <3>1, Distinct DEF UnderWay, ActStates
    <3>3. QED
      BY <2>2, <3>2, CallGoesOn
  <2>3. QED
    BY <2>1, <2>2 DEF Called
<1>2. TypeOK'
  BY BoundAssumption DEF Inv, TypeOK, GateInv, Called, saveVars, roundVars
<1>3. RoundInGate'
  <2>1. a = Flusher => ~force
    BY DEF Inv, RoundInGate
  <2>2. QED
    BY <2>1, RoundUndisturbed DEF roundVars
<1>4. NothingForgotten' /\ RetriesLeft'
  BY StillKnown DEF saveVars, roundVars
<1>5. QED
  BY <1>1, <1>2, <1>3, <1>4 DEF Inv

LEMMA TaskStep ==
  ASSUME Inv, NEW a \in Writers \cup {Flusher},
         TaskEnters(a) \/ TaskQueues(a) \/ TaskIsCancelled(a)
  PROVE  Inv'
<1>0. a \in Actors /\ a # Worker /\ GateInv /\ worker \in WorkerStates /\ event \in BOOLEAN /\ stranded \in BOOLEAN
  BY Distinct DEF Callers, Inv, TypeOK
<1>1. CASE TaskEnters(a)
  <2>1. /\ GateInv' /\ OthersOnlyGranted(a) /\ act'[a] = "inside"
        /\ (Called /\ act[a] = "idle") \/ (UNCHANGED calls /\ act[a] = "granted")
    BY <1>0, <1>1, GateEntered, GateResumed, OneMoves DEF TaskEnters
  <2>2. /\ worker' \in WorkerStates /\ event' \in BOOLEAN /\ stranded' \in BOOLEAN
        /\ worker' = "saving" <=> worker = "saving"
    BY <1>1, WorkerSetOff DEF TaskEnters
  <2>3. UNCHANGED <<revision, written, saveVars, ring, roundVars, failures, deaths>>
    BY <1>1 DEF TaskEnters
  <2>4. QED
    BY <1>0, <2>1, <2>2, <2>3, CallStep
<1>2. CASE TaskQueues(a)
  <2>1. GateInv' /\ OthersOnlyGranted(a) /\ act[a] = "idle" /\ act'[a] = "waiting" /\ Called
    BY <1>0, <1>2, GateQueued, OneMoves DEF TaskQueues
  <2>2. UNCHANGED <<revision, written, saveVars, worker, event, ring, roundVars, stranded, failures, deaths>>
    BY <1>2 DEF TaskQueues
  <2>3. QED
    BY <1>0, <2>1, <2>2, CallStep
<1>3. CASE TaskIsCancelled(a)
  <2>1. /\ GateInv' /\ OthersOnlyGranted(a) /\ act[a] \in {"waiting", "granted"}
        /\ act'[a] \in {"cancelled", "returning"}
    BY <1>0, <1>3, GateCancelled DEF TaskIsCancelled, OthersOnlyGranted
  <2>2. UNCHANGED <<revision, written, saveVars, worker, event, ring, roundVars, stranded, calls, failures, deaths>>
    BY <1>3 DEF TaskIsCancelled, boundVars
  <2>3. QED
    BY <1>0, <2>1, <2>2, CallStep
<1>4. QED
  BY <1>1, <1>2, <1>3

LEMMA WriterGivesUpStep ==
  ASSUME Inv, NEW a \in Writers, WriterGivesUp(a)
  PROVE  Inv'
<1>1. a \in Actors /\ a # Worker /\ a # Flusher /\ GateInv
      /\ worker \in WorkerStates /\ event \in BOOLEAN /\ stranded \in BOOLEAN
  BY Distinct DEF Callers, Inv, TypeOK
<1>2. /\ GateInv' /\ OthersOnlyGranted(a) /\ act[a] \in {"cancelled", "returning"} /\ act'[a] = "idle"
  BY <1>1, GateGivenUp DEF WriterGivesUp
<1>3. UNCHANGED <<revision, written, saveVars, worker, event, ring, roundVars, stranded, calls, failures, deaths>>
  BY DEF WriterGivesUp, boundVars
<1>4. QED
  BY <1>1, <1>2, <1>3, CallStep

LEMMA NestedStep ==
  ASSUME Inv, NEW a \in Actors, Nested(a)
  PROVE  Inv'
<1>1. GateInv' /\ UNCHANGED act
  BY GateReentered DEF Nested, Inv
<1>2. UNCHANGED <<revision, written, saveVars, worker, event, ring, roundVars, stranded, boundVars>>
  BY DEF Nested
<1>3. Pending' = Pending
  BY <1>1 DEF Pending
<1>4. QED
  BY <1>1, <1>2, <1>3
  DEF Inv, GateInv, TypeOK, ChangesAreCalls, RoundInGate, RetriesLeft, NothingForgotten, Wants,
      saveVars, roundVars, boundVars

\* A transaction of a task: it commits, leaves and settles in one step.
LEMMA TransactionStep ==
  ASSUME Inv, NEW a \in Writers, Transaction(a)
  PROVE  Inv'
<1>1. a \in Actors /\ a \in Callers /\ a # Worker /\ a # Flusher /\ GateInv
  BY Distinct DEF Callers, Inv
<1>2. GateInv' /\ OthersOnlyGranted(a) /\ act[a] = "inside" /\ act'[a] = "idle"
  BY <1>1, GateLeft DEF Transaction
<1>3. PICK S \in SUBSET Roots : Commits(S) /\ Settles(S # {})
  BY DEF Transaction
<1>4. ChangesAreCalls' /\ revision' \in [Roots -> 0..MaxCalls]
  BY <1>1, <1>2, <1>3, CallEnds DEF UnderWay, Transaction, boundVars
<1>5. /\ worker' \in WorkerStates /\ event' \in BOOLEAN /\ stranded' \in BOOLEAN
      /\ worker' = "saving" <=> worker = "saving"
  BY WorkerSetOff DEF Transaction
<1>6. /\ UNCHANGED <<written, _save_failures, todo, full, force, calls, failures, deaths>>
      /\ _save_requested' = (_save_requested \/ S # {}) /\ quiet' \in BOOLEAN /\ ring' \in BOOLEAN
  BY <1>3 DEF Transaction, Settles, roundVars, boundVars
<1>7. TypeOK'
  BY <1>2, <1>4, <1>5, <1>6 DEF Inv, TypeOK, GateInv
<1>8. RoundInGate'
  BY <1>1, <1>2, <1>5, <1>6, RoundUndisturbed
<1>9. NothingForgotten'
  <2>1. CASE S # {}
    BY <1>6, <2>1 DEF NothingForgotten
  <2>2. CASE S = {}
    <3>1. UNCHANGED revision
      BY <1>3, <2>2 DEF Commits, Inv, TypeOK
    <3>2. QED
      BY <1>1, <1>2, <1>6, <3>1, StillKnown
  <2>3. QED
    BY <2>1, <2>2
<1>10. RetriesLeft'
  BY <1>6 DEF Inv, RetriesLeft
<1>11. QED
  BY <1>2, <1>4, <1>7, <1>8, <1>9, <1>10 DEF Inv

LEMMA ThreadStepInv ==
  ASSUME Inv, NEW t \in Threads, ThreadEnters(t) \/ ThreadCommits(t) \/ ThreadSettles(t)
  PROVE  Inv'
<1>0. /\ t \in Actors /\ t \in Callers /\ t # Worker /\ t # Flusher /\ GateInv
      /\ worker \in WorkerStates /\ event \in BOOLEAN /\ stranded \in BOOLEAN
  BY Distinct DEF Callers, Inv, TypeOK
<1>1. CASE ThreadEnters(t)
  <2>1. /\ GateInv' /\ OthersOnlyGranted(t) /\ act'[t] \in {"inside", "waiting"}
        /\ (Called /\ act[t] = "idle") \/ (UNCHANGED calls /\ act[t] = "granted")
    BY <1>0, <1>1, GateEntered, GateQueued, GateResumed, OneMoves DEF ThreadEnters
  <2>2. UNCHANGED <<revision, written, saveVars, worker, event, ring, roundVars, stranded, failures, deaths>>
    BY <1>1 DEF ThreadEnters
  <2>3. QED
    BY <1>0, <2>1, <2>2, CallStep
<1>2. CASE ThreadCommits(t)
  <2>1. GateInv' /\ OthersOnlyGranted(t) /\ act[t] = "inside" /\ act'[t] = "outside"
    BY <1>0, <1>2, GateLeft DEF ThreadCommits
  <2>2. UNCHANGED <<written, saveVars, worker, event, ring, roundVars, stranded, boundVars>>
    BY <1>2 DEF ThreadCommits
  <2>3. PICK S \in SUBSET Roots : Commits(S)
    BY <1>2 DEF ThreadCommits
  <2>4. ChangesAreCalls' /\ revision' \in [Roots -> 0..MaxCalls]
    BY <1>0, <2>1, <2>2, <2>3, CallEnds DEF UnderWay, boundVars
  <2>5. TypeOK'
    BY <2>1, <2>2, <2>4 DEF Inv, TypeOK, GateInv, saveVars, roundVars, boundVars
  <2>6. RoundInGate'
    BY <1>0, <2>1, <2>2, RoundUndisturbed DEF roundVars
  <2>7. RetriesLeft' /\ NothingForgotten'
    BY <2>1, <2>2 DEF Inv, RetriesLeft, NothingForgotten, saveVars
  <2>8. QED
    BY <2>1, <2>4, <2>5, <2>6, <2>7 DEF Inv
<1>3. CASE ThreadSettles(t)
  <2>1. /\ act' = [act EXCEPT ![t] = "idle"] /\ act[t] = "outside"
        /\ UNCHANGED <<owner, depth, waiters, revision, written, _save_failures, worker, event, todo, full, force,
                       calls, failures, deaths>>
        /\ _save_requested' = TRUE /\ quiet' \in BOOLEAN /\ ring' \in BOOLEAN /\ stranded' \in BOOLEAN
    BY <1>3 DEF ThreadSettles, Settles, roundVars, boundVars, Inv, TypeOK
  <2>2. OthersOnlyGranted(t) /\ act'[t] = "idle"
    BY <1>0, <2>1, OneMoves
  <2>3. GateInv'
    <3>1. \A b \in Actors : act'[b] = IF b = t THEN "idle" ELSE act[b]
      BY <2>1 DEF Inv, GateInv, GateTypeOK
    <3>2. GateTypeOK'
      BY <2>1 DEF Inv, GateInv, GateTypeOK, ActStates
    <3>3. GateNeverLost'
      BY <2>1, <3>1 DEF Inv, GateInv, GateNeverLost, Holding
    <3>4. QED
      BY <2>1, <3>2, <3>3 DEF Inv, GateInv
  <2>4. ChangesAreCalls'
    BY <1>0, <2>1, <2>2, CallGoesOn DEF UnderWay
  <2>5. TypeOK'
    BY <2>1, <2>3 DEF Inv, TypeOK, GateInv
  <2>6. RoundInGate'
    BY <1>0, <2>1, <2>2, RoundUndisturbed
  <2>7. RetriesLeft' /\ NothingForgotten'
    BY <2>1 DEF Inv, RetriesLeft, NothingForgotten
  <2>8. QED
    BY <2>3, <2>4, <2>5, <2>6, <2>7 DEF Inv
<1>4. QED
  BY <1>1, <1>2, <1>3

-----------------------------------------------------------------------------
(* Rounds of saving.                                                       *)

LEMMA WorkerAsks ==
  ASSUME Inv, AsksGate
  PROVE  Inv'
<1>1. Worker \in Actors /\ Worker # Flusher /\ GateInv
      /\ worker \in WorkerStates /\ event \in BOOLEAN /\ stranded \in BOOLEAN
  BY Distinct DEF Inv, TypeOK
<1>2. /\ GateInv' /\ OthersOnlyGranted(Worker) /\ act[Worker] \in {"idle", "granted"}
      /\ act'[Worker] \in {"inside", "waiting"}
  BY <1>1, GateEntered, GateQueued, GateResumed, OneMoves DEF AsksGate
<1>3. /\ UNCHANGED <<revision, written, saveVars, worker, event, ring, roundVars, stranded, calls, failures, deaths>>
      /\ worker # "saving"
  BY DEF AsksGate, boundVars
<1>4. QED
  BY <1>1, <1>2, <1>3, CallStep

\* Whoever is inside the gate is alone in it.
LEMMA OneInside ==
  ASSUME GateInv, NEW a \in Actors, NEW b \in Actors, act[a] = "inside", act[b] = "inside"
  PROVE  a = b
  BY DEF GateInv, GateNeverLost, Holding

\* The worker leaves the gate, or stays and begins a round of its own.
LEMMA WorkerChecks ==
  ASSUME Inv, ChecksAgain
  PROVE  Inv'
<1>1. /\ Worker \in Actors /\ Worker # Flusher /\ act[Worker] = "inside" /\ worker = "asking"
      /\ UNCHANGED <<revision, written, quiet, _save_failures, event, ring, stranded, boundVars>>
  BY Distinct DEF ChecksAgain
<1>2. ~force /\ todo = {}
  BY <1>1, Distinct, OneInside DEF Inv, RoundInGate
<1>3. CASE /\ worker' = "saving" /\ full' = (_save_requested /\ quiet)
           /\ _save_requested' = (_save_requested /\ ~full')
           /\ todo' = Roots /\ force' = FALSE /\ UNCHANGED gateVars
  <2>1. GateInv' /\ GateTypeOK' /\ ChangesAreCalls'
    BY <1>1, <1>3, SameGate DEF boundVars
  <2>2. TypeOK'
    <3>1. full' \in BOOLEAN /\ _save_requested' \in BOOLEAN
      BY <1>3 DEF Inv, TypeOK
    <3>2. QED
      BY <1>1, <1>3, <2>1, <3>1 DEF Inv, TypeOK, WorkerStates, boundVars
  <2>3. RoundInGate'
    BY <1>1, <1>3 DEF RoundInGate, gateVars
  <2>4. RetriesLeft'
    BY <1>1 DEF Inv, RetriesLeft
  <2>5. NothingForgotten'
    <3>1. CASE full'
      BY <1>1, <1>3, <3>1 DEF NothingForgotten, Wants
    <3>2. CASE ~full'
      BY <1>1, <1>2, <1>3, <3>2 DEF Inv, NothingForgotten, gateVars
    <3>3. QED
      BY <3>1, <3>2
  <2>6. QED
    BY <2>1, <2>2, <2>3, <2>4, <2>5 DEF Inv
<1>4. CASE worker' = "top" /\ Leaves(Worker, "idle") /\ UNCHANGED <<_save_requested, roundVars>>
  <2>1. GateInv' /\ OthersOnlyGranted(Worker) /\ act'[Worker] = "idle"
    BY <1>1, <1>4, GateLeft DEF Inv
  <2>2. ChangesAreCalls'
    BY <1>1, <2>1, Distinct, CallGoesOn DEF boundVars
  <2>3. TypeOK'
    BY <1>1, <1>4, <2>1 DEF Inv, TypeOK, GateInv, WorkerStates, roundVars, boundVars
  <2>4. RoundInGate'
    BY <1>1, <1>4, <2>1, RoundUndisturbed DEF roundVars
  <2>5. NothingForgotten' /\ RetriesLeft'
    BY <1>1, <1>4, <2>1, StillKnown DEF roundVars
  <2>6. QED
    BY <2>1, <2>2, <2>3, <2>4, <2>5 DEF Inv
<1>5. QED
  BY <1>3, <1>4 DEF ChecksAgain, Moves

\* The end of a round, and a worker that is cancelled in the middle of one.
LEMMA WorkerLeaves ==
  ASSUME Inv, RoundEnds \/ WorkerDies
  PROVE  Inv'
<1>1. /\ Worker \in Actors /\ Worker # Flusher /\ act[Worker] = "inside" /\ worker = "saving"
      /\ Leaves(Worker, "idle") /\ worker' \in {"top", "none"}
      /\ UNCHANGED <<revision, written, quiet, _save_failures, event, ring, full, force, calls, failures>>
      /\ todo' = {} /\ deaths' \in 0..MaxDeaths /\ stranded' \in BOOLEAN /\ _save_requested' \in BOOLEAN
      /\ (UNCHANGED <<todo, _save_requested>> \/ _save_requested')
  <2>1. act[Worker] = "inside"
    BY DEF RoundEnds, WorkerDies, Moves, Inv, RoundInGate
  <2>2. CASE RoundEnds
    BY <2>1, <2>2, Distinct DEF RoundEnds, Moves, Inv, TypeOK, saveVars, roundVars, boundVars
  <2>3. CASE WorkerDies
    BY <2>1, <2>3, Distinct, BoundAssumption DEF WorkerDies, AbortsRound, Moves, Inv, TypeOK
  <2>4. QED
    BY <2>2, <2>3
<1>2. ~force
  BY <1>1, Distinct, OneInside DEF Inv, RoundInGate
<1>3. GateInv' /\ OthersOnlyGranted(Worker) /\ act'[Worker] = "idle"
  BY <1>1, GateLeft DEF Inv
<1>4. ChangesAreCalls'
  BY <1>1, <1>3, Distinct, CallGoesOn
<1>5. TypeOK'
  BY <1>1, <1>3 DEF Inv, TypeOK, GateInv, WorkerStates
<1>6. RoundInGate'
  BY <1>1, <1>2 DEF RoundInGate
<1>7. NothingForgotten'
  <2>1. CASE _save_requested'
    BY <2>1 DEF NothingForgotten
  <2>2. CASE UNCHANGED <<todo, _save_requested>>
    BY <1>1, <1>3, <2>2, StillKnown
  <2>3. QED
    BY <1>1, <2>1, <2>2
<1>8. RetriesLeft'
  BY <1>1 DEF Inv, RetriesLeft
<1>9. QED
  BY <1>3, <1>4, <1>5, <1>6, <1>7, <1>8 DEF Inv

\* The worker is cancelled as it sleeps or as it waits for the gate.
LEMMA WorkerCancelled ==
  ASSUME Inv, WorkerIsCancelled \/ WorkerGivesUp
  PROVE  Inv'
<1>1. /\ Worker \in Actors /\ Worker \notin Callers /\ Worker # Flusher /\ GateInv
      /\ GateTypeOK /\ ChangesAreCalls
  BY Distinct DEF Inv, TypeOK
<1>2. /\ UNCHANGED <<revision, written, saveVars, event, ring, roundVars, calls, failures>>
      /\ worker' \in WorkerStates /\ worker # "saving" /\ worker' # "saving"
      /\ stranded' \in BOOLEAN /\ deaths' \in 0..MaxDeaths
  <2>1. CASE WorkerIsCancelled
    <3>1. deaths' \in 0..MaxDeaths
      BY <2>1, BoundAssumption DEF WorkerIsCancelled, Inv, TypeOK
    <3>2. CASE Moves("sleeping", "none") /\ stranded' = TRUE
      BY <2>1, <3>1, <3>2 DEF WorkerIsCancelled, Moves, WorkerStates
    <3>3. CASE worker = "asking" /\ UNCHANGED <<worker, stranded>>
      BY <2>1, <3>1, <3>3 DEF WorkerIsCancelled, WorkerStates, Inv, TypeOK
    <3> QED BY <2>1, <3>2, <3>3 DEF WorkerIsCancelled
  <2>2. CASE WorkerGivesUp
    BY <2>2, BoundAssumption DEF WorkerGivesUp, Moves, WorkerStates, Inv, TypeOK, boundVars
  <2>3. QED
    BY <2>1, <2>2
<1>3. /\ GateInv' /\ GateTypeOK' /\ ChangesAreCalls'
      /\ act'[Flusher] = "inside" <=> act[Flusher] = "inside"
      /\ \A t \in Threads : act[t] = "outside" => act'[t] = "outside"
  <2>1. CASE UNCHANGED gateVars
    BY <1>1, <1>2, <2>1, SameGate DEF gateVars
  <2>2. CASE IsCancelled(Worker) \/ GivesUp(Worker, "idle")
    <3>1. GateInv' /\ OthersOnlyGranted(Worker) /\ act[Worker] # "outside"
      BY <1>1, <2>2, GateCancelled, GateGivenUp DEF OthersOnlyGranted
    <3>2. ChangesAreCalls'
      BY <1>1, <1>2, <3>1, CallGoesOn
    <3>3. Flusher \in Actors \ {Worker} /\ Threads \subseteq Actors \ {Worker}
      BY ActorAssumption, Distinct
    <3> QED BY <3>1, <3>2, <3>3 DEF OthersOnlyGranted, GateInv
  <2>3. QED
    BY <2>1, <2>2 DEF WorkerIsCancelled, WorkerGivesUp
<1>4. TypeOK'
  BY <1>2, <1>3 DEF Inv, TypeOK, saveVars, roundVars
<1>5. RoundInGate'
  BY <1>2, <1>3 DEF Inv, RoundInGate, roundVars
<1>6. NothingForgotten' /\ RetriesLeft'
  BY <1>2, <1>3 DEF Inv, NothingForgotten, RetriesLeft, Wants, saveVars, roundVars
<1>7. QED
  BY <1>3, <1>4, <1>5, <1>6 DEF Inv

LEMMA FlushStarts ==
  ASSUME Inv, FlushBegins
  PROVE  Inv'
<1>1. worker # "saving"
  BY Distinct, OneInside DEF FlushBegins, Inv, RoundInGate
<1>2. GateInv' /\ GateTypeOK' /\ ChangesAreCalls'
  BY SameGate DEF FlushBegins, boundVars
<1>3. TypeOK'
  BY <1>2 DEF FlushBegins, Inv, TypeOK, boundVars
<1>4. RoundInGate'
  BY <1>1 DEF FlushBegins, RoundInGate, gateVars
<1>5. NothingForgotten' /\ RetriesLeft'
  BY DEF FlushBegins, Inv, NothingForgotten, Wants, RetriesLeft
<1>6. QED
  BY <1>2, <1>3, <1>4, <1>5 DEF Inv

\* flush ends with its round, or is cancelled in it and asks for another one.
LEMMA FlushLeaves ==
  ASSUME Inv, FlushEnds
  PROVE  Inv'
<1>1. /\ Flusher \in Actors /\ Flusher # Worker /\ act[Flusher] = "inside" /\ Leaves(Flusher, "idle")
      /\ UNCHANGED <<revision, written, quiet, _save_failures, calls, failures>>
      /\ todo' = {} /\ force' = FALSE /\ full' = FALSE
      /\ deaths' \in 0..MaxDeaths /\ _save_requested' \in BOOLEAN
      /\ (UNCHANGED <<todo, _save_requested>> \/ _save_requested')
  <2>1. CASE todo = {} /\ todo' = {} /\ UNCHANGED <<saveVars, deaths>>
    BY <2>1, Distinct DEF FlushEnds, Inv, TypeOK, saveVars
  <2>2. CASE /\ deaths < MaxDeaths /\ deaths' = deaths + 1
             /\ todo' = {} /\ _save_requested' = TRUE /\ UNCHANGED <<quiet, _save_failures>>
    BY <2>2, Distinct, BoundAssumption DEF FlushEnds, Inv, TypeOK
  <2>3. QED
    BY <2>1, <2>2 DEF FlushEnds
<1>2. worker # "saving"
  BY <1>1, Distinct, OneInside DEF Inv, RoundInGate
<1>3. GateInv' /\ OthersOnlyGranted(Flusher) /\ act'[Flusher] = "idle"
  BY <1>1, GateLeft DEF Inv
<1>4. /\ worker' \in WorkerStates /\ event' \in BOOLEAN /\ stranded' \in BOOLEAN /\ ring' \in BOOLEAN
      /\ worker' # "saving"
  BY <1>2, WorkerSetOff DEF FlushEnds, Notifies
<1>5. ChangesAreCalls'
  BY <1>1, <1>3, Distinct, CallGoesOn
<1>6. TypeOK'
  BY <1>1, <1>3, <1>4 DEF Inv, TypeOK, GateInv
<1>7. RoundInGate'
  BY <1>1, <1>4 DEF RoundInGate
<1>8. NothingForgotten'
  <2>1. CASE _save_requested'
    BY <2>1 DEF NothingForgotten
  <2>2. CASE UNCHANGED <<todo, _save_requested>>
    <3>1. \A t \in Threads : act[t] = "outside" => act'[t] = "outside"
      BY <1>1, <1>3, ActorAssumption DEF OthersOnlyGranted
    <3>2. QED
      BY <1>1, <2>2, <3>1 DEF Inv, NothingForgotten
  <2>3. QED
    BY <1>1, <2>1, <2>2
<1>9. RetriesLeft'
  BY <1>1 DEF Inv, RetriesLeft
<1>10. QED
  BY <1>3, <1>5, <1>6, <1>7, <1>8, <1>9 DEF Inv

LEMMA FlushGivenUp ==
  ASSUME Inv, FlushGivesUp
  PROVE  Inv'
<1>1. /\ GateInv' /\ OthersOnlyGranted(Flusher) /\ act[Flusher] \in {"cancelled", "returning"}
      /\ act'[Flusher] = "idle" /\ Flusher \in Actors /\ Flusher \notin Callers /\ Flusher # Worker
  BY Distinct, GateGivenUp DEF FlushGivesUp, Inv
<1>2. UNCHANGED <<revision, written, saveVars, roundVars, boundVars>>
  BY DEF FlushGivesUp
<1>3. /\ worker' \in WorkerStates /\ event' \in BOOLEAN /\ stranded' \in BOOLEAN /\ ring' \in BOOLEAN
      /\ worker' = "saving" <=> worker = "saving"
  BY WorkerSetOff DEF FlushGivesUp, Notifies
<1>4. ChangesAreCalls'
  BY <1>1, <1>2, CallGoesOn DEF boundVars
<1>5. TypeOK'
  BY <1>1, <1>2, <1>3 DEF Inv, TypeOK, GateInv, saveVars, roundVars, boundVars
<1>6. RoundInGate'
  BY <1>1, <1>2, <1>3, RoundUndisturbed DEF Inv, RoundInGate, roundVars
<1>7. NothingForgotten' /\ RetriesLeft'
  BY <1>1, <1>2, StillKnown DEF saveVars, roundVars
<1>8. QED
  BY <1>1, <1>4, <1>5, <1>6, <1>7 DEF Inv

-----------------------------------------------------------------------------
(* The theorems.                                                           *)

LEMMA InitInv == Init => Inv
<1> SUFFICES ASSUME Init PROVE Inv
  OBVIOUS
<1>1. GateInv
  <2>1. GateTypeOK
    BY DEF Init, GateInit, GateTypeOK, ActStates
  <2>2. GateNeverLost
    BY NoActorAssumption DEF Init, GateInit, GateNeverLost, Holding
  <2>3. QED
    BY <2>1, <2>2 DEF Init, GateInit, GateInv
<1>2. TypeOK
  <2>1. revision \in [Roots -> 0..MaxCalls] /\ written \in [Roots -> 0..MaxCalls]
    BY BoundAssumption DEF Init
  <2>2. _save_failures \in [Roots -> {None} \cup Failure]
    BY DEF Init
  <2>3. calls \in 0..MaxCalls /\ failures \in 0..MaxFailures /\ deaths \in 0..MaxDeaths
    BY BoundAssumption DEF Init
  <2>4. QED
    BY <1>1, <2>1, <2>2, <2>3 DEF Init, TypeOK, GateInv, WorkerStates
<1>3. ChangesAreCalls
  <2>1. Pending = {}
    BY Distinct DEF Init, GateInit, Pending, UnderWay
  <2>2. Cardinality(Pending) = 0
    BY <2>1, FS_EmptySet
  <2>3. QED
    BY <2>2 DEF Init, ChangesAreCalls
<1>4. RoundInGate /\ RetriesLeft /\ NothingForgotten
  BY DEF Init, RoundInGate, RetriesLeft, NothingForgotten
<1>5. QED
  BY <1>1, <1>2, <1>3, <1>4 DEF Inv

LEMMA StepInv == Inv /\ [Next]_vars => Inv'
<1> SUFFICES ASSUME Inv, [Next]_vars PROVE Inv'
  OBVIOUS
<1>1. ASSUME NEW a \in Writers \cup {Flusher}, TaskEnters(a) \/ TaskQueues(a) \/ TaskIsCancelled(a)
      PROVE  Inv'
  BY <1>1, TaskStep
<1>2. ASSUME NEW a \in Writers, WriterGivesUp(a) \/ Transaction(a) \/ Nested(a) PROVE Inv'
  BY <1>2, Distinct, WriterGivesUpStep, TransactionStep, NestedStep DEF Callers
<1>3. ASSUME NEW t \in Threads, ThreadEnters(t) \/ ThreadCommits(t) \/ ThreadSettles(t) \/ Nested(t)
      PROVE  Inv'
  BY <1>3, Distinct, ThreadStepInv, NestedStep DEF Callers
<1>4. ASSUME NEW r \in Roots, RetryComesDue(r) \/ FailsRoot(r) \/ SkipsRoot(r) \/ WritesRoot(r) PROVE Inv'
  BY <1>4, TimeStep, RoundStep
<1>5. CASE QuietPeriodEnds \/ EventIsSet
  BY <1>5, TimeStep
<1>6. CASE WorkerStep \/ WorkerDies \/ WorkerIsCancelled
  BY <1>6, WorkerLooks, WorkerAsks, WorkerChecks, WorkerLeaves, WorkerCancelled DEF WorkerStep
<1>7. CASE FlushBegins \/ FlushEnds \/ FlushGivesUp
  BY <1>7, FlushStarts, FlushLeaves, FlushGivenUp
<1>8. CASE UNCHANGED vars
  <2>1. GateInv' /\ GateTypeOK' /\ ChangesAreCalls'
    BY <1>8, SameGate DEF vars, boundVars
  <2>2. QED
    BY <1>8, <2>1 DEF vars, gateVars, saveVars, roundVars, boundVars, Inv, TypeOK, RoundInGate,
                      RetriesLeft, NothingForgotten, Wants
<1>9. QED
  BY <1>1, <1>2, <1>3, <1>4, <1>5, <1>6, <1>7, <1>8 DEF Next, RootStep, AtRest

LEMMA InvariantHolds == Spec => []Inv
  BY InitInv, StepInv, PTL DEF Spec

\* The types of the store; the revision of a root never passes the number of the calls
\* made, and the retries of a root never exceed the delays there are.
THEOREM TypeCorrect == Spec => []TypeOK
<1>1. Inv => TypeOK
  BY DEF Inv
<1>2. QED
  BY <1>1, InvariantHolds, PTL

\* For any number of tasks and threads: the gate is held by the one actor that knows it
\* and never free while someone waits, whoever is cancelled while it is handed over.
THEOREM GateIsNeverLost == Spec => []GateNeverLost
<1>1. Inv => GateNeverLost
  BY DEF Inv, GateInv
<1>2. QED
  BY <1>1, InvariantHolds, PTL

\* A change that is not on the disk is requested, kept as a failure, in the round under
\* way or about to be requested by its thread, however saving, failing, flushing,
\* cancelling and committing are interleaved.
THEOREM NoChangeIsForgotten == Spec => []NothingForgotten
<1>1. Inv => NothingForgotten
  BY DEF Inv
<1>2. QED
  BY <1>1, InvariantHolds, PTL

\* Only the holder of the gate has a round of saving under way, and no two rounds meet.
THEOREM RoundsExclusive ==
  Spec => [](todo # {} => /\ owner \in {Worker, Flusher}
                          /\ worker = "saving" <=> ~force)
<1>1. Inv => (todo # {} => /\ owner \in {Worker, Flusher}
                           /\ worker = "saving" <=> ~force)
  BY Distinct, OneInside DEF Inv, RoundInGate, GateInv, GateNeverLost, Holding
<1>2. QED
  BY <1>1, InvariantHolds, PTL
=============================================================================
