---------------------------- MODULE ResourceLocks ----------------------------
(***************************************************************************)
(* What the reservation table of the task scheduler promises its callers,  *)
(* without its tables: an owner (a task id) holds, per script, a set of    *)
(* exclusive resources.  A request is granted exactly when nothing it asks *)
(* for clashes with what another owner holds, and a release is honoured    *)
(* exactly when the caller holds the script.  ScriptReservations           *)
(* implements it.                                                          *)
(***************************************************************************)
EXTENDS Naturals

CONSTANTS Owners, Scripts, Roots, Emulators,
          Below      \* <<r, p>>: root r is a strict sub-directory of root p

VARIABLES holding,   \* holding[o][s]: the resources o holds through script s
          reply      \* the last call and its answer

ScriptKey(s)   == <<"script", s>>
RootKey(r)     == <<"install-root", r>>
EmulatorKey(e) == <<"emulator", e>>

ScriptKeys == {ScriptKey(s) : s \in Scripts}

Keys == ScriptKeys \cup {RootKey(r) : r \in Roots}
          \cup {EmulatorKey(e) : e \in Emulators}

Overlap(r, p) == r = p \/ <<r, p>> \in Below \/ <<p, r>> \in Below

\* Two resources that may not be used by different owners at once.
Clash(k, l) ==
  \/ k = l
  \/ \E r, p \in Roots : k = RootKey(r) /\ l = RootKey(p) /\ Overlap(r, p)

Answer(result, o, s, keys) ==
  [result |-> result, owner |-> o, script |-> s, keys |-> keys]

NoReply == [result |-> "none"]

HeldBy(o) == UNION {holding[o][s] : s \in Scripts}

Free(o, keys) ==
  \A other \in Owners \ {o} : \A k \in keys : \A l \in HeldBy(other) : ~Clash(k, l)

Init ==
  /\ holding = [o \in Owners |-> [s \in Scripts |-> {}]]
  /\ reply = NoReply

\* What a call for script s may ask for: the script, some roots, some emulators.
Requests(s) == {{ScriptKey(s)} \cup more : more \in SUBSET (Keys \ ScriptKeys)}

Acquire(o, s, keys) ==
  \/ /\ reply' = Answer("granted", o, s, keys)
     /\ Free(o, keys)
     /\ holding' = [holding EXCEPT ![o][s] = @ \cup keys]
  \/ /\ reply' = Answer("refused", o, s, keys)
     /\ ~Free(o, keys)
     /\ UNCHANGED holding

Release(o, s) ==
  \/ /\ reply' = Answer("released", o, s, {})
     /\ ScriptKey(s) \in holding[o][s]
     /\ holding' = [holding EXCEPT ![o][s] = {}]
  \/ /\ reply' = Answer("not held", o, s, {})
     /\ ScriptKey(s) \notin holding[o][s]
     /\ UNCHANGED holding

Next ==
  \E o \in Owners, s \in Scripts :
    Release(o, s) \/ \E keys \in Requests(s) : Acquire(o, s, keys)

Spec == Init /\ [][Next]_<<holding, reply>>
=============================================================================
