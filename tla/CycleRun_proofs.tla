----------------------------- MODULE CycleRun_proofs -----------------------------
(* That a cycle run keeps to the schedules, for any week, schedules and runs:     *)
(* the arithmetic of cycle.py, and what the waits and edits leave of it.          *)
EXTENDS CycleRun, FiniteSetTheorems, SequenceTheorems, WellFoundedInduction, TLAPS

-----------------------------------------------------------------------------
(* Division with a remainder.                                              *)

LEMMA DivMod ==
  ASSUME NEW a \in Int, NEW b \in Nat \ {0}
  PROVE  /\ a \div b \in Int /\ a % b \in 0..(b - 1)
         /\ a = b * (a \div b) + (a % b)
BY Z3

LEMMA DivModUnique ==
  ASSUME NEW b \in Nat \ {0}, NEW q \in Int, NEW r \in 0..(b - 1)
  PROVE  (b * q + r) \div b = q /\ (b * q + r) % b = r
BY DivMod, Z3

LEMMA NextMultiple ==
  ASSUME NEW b \in Nat \ {0}, NEW x \in Int, NEW y \in Int, x < y
  PROVE  b * x + b <= b * y
BY Z3

LEMMA QuotientUnique ==
  ASSUME NEW b \in Nat \ {0}, NEW q \in Int, NEW r \in 0..(b - 1), NEW p \in Int, NEW s \in 0..(b - 1),
         b * q + r = b * p + s
  PROVE  q = p /\ r = s
<1>1. ~(q < p)
  BY NextMultiple, SMT
<1>2. ~(p < q)
  BY NextMultiple, SMT
<1> QED BY <1>1, <1>2, SMT

LEMMA SmallRemainder ==
  ASSUME NEW b \in Nat \ {0}, NEW r \in 0..(b - 1)
  PROVE  r % b = r
BY DivModUnique, Z3

LEMMA ModOfSum ==
  ASSUME NEW m \in Nat \ {0}, NEW x \in Int, NEW y \in Int
  PROVE  ((x % m) + y) % m = (x + y) % m
<1> DEFINE q == x \div m
           r == x % m
           p == (r + y) \div m
           s == (r + y) % m
<1>1. q \in Int /\ r \in 0..(m - 1) /\ x = m * q + r
  BY DivMod
<1>2. p \in Int /\ s \in 0..(m - 1) /\ r + y = m * p + s
  BY <1>1, DivMod
<1> HIDE DEF q, r, p, s
<1>3. m * q + m * p = m * (q + p)
  BY <1>1, <1>2, Z3
<1>4. x + y = m * (q + p) + s
  BY <1>1, <1>2, <1>3, Z3
<1>5. (m * (q + p) + s) % m = s
  BY <1>1, <1>2, DivModUnique
<1> QED BY <1>4, <1>5 DEF s, r

-----------------------------------------------------------------------------
(* Least and greatest elements.                                            *)

LEMMA MinIs ==
  ASSUME NEW S \in SUBSET Int, NEW x \in S, \A y \in S : x <= y
  PROVE  Min(S) = x
<1>1. \A y \in S : (\A z \in S : y =< z) => y = x
  BY SMT
<1>2. \E y \in S : \A z \in S : y =< z
  OBVIOUS
<1> QED BY <1>1, <1>2 DEF Min

LEMMA MaxIs ==
  ASSUME NEW S \in SUBSET Int, NEW x \in S, \A y \in S : y <= x
  PROVE  Max(S) = x
<1>1. \A y \in S : (\A z \in S : y >= z) => y = x
  BY SMT
<1>2. \E y \in S : \A z \in S : y >= z
  BY SMT
<1> QED BY <1>1, <1>2 DEF Max

LEMMA LeastNatural ==
  ASSUME NEW S \in SUBSET Nat, S # {}
  PROVE  Min(S) \in S /\ \A y \in S : Min(S) <= y
<1>1. PICK x \in S : \A y \in S : ~ (<<y, x>> \in OpToRel(<, Nat))
  BY WFMin, NatLessThanWellFounded, Zenon
<1>2. \A y \in S : x <= y
  <2> SUFFICES ASSUME NEW y \in S PROVE x <= y
    OBVIOUS
  <2>1. x \in Nat /\ y \in Nat /\ <<y, x>> \in Nat \X Nat
    OBVIOUS
  <2>2. ~ (y < x)
    BY <1>1, <2>1, <<y, x>>[1] = y, <<y, x>>[2] = x DEF OpToRel
  <2> QED
    BY <2>1, <2>2
<1> QED
  BY <1>2 DEF Min

\* A finite set of naturals has a greatest element: take the smallest that has none.
LEMMA GreatestNatural ==
  ASSUME NEW S \in SUBSET Nat, IsFiniteSet(S), S # {}
  PROVE  \E x \in S : \A y \in S : y <= x
<1> DEFINE Unbounded(T) == IsFiniteSet(T) /\ T # {} /\ ~ \E x \in T : \A y \in T : y <= x
           Sizes == {n \in Nat : \E T \in SUBSET Nat : Unbounded(T) /\ Cardinality(T) = n}
<1> SUFFICES ASSUME Sizes # {} PROVE FALSE
  BY FS_CardinalityType
<1>1. PICK T \in SUBSET Nat : Unbounded(T) /\ Cardinality(T) = Min(Sizes)
  BY LeastNatural
<1>2. PICK x \in T : TRUE
  BY <1>1
<1>3. \A n \in Sizes : Min(Sizes) <= n
  BY LeastNatural
<1>4. IsFiniteSet(T \ {x}) /\ Cardinality(T \ {x}) = Cardinality(T) - 1 /\ Cardinality(T) \in Nat
      /\ Cardinality(T \ {x}) \in Nat
  BY <1>1, <1>2, FS_RemoveElement, FS_CardinalityType
<1>5. ~Unbounded(T \ {x})
  <2>1. Cardinality(T \ {x}) \notin Sizes
    <3> HIDE DEF Sizes
    <3> QED BY <1>1, <1>3, <1>4, SMT
  <2> QED BY <1>1, <1>4, <2>1
<1>6. PICK z \in {x} \cup (T \ {x}) : \A y \in T \ {x} : y <= z
  BY <1>2, <1>4, <1>5
<1>7. \A y \in T : y <= x \/ y <= z
  BY <1>2, <1>6, SMT
<1> QED BY <1>1, <1>2, <1>6, <1>7, SMT
-----------------------------------------------------------------------------
(* The invariant.  A time is kept with what the schedule counts from: it is    *)
(* the next slot of a fixed schedule, and completes the interval of the other. *)

\* The n-th tick from now on is the first that is a slot.
NextSlot(now, s, n) ==
    /\ n \in 1 .. WeekTicks
    /\ (now + n) % WeekTicks \in SlotsOf(s)
    /\ \A i \in 1 .. n - 1 : (now + i) % WeekTicks \notin SlotsOf(s)

OnTime(now, s, at, since) ==
    /\ at \in 1 .. Horizon /\ since \in Nat
    /\ s.mode = "fixed_time" => NextSlot(now, s, at)
    /\ s.mode = "interval" => at + since = s.interval

\* What is stored and known: due since a slot has passed, or on time for the next.
OnSchedule ==
    \A e \in Entries : grid[e].fresh =>
        IF grid[e].owed THEN next[e] = 0 ELSE OnTime(clock, schedule[e], next[e], grid[e].since)

\* What is computed and not yet written is on time; the clock stands still meanwhile.
ValuesOnTime ==
    /\ phase = "recording" =>
         \A i \in 1 .. Len(firsts) : firsts[i].at # None => OnTime(clock, firsts[i].from, firsts[i].at, 0)
    /\ phase = "anchoring" /\ value.at # None => OnTime(clock, value.from, value.at, 0)
    /\ phase = "settling" /\ value.at # None => OnTime(clock, value.from, value.at, SinceAnchor(value.from))

\* What a phase works on is there.
PhaseInv ==
    /\ phase = "recording" => firsts # <<>>
    /\ phase \in {"starting", "anchoring", "run", "finishing", "settling"} =>
         current \in Entries /\ pending # <<>>
    /\ phase \in {"anchoring", "settling"} => value \in Values

Inv == TypeOK /\ PhaseInv /\ ValuesOnTime /\ OnSchedule

-----------------------------------------------------------------------------
(* The times of cycle.py.                                                  *)

LEMMA Sizes ==
  /\ Week \in Nat \ {0} /\ DayTicks \in Nat \ {0} /\ WeekTicks \in Nat \ {0}
  /\ WeekTicks = Week * DayTicks
<1>1. Week \in Nat \ {0} /\ DayTicks \in Nat \ {0}
  BY CycleAssumption
<1>2. Week * DayTicks \in Nat \ {0}
  BY <1>1, Z3
<1> QED BY <1>1, <1>2 DEF WeekTicks

LEMMA ScheduleParts ==
  ASSUME NEW s \in Schedules
  PROVE  /\ s.mode \in {"fixed_time", "interval"} /\ s.anchor \in {"start", "finish"}
         /\ s.days \in SUBSET (0..(Week - 1)) /\ s.time \in 0..(DayTicks - 1)
         /\ s.interval \in Nat \ {0}
BY CycleAssumption

\* A tick is at a slot of the week iff it is at the slot's time on one of its days.
LEMMA SlotOfWeek ==
  ASSUME NEW x \in Int, NEW s \in Schedules
  PROVE  x % WeekTicks \in SlotsOf(s)
         <=> x % DayTicks = s.time /\ (x \div DayTicks) % Week \in s.days
<1> DEFINE D == DayTicks
           W == Week
           days == s.days
           t == s.time
<1>0. /\ D \in Nat \ {0} /\ W \in Nat \ {0} /\ WeekTicks = W * D
      /\ days \in SUBSET (0..(W - 1)) /\ t \in 0..(D - 1)
      /\ SlotsOf(s) = {d * D + t : d \in days}
  BY Sizes, ScheduleParts DEF SlotsOf
<1> SUFFICES x % (W * D) \in {d * D + t : d \in days} <=> x % D = t /\ (x \div D) % W \in days
  BY <1>0, Zenon
<1> HIDE DEF D, W, days, t
<1> DEFINE q == x \div D
           r == x % D
           p == q \div W
           e == q % W
<1>1. q \in Int /\ r \in 0..(D - 1) /\ x = D * q + r
  BY <1>0, DivMod
<1>2. p \in Int /\ e \in 0..(W - 1) /\ q = W * p + e
  BY <1>0, <1>1, DivMod
<1>3. x % D = r /\ (x \div D) % W = e
  OBVIOUS
<1> HIDE DEF q, r, p, e
<1>4. /\ D * (W * p + e) = (W * D) * p + D * e
      /\ W * D \in Nat \ {0} /\ D * e \in Nat
      /\ D * e + D <= D * W /\ D * W = W * D
  <2>1. D * (W * p + e) = (W * D) * p + D * e
    BY <1>0, <1>2, Z3
  <2>2. W * D \in Nat \ {0} /\ D * e \in Nat
    BY <1>0, <1>2, Z3
  <2>3. D * e + D <= D * W
    BY <1>0, <1>2, NextMultiple, Z3
  <2> QED BY <1>0, <1>2, <2>1, <2>2, <2>3, Z3
<1>5. D * e + r \in 0..(W * D - 1) /\ x = (W * D) * p + (D * e + r)
  BY <1>0, <1>1, <1>2, <1>4, Z3
<1>6. x % (W * D) = D * e + r
  BY <1>0, <1>2, <1>4, <1>5, DivModUnique
<1>7. ASSUME NEW d \in days, D * e + r = d * D + t PROVE e = d /\ r = t
  <2>1. d \in Int /\ D * d = d * D
    BY <1>0, Z3
  <2> QED BY <1>0, <1>1, <1>2, <1>7, <2>1, QuotientUnique
<1>8. D * e = e * D
  BY <1>0, <1>2, Z3
<1> QED BY <1>3, <1>6, <1>7, <1>8

LEMMA HorizonBounds ==
  /\ Horizon \in Nat /\ WeekTicks <= Horizon
  /\ \A s \in Schedules : s.interval <= Horizon
<1> DEFINE I == {s.interval : s \in Schedules}
           S == {WeekTicks} \cup I
           f == [s \in Schedules |-> s.interval]
<1>1. f \in Surjection(Schedules, I)
  BY DEF Surjection
<1>2. IsFiniteSet(I)
  BY <1>1, FS_Surjection, CycleAssumption
<1>3. IsFiniteSet(S)
  <2>1. S = I \cup {WeekTicks}
    OBVIOUS
  <2> HIDE DEF I, S
  <2> QED BY <1>2, <2>1, FS_AddElement
<1>4. S \in SUBSET Nat /\ S # {}
  BY Sizes, ScheduleParts
<1>5. PICK x \in S : \A y \in S : y <= x
  <2> HIDE DEF S
  <2> QED BY <1>3, <1>4, GreatestNatural
<1>6. Max(S) = x
  <2> HIDE DEF S
  <2>1. S \in SUBSET Int
    BY <1>4
  <2> QED BY <1>5, <2>1, MaxIs
<1>7. Horizon = x
  BY <1>6 DEF Horizon
<1> QED BY <1>4, <1>5, <1>7

\* NextFixed looks at as many days as it takes to find the next slot, and no slot is before it.
LEMMA NextFixedIsNext ==
  ASSUME clock \in 0..(WeekTicks - 1), NEW s \in Schedules, s.days # {}
  PROVE  NextSlot(clock, s, NextFixed(s))
<1> DEFINE D == DayTicks
           W == Week
           t == s.time
           today == clock \div DayTicks
           cand(o) == (today + o) * D + t
           H == {o \in 0..W : cand(o) > clock /\ (today + o) % W \in s.days}
           m == Min(H)
           n == cand(m) - clock
<1>1. D \in Nat \ {0} /\ W \in Nat \ {0} /\ WeekTicks = W * D /\ t \in 0..(D - 1)
      /\ s.days \in SUBSET (0..(W - 1)) /\ clock \in Nat
  BY Sizes, ScheduleParts
<1>2. today \in Int /\ D * today <= clock /\ clock < D * today + D
  BY <1>1, DivMod, Z3
<1>3. \A o \in Int : cand(o) = D * (today + o) + t /\ cand(o) \in Int
  BY <1>1, <1>2, Z3
<1>4. D = DayTicks /\ W = Week /\ t = s.time /\ today = clock \div D
  OBVIOUS
<1>5. SlotsOf(s) = {d * D + t : d \in s.days}
  BY DEF SlotsOf
<1>6. H # {} => NextFixed(s) = n
  BY DEF NextFixed, FirstWithin
<1> HIDE DEF D, W, t, today
<1>7. \A o \in Int : o >= 1 => cand(o) > clock
  <2> SUFFICES ASSUME NEW o \in Int, o >= 1 PROVE cand(o) > clock
    OBVIOUS
  <2>1. D * today + D <= D * (today + o)
    BY <1>1, <1>2, NextMultiple, SMT
  <2> QED BY <1>1, <1>2, <1>3, <2>1, SMT
<1>8. H # {}
  <2>1. PICK d \in s.days : TRUE
    OBVIOUS
  <2> DEFINE o == (d - today) % W
  <2>2. d \in 0..(W - 1) /\ d - today \in Int /\ o \in 0..(W - 1)
    <3>1. d \in 0..(W - 1) /\ d - today \in Int
      BY <1>1, <1>2, <2>1
    <3>2. (d - today) % W \in 0..(W - 1)
      BY <1>1, <3>1, DivMod, Zenon
    <3> QED BY <3>1, <3>2
  <2>3. (today + o) % W = d
    <3>1. (o + today) % W = ((d - today) + today) % W
      BY <1>1, <1>2, <2>2, ModOfSum, Zenon
    <3>2. o + today = today + o /\ (d - today) + today = d
      BY <1>2, <2>2, SMT
    <3> QED BY <1>1, <2>2, <3>1, <3>2, SmallRemainder
  <2> HIDE DEF o
  <2>4. CASE o >= 1
    <3>1. o \in 0..W /\ cand(o) > clock
      BY <1>1, <1>7, <2>2, <2>4
    <3> QED BY <2>1, <2>3, <3>1
  <2>5. CASE o = 0
    <3>1. (today + W) % W = d
      <4>1. (today + W) % W = ((W + today) % W) /\ W % W = 0
        <5>1. W = W * 1 + 0 /\ 0 \in 0..(W - 1)
          BY <1>1, SMT
        <5>2. W % W = 0
          BY <1>1, <5>1, DivModUnique
        <5> QED BY <1>1, <1>2, <5>2, SMT
      <4>2. ((W % W) + today) % W = (W + today) % W
        <5>1. W \in Int
          BY <1>1
        <5> QED BY <1>1, <1>2, <5>1, ModOfSum, Zenon
      <4>3. 0 + today = today /\ today + o = today
        BY <1>2, <2>5, SMT
      <4> QED BY <2>3, <4>1, <4>2, <4>3
    <3>2. W \in 0..W /\ cand(W) > clock
      BY <1>1, <1>7
    <3> QED BY <2>1, <3>1, <3>2
  <2> QED BY <2>2, <2>4, <2>5
<1>9. m \in 0..W /\ cand(m) > clock /\ (today + m) % W \in s.days /\ \A o \in H : m <= o
  <2>1. H \in SUBSET Nat
    BY <1>1
  <2>2. m \in H /\ \A o \in H : m <= o
    <3> HIDE DEF H
    <3> QED BY <1>8, <2>1, LeastNatural
  <2> QED BY <2>2
<1>10. n \in 1..WeekTicks
  <2>0. m \in Int /\ D * m \in Int /\ D * (today + m) = D * today + D * m /\ D * today \in Int
    BY <1>1, <1>2, <1>9, Z3
  <2>1. CASE m < W
    <3>1. D * m + D <= D * W
      BY <1>1, <1>9, <2>1, NextMultiple
    <3>2. D * W = WeekTicks
      BY <1>1, Z3
    <3> HIDE DEF cand, m
    <3>3. cand(m) = D * today + D * m + t
      BY <1>3, <2>0
    <3> QED BY <1>1, <1>2, <1>9, <2>0, <3>1, <3>2, <3>3, Sizes, SMT
  <2>2. CASE m = W
    <3>1. (today + 0) % W \in s.days
      <4>1. (today + W) % W = today % W
        <5>1. W = W * 1 + 0 /\ 0 \in 0..(W - 1)
          BY <1>1, SMT
        <5>2. W % W = 0
          BY <1>1, <5>1, DivModUnique
        <5>3. ((W % W) + today) % W = (W + today) % W
          <6>1. W \in Int
            BY <1>1
          <6> QED BY <1>1, <1>2, <6>1, ModOfSum, Zenon
        <5>4. 0 + today = today /\ W + today = today + W
          BY <1>1, <1>2, SMT
        <5> QED BY <5>2, <5>3, <5>4
      <4>2. today + 0 = today
        BY <1>2, SMT
      <4> QED BY <1>9, <2>2, <4>1, <4>2
    <3>2. 0 \notin H
      BY <1>1, <1>9, <2>2, SMT
    <3>3. ~(cand(0) > clock) /\ 0 \in 0..W
      BY <1>1, <3>1, <3>2
    <3>4. cand(0) = D * today + t /\ cand(m) = D * today + D * m + t /\ D * m = WeekTicks
      <4>1. today + 0 = today /\ D * m = W * D
        BY <1>1, <1>2, <2>2, Z3
      <4> QED BY <1>1, <1>3, <2>0, <4>1
    <3> HIDE DEF cand, m
    <3> QED BY <1>1, <1>2, <1>9, <2>0, <3>3, <3>4, Sizes, SMT
  <2> QED BY <1>1, <1>9, <2>1, <2>2, SMT
<1>11. (clock + n) % WeekTicks \in SlotsOf(s)
  <2>1. clock + n = D * (today + m) + t /\ clock + n \in Int /\ today + m \in Int
    BY <1>1, <1>2, <1>3, <1>9, SMT
  <2>2. (clock + n) \div D = today + m /\ (clock + n) % D = t
    BY <1>1, <2>1, DivModUnique
  <2>3. (clock + n) % WeekTicks \in SlotsOf(s)
        <=> (clock + n) % D = t /\ ((clock + n) \div D) % W \in s.days
    <3> HIDE DEF n
    <3> QED BY <1>4, <2>1, SlotOfWeek, Zenon
  <2>4. ((clock + n) \div D) % W \in s.days
    BY <1>9, <2>2, Zenon
  <2> QED BY <2>2, <2>3, <2>4, Zenon
<1>12. ASSUME NEW i \in 1..(n - 1), (clock + i) % WeekTicks \in SlotsOf(s) PROVE FALSE
  <2> DEFINE x == clock + i
             q == x \div D
             o == q - today
  <2>1. x \in Int /\ x > clock /\ x < cand(m)
    BY <1>1, <1>3, <1>9, <1>12, SMT
  <2>2. x % D = t /\ q % W \in s.days
    <3>1. x % WeekTicks \in SlotsOf(s) <=> x % D = t /\ q % W \in s.days
      <4> HIDE DEF x
      <4> QED BY <1>4, <2>1, SlotOfWeek, Zenon DEF q
    <3> QED BY <1>12, <3>1
  <2>3. q \in Int /\ x = D * q + t
    BY <1>1, <2>1, <2>2, DivMod
  <2> HIDE DEF x, q
  <2>4. ~(q < today)
    <3> SUFFICES ASSUME q < today PROVE FALSE
      OBVIOUS
    <3>1. D * q + D <= D * today
      BY <1>1, <1>2, <2>3, NextMultiple
    <3> QED BY <1>1, <1>2, <2>1, <2>3, <3>1, Z3
  <2>5. q < today + m
    <3> SUFFICES ASSUME today + m < q \/ today + m = q PROVE FALSE
      BY <1>2, <1>9, <2>3, SMT
    <3>1. CASE today + m = q
      BY <1>3, <1>9, <2>1, <2>3, <3>1, SMT
    <3>2. CASE today + m < q
      <4>0. today + m \in Int
        BY <1>1, <1>2, <1>9, SMT
      <4>1. D * (today + m) + D <= D * q
        BY <1>1, <2>3, <3>2, <4>0, NextMultiple
      <4>2. D * q \in Int /\ D * (today + m) \in Int
        BY <1>1, <1>2, <1>9, <2>3, Z3
      <4>3. cand(m) = D * (today + m) + t
        BY <1>3, <1>9
      <4> HIDE DEF cand, m
      <4> QED BY <1>1, <2>1, <2>3, <4>1, <4>2, <4>3, SMT
    <3> QED BY <3>1, <3>2
  <2>6. o \in 0..W /\ o < m /\ today + o = q
    BY <1>1, <1>2, <1>9, <2>3, <2>4, <2>5, SMT
  <2>7. cand(o) > clock
    BY <1>3, <2>1, <2>3, <2>6
  <2>8. o \in H
    BY <2>2, <2>6, <2>7
  <2> QED BY <1>9, <2>6, <2>8, SMT
<1> HIDE DEF n
<1> QED BY <1>8, <1>6, <1>10, <1>11, <1>12 DEF NextSlot

\* A run that was anchored at its start is followed by the next slot of its interval.
LEMMA NextAfterStartIsNext ==
  ASSUME elapsed \in Nat, NEW s \in Schedules, s.mode = "interval"
  PROVE  /\ NextAfterStart(s) \in 1..s.interval
         /\ elapsed % s.interval \in Nat
         /\ NextAfterStart(s) + (elapsed % s.interval) = s.interval
<1> DEFINE I == s.interval
           q == elapsed \div I
           r == elapsed % I
           S == {n * I - elapsed : n \in 1..(elapsed + 1)} \cap (Nat \ {0})
           x == I - r
<1>1. I \in Nat \ {0}
  BY ScheduleParts
<1>3. NextAfterStart(s) = Min(S)
  BY DEF NextAfterStart
<1> HIDE DEF I
<1>2. q \in Int /\ r \in 0..(I - 1) /\ elapsed = I * q + r
  BY <1>1, DivMod
<1> HIDE DEF q, r
<1>4. q >= 0
  <2> SUFFICES ASSUME q < 0 PROVE FALSE
    BY <1>2
  <2>1. I * q + I <= I * 0
    BY <1>1, <1>2, NextMultiple
  <2>2. I * 0 = 0
    BY <1>1, Z3
  <2> QED BY <1>1, <1>2, <2>1, <2>2, Z3
<1>5. q + 1 \in 1..(elapsed + 1)
  <2>1. I * q >= q
    BY <1>1, <1>2, <1>4, Z3
  <2>2. I * q \in Int
    BY <1>1, <1>2, Z3
  <2> QED BY <1>2, <1>4, <2>1, <2>2, SMT
<1>6. (q + 1) * I - elapsed = x
  BY <1>1, <1>2, Z3
<1>7. x \in S
  <2>1. x \in Nat \ {0}
    BY <1>1, <1>2, SMT
  <2> QED BY <1>5, <1>6, <2>1
<1>8. ASSUME NEW n \in 1..(elapsed + 1), n * I - elapsed \in Nat \ {0}
      PROVE  x <= n * I - elapsed
  <2>1. ~(n < q + 1)
    <3> SUFFICES ASSUME n < q + 1 PROVE FALSE
      OBVIOUS
    <3>1. I * n + I <= I * (q + 1)
      BY <1>1, <1>2, NextMultiple
    <3>2. I * (q + 1) = I * q + I /\ n * I = I * n /\ I * q \in Int /\ I * n \in Int
      BY <1>1, <1>2, Z3
    <3> QED BY <1>1, <1>2, <1>8, <3>1, <3>2, SMT
  <2>2. n = q + 1 \/ q + 1 < n
    BY <1>2, <2>1, SMT
  <2>3. CASE q + 1 < n
    <3>1. I * (q + 1) + I <= I * n
      BY <1>1, <1>2, <2>3, NextMultiple, SMT
    <3>2. (q + 1) * I = I * (q + 1) /\ n * I = I * n /\ I * (q + 1) \in Int /\ I * n \in Int
      BY <1>1, <1>2, Z3
    <3>3. I * (q + 1) - elapsed = x
      BY <1>6, <3>2
    <3> HIDE DEF x
    <3> QED BY <1>1, <1>2, <3>1, <3>2, <3>3, SMT
  <2>4. CASE n = q + 1
    <3>1. n * I - elapsed = x
      BY <1>6, <2>4
    <3>2. x \in Int
      BY <1>1, <1>2
    <3> QED BY <3>1, <3>2, SMT
  <2> QED BY <2>2, <2>3, <2>4
<1>9. Min(S) = x
  <2>1. S \in SUBSET Int /\ \A y \in S : x <= y
    BY <1>8
  <2> HIDE DEF S, x
  <2> QED BY <1>7, <2>1, MinIs
<1>10. x \in 1..I /\ r \in Nat /\ x + r = I
  BY <1>1, <1>2, SMT
<1> QED BY <1>3, <1>9, <1>10 DEF I, r

\* What NextAtStart and NextAfterFinish give is on time, counted from now.
LEMMA AtStartOnTime ==
  ASSUME clock \in 0..(WeekTicks - 1), NEW s \in Schedules
  PROVE  /\ NextAtStart(s) \in {None} \cup 1..Horizon /\ NextAfterFinish(s) = NextAtStart(s)
         /\ NextAtStart(s) # None => OnTime(clock, s, NextAtStart(s), 0)
<1>1. NextAfterFinish(s) = NextAtStart(s)
  BY DEF NextAfterFinish, NextAtStart
<1>2. CASE s.mode = "fixed_time"
  <2>1. CASE s.days = {}
    BY <1>1, <1>2, <2>1 DEF NextAtStart, NextFixed
  <2>2. CASE s.days # {}
    <3>1. NextSlot(clock, s, NextFixed(s))
      BY <2>2, NextFixedIsNext
    <3>2. NextFixed(s) \in 1..Horizon
      BY <3>1, Sizes, HorizonBounds DEF NextSlot
    <3>3. NextAtStart(s) = NextFixed(s)
      BY <1>2 DEF NextAtStart
    <3> QED BY <1>1, <1>2, <3>1, <3>2, <3>3 DEF OnTime
  <2> QED BY <2>1, <2>2
<1>3. CASE s.mode = "interval"
  <2>1. NextAtStart(s) = s.interval
    BY <1>3 DEF NextAtStart
  <2>2. s.interval \in 1..Horizon
    BY ScheduleParts, HorizonBounds
  <2> QED BY <1>1, <1>3, <2>1, <2>2 DEF OnTime
<1> QED BY <1>2, <1>3, ScheduleParts

\* What is written after a run is on time, counted from where SinceAnchor says.
Settling(s) == IF s.anchor = "finish" THEN NextAfterFinish(s)
               ELSE IF outcome = "skipped" THEN NextAtStart(s) ELSE NextAfterStart(s)

LEMMA SettlingOnTime ==
  ASSUME clock \in 0..(WeekTicks - 1), elapsed \in Nat, NEW s \in Schedules
  PROVE  /\ Settling(s) \in {None} \cup 1..Horizon
         /\ Settling(s) # None => OnTime(clock, s, Settling(s), SinceAnchor(s))
<1>1. CASE s.mode = "interval" /\ s.anchor = "start" /\ outcome # "skipped"
  <2>1. Settling(s) = NextAfterStart(s) /\ SinceAnchor(s) = elapsed % s.interval
    BY <1>1 DEF Settling, SinceAnchor
  <2>2. Settling(s) \in 1..s.interval /\ SinceAnchor(s) \in Nat /\ Settling(s) + SinceAnchor(s) = s.interval
    BY <1>1, <2>1, NextAfterStartIsNext, Zenon
  <2>3. s.interval \in Nat /\ s.interval <= Horizon /\ Horizon \in Nat
    BY ScheduleParts, HorizonBounds
  <2>4. Settling(s) \in 1..Horizon
    BY <2>2, <2>3
  <2> QED BY <1>1, <2>2, <2>4 DEF OnTime
<1>2. CASE ~(s.mode = "interval" /\ s.anchor = "start" /\ outcome # "skipped")
  <2>1. SinceAnchor(s) = 0
    BY <1>2 DEF SinceAnchor
  <2>2. Settling(s) = NextAtStart(s)
    <3>1. CASE s.anchor = "finish" \/ outcome = "skipped"
      BY <3>1, AtStartOnTime DEF Settling
    <3>2. CASE s.mode = "fixed_time"
      BY <3>2 DEF Settling, NextAtStart, NextAfterStart, NextAfterFinish
    <3> QED BY <1>2, <3>1, <3>2, ScheduleParts
  <2> QED BY <2>1, <2>2, AtStartOnTime
<1> QED BY <1>1, <1>2

\* As time passes, a time that is on time stays so until its slot has come.
LEMMA StillOnTime ==
  ASSUME clock \in 0..(WeekTicks - 1), NEW s \in Schedules, NEW at, NEW since,
         OnTime(clock, s, at, since), NEW k \in Nat \ {0}
  PROVE  LET comes == IF s.mode = "fixed_time"
                      THEN \E i \in 1..k : (clock + i) % WeekTicks \in SlotsOf(s)
                      ELSE since + k >= s.interval
             after == IF s.mode = "fixed_time" THEN 0 ELSE (since + k) % s.interval
         IN  /\ comes <=> at <= k
             /\ at > k => OnTime((clock + k) % WeekTicks, s, at - k, after)
<1>0. at \in 1..Horizon /\ since \in Nat /\ Horizon \in Nat /\ clock \in Int /\ WeekTicks \in Nat \ {0}
  BY HorizonBounds, Sizes DEF OnTime
<1>1. CASE s.mode = "fixed_time"
  <2>1. /\ (clock + at) % WeekTicks \in SlotsOf(s) /\ at \in 1..WeekTicks
        /\ \A i \in 1..(at - 1) : (clock + i) % WeekTicks \notin SlotsOf(s)
    BY <1>1 DEF OnTime, NextSlot
  <2>2. (\E i \in 1..k : (clock + i) % WeekTicks \in SlotsOf(s)) <=> at <= k
    <3>1. ASSUME at <= k PROVE \E i \in 1..k : (clock + i) % WeekTicks \in SlotsOf(s)
      <4>1. at \in 1..k
        BY <1>0, <3>1
      <4> QED BY <2>1, <4>1, Zenon
    <3>2. ASSUME ~(at <= k), NEW i \in 1..k PROVE (clock + i) % WeekTicks \notin SlotsOf(s)
      <4>1. i \in 1..(at - 1)
        BY <1>0, <3>2
      <4> QED BY <2>1, <4>1, Zenon
    <3> QED BY <3>1, <3>2
  <2>3. ASSUME at > k PROVE NextSlot((clock + k) % WeekTicks, s, at - k)
    <3> DEFINE now == (clock + k) % WeekTicks
    <3>1. \A i \in Int : (now + i) % WeekTicks = (clock + (k + i)) % WeekTicks
      <4> SUFFICES ASSUME NEW i \in Int PROVE (now + i) % WeekTicks = (clock + (k + i)) % WeekTicks
        OBVIOUS
      <4>1. clock + k \in Int /\ (clock + k) + i = clock + (k + i)
        BY <1>0
      <4>2. (((clock + k) % WeekTicks) + i) % WeekTicks = ((clock + k) + i) % WeekTicks
        BY <1>0, <4>1, ModOfSum, Zenon
      <4> QED BY <4>1, <4>2
    <3> HIDE DEF now
    <3>2. at - k \in 1..WeekTicks /\ at - k \in Int /\ k + (at - k) = at
      BY <1>0, <2>1, <2>3
    <3>3. (now + (at - k)) % WeekTicks \in SlotsOf(s)
      BY <2>1, <3>1, <3>2
    <3>4. ASSUME NEW i \in 1..((at - k) - 1) PROVE (now + i) % WeekTicks \notin SlotsOf(s)
      <4>1. k + i \in 1..(at - 1) /\ i \in Int
        BY <1>0, <2>3
      <4>2. (now + i) % WeekTicks = (clock + (k + i)) % WeekTicks
        BY <3>1, <4>1
      <4> QED BY <2>1, <4>1, <4>2, Zenon
    <3>5. NextSlot(now, s, at - k)
      BY <3>2, <3>3, <3>4 DEF NextSlot
    <3> QED BY <3>5 DEF now
  <2>4. ASSUME at > k PROVE at - k \in 1..Horizon
    BY <1>0, <2>4
  <2> QED BY <1>1, <2>2, <2>3, <2>4 DEF OnTime
<1>2. CASE s.mode = "interval"
  <2>1. at + since = s.interval /\ s.interval \in Nat \ {0}
    BY <1>2, ScheduleParts DEF OnTime
  <2>2. since + k >= s.interval <=> at <= k
    BY <1>0, <2>1
  <2>3. ASSUME at > k PROVE (since + k) % s.interval = since + k
    <3>1. since + k \in 0..(s.interval - 1)
      BY <1>0, <2>1, <2>3
    <3> QED BY <2>1, <3>1, SmallRemainder
  <2>4. ASSUME at > k PROVE at - k \in 1..Horizon /\ since + k \in Nat /\ (at - k) + (since + k) = s.interval
    BY <1>0, <2>1, <2>4
  <2> QED BY <1>2, <2>2, <2>3, <2>4 DEF OnTime
<1> QED BY <1>1, <1>2, ScheduleParts

-----------------------------------------------------------------------------
(* The order of the queue.                                                 *)

LEMMA ShortSeq ==
  ASSUME NEW S, NEW m \in Nat, NEW s
  PROVE  s \in UNION {[1..n -> S] : n \in 0..m} <=> s \in Seq(S) /\ Len(s) <= m
<1>1. ASSUME s \in UNION {[1..n -> S] : n \in 0..m} PROVE s \in Seq(S) /\ Len(s) <= m
  <2>1. PICK n \in 0..m : s \in [1..n -> S]
    BY <1>1
  <2> QED BY <2>1
<1>2. ASSUME s \in Seq(S), Len(s) <= m PROVE s \in UNION {[1..n -> S] : n \in 0..m}
  <2>1. Len(s) \in 0..m /\ s \in [1..Len(s) -> S]
    BY <1>2, LenProperties
  <2> QED BY <2>1
<1> QED BY <1>1, <1>2

\* A sequence of each entry once has each entry at its index.
LEMMA OrderFacts ==
  ASSUME order \in SetToSeqs(Entries)
  PROVE  /\ Len(order) = Cardinality(Entries) /\ Len(order) \in Nat
         /\ order \in [1..Len(order) -> Entries]
         /\ \A e \in Entries : IndexOf(e) \in 1..Len(order)
<1> DEFINE n == Cardinality(Entries)
<1>1. n \in Nat /\ IsFiniteSet(Entries)
  BY FS_CardinalityType, CycleAssumption
<1>2. order \in [1..n -> Entries] /\ \A i, j \in 1..n : i # j => order[i] # order[j]
  BY DEF SetToSeqs
<1>3. Len(order) = n
  <2> HIDE DEF n
  <2> QED BY <1>1, <1>2
<1>4. IsFiniteSet(1..n) /\ Cardinality(1..n) = n
  <2> HIDE DEF n
  <2>1. 1 \in Int /\ n \in Int
    BY <1>1
  <2>2. IsFiniteSet(1..n) /\ Cardinality(1..n) = IF 1 > n THEN 0 ELSE n - 1 + 1
    BY <2>1, FS_Interval
  <2> QED BY <1>1, <2>2
<1>5. order \in Injection(1..n, Entries)
  BY <1>2 DEF Injection, IsInjective
<1>6. order \in Surjection(1..n, Entries)
  BY <1>1, <1>4, <1>5, FS_Injection, Zenon
<1>7. \A e \in Entries : IndexOf(e) \in 1..n
  BY <1>3, <1>6 DEF Surjection, IndexOf
<1> QED BY <1>1, <1>2, <1>3, <1>7

LEMMA OrderExists ==
  SetToSeq(Entries) \in SetToSeqs(Entries)
<1> DEFINE n == Cardinality(Entries)
<1>1. ExistsBijection(1..n, Entries)
  BY FS_CardinalityType, CycleAssumption
<1>2. \E f \in [1..n -> Entries] : IsInjective(f)
  BY <1>1 DEF ExistsBijection, Bijection, Injection
<1>3. SetToSeq(Entries) \in [1..n -> Entries] /\ IsInjective(SetToSeq(Entries))
  BY <1>2 DEF SetToSeq
<1> QED BY <1>3 DEF SetToSeqs, IsInjective

LEMMA OrderReversed ==
  ASSUME order \in SetToSeqs(Entries)
  PROVE  Reverse(order) \in SetToSeqs(Entries)
<1> DEFINE n == Cardinality(Entries)
           r == Reverse(order)
<1>1. n \in Nat /\ Len(order) = n
  BY OrderFacts
<1>2. order \in [1..n -> Entries] /\ \A i, j \in 1..n : i # j => order[i] # order[j]
  BY DEF SetToSeqs
<1>3. r = [i \in 1..n |-> order[(n - i) + 1]]
  BY <1>1 DEF Reverse
<1> HIDE DEF n, r
<1>4. \A i \in 1..n : (n - i) + 1 \in 1..n
  BY <1>1
<1>5. r \in [1..n -> Entries]
  BY <1>2, <1>3, <1>4
<1>6. ASSUME NEW i \in 1..n, NEW j \in 1..n, i # j PROVE r[i] # r[j]
  <2>1. (n - i) + 1 # (n - j) + 1
    BY <1>1, <1>6
  <2> QED BY <1>2, <1>3, <1>4, <2>1
<1>7. r \in [1..n -> Entries] /\ \A i, j \in 1..n : i # j => r[i] # r[j]
  BY <1>5, <1>6
<1> QED BY <1>7 DEF SetToSeqs, n, r

LEMMA InOrderShort ==
  ASSUME NEW S \in SUBSET Entries, NEW p \in InOrder(S)
  PROVE  p \in Seq(S) /\ Len(p) <= Cardinality(Entries)
<1>1. p \in [1..Cardinality(S) -> S]
  BY DEF InOrder, SetToSeqs
<1>2. /\ Cardinality(S) \in Nat /\ Cardinality(Entries) \in Nat
      /\ Cardinality(S) <= Cardinality(Entries)
  <2>1. IsFiniteSet(Entries) /\ IsFiniteSet(S)
    BY FS_Subset, CycleAssumption
  <2> QED BY <2>1, FS_Subset, FS_CardinalityType
<1> DEFINE n == Cardinality(S)
<1> HIDE DEF n
<1>3. p \in [1..n -> S] /\ n \in Nat
  BY <1>1, <1>2 DEF n
<1>4. p \in Seq(S) /\ Len(p) = n
  BY <1>3
<1> QED BY <1>2, <1>4 DEF n

-----------------------------------------------------------------------------
(* The invariant, one action after the other.                              *)

LEMMA Sequences ==
  ASSUME TypeOK
  PROVE  /\ Len(order) \in Nat
         /\ firsts \in Seq(Values) /\ Len(firsts) <= Len(order)
         /\ pending \in Seq(Entries) /\ Len(pending) <= Len(order)
<1>1. Len(order) \in Nat
  BY OrderFacts DEF TypeOK
<1>2. /\ firsts \in UNION {[1 .. n -> Values] : n \in 0 .. Len(order)}
      /\ pending \in UNION {[1 .. n -> Entries] : n \in 0 .. Len(order)}
  BY DEF TypeOK
<1> QED BY <1>1, <1>2, ShortSeq, Zenon

\* What Tail leaves is short enough still.
LEMMA TailShort ==
  ASSUME NEW S, NEW s \in Seq(S), s # <<>>, NEW m \in Nat, Len(s) <= m
  PROVE  Head(s) \in S /\ Tail(s) \in UNION {[1 .. n -> S] : n \in 0 .. m}
<1>1. Head(s) \in S /\ Tail(s) \in Seq(S) /\ Len(Tail(s)) = Len(s) - 1 /\ Len(s) \in Nat
  BY HeadTailProperties, LenProperties
<1>2. Len(Tail(s)) <= m
  BY <1>1
<1> QED BY <1>1, <1>2, ShortSeq, Zenon

LEMMA NothingIsShort ==
  ASSUME NEW S, NEW m \in Nat
  PROVE  <<>> \in UNION {[1 .. n -> S] : n \in 0 .. m}
<1>1. <<>> \in Seq(S) /\ Len(<<>>) = 0
  BY EmptySeq
<1> QED BY <1>1, ShortSeq

LEMMA ScheduleKept ==
  ASSUME OnSchedule, clock' = clock, schedule' = schedule, next' = next, grid' = grid
  PROVE  OnSchedule'
BY DEF OnSchedule

LEMMA ValuesKept ==
  ASSUME ValuesOnTime, clock' = clock, phase' = phase, firsts' = firsts, value' = value,
         elapsed' = elapsed, outcome' = outcome
  PROVE  ValuesOnTime'
BY DEF ValuesOnTime, SinceAnchor

LEMMA NoValues ==
  ASSUME phase' \notin {"recording", "anchoring", "settling"}
  PROVE  ValuesOnTime'
BY DEF ValuesOnTime

LEMMA SinceInRange ==
  ASSUME TypeOK, NEW s \in Schedules
  PROVE  SinceAnchor(s) \in 0..Horizon
<1>1. elapsed \in Int /\ s.interval \in Nat \ {0} /\ s.interval <= Horizon /\ Horizon \in Nat
  BY ScheduleParts, HorizonBounds, CycleAssumption DEF TypeOK
<1>2. elapsed % s.interval \in 0..(s.interval - 1)
  BY <1>1, DivMod
<1> QED BY <1>1, <1>2 DEF SinceAnchor

\* A time that is on time is stored as such, and one from an edited schedule is not relied on.
LEMMA StoresOnTime ==
  ASSUME TypeOK, OnSchedule, NEW v \in Values, NEW since \in 0..Horizon,
         v.at # None => OnTime(clock, v.from, v.at, since),
         Stores(v, since), clock' = clock, schedule' = schedule
  PROVE  /\ OnSchedule'
         /\ next' \in [Entries -> {None} \cup 0 .. Horizon]
         /\ grid' \in [Entries -> [fresh: BOOLEAN, owed: BOOLEAN, since: 0 .. Horizon]]
<1>1. v.entry \in Entries /\ v.at \in {None} \cup 1..Horizon /\ Horizon \in Nat
  BY HorizonBounds DEF Values
<1>2. /\ next' = [next EXCEPT ![v.entry] = v.at]
      /\ grid' = [grid EXCEPT ![v.entry] =
                    IF v.at # None /\ v.from = schedule[v.entry] THEN Known(since) ELSE Unknown]
  BY DEF Stores
<1>3. /\ next \in [Entries -> {None} \cup 0 .. Horizon]
      /\ grid \in [Entries -> [fresh: BOOLEAN, owed: BOOLEAN, since: 0 .. Horizon]]
  BY DEF TypeOK
<1>4. next' \in [Entries -> {None} \cup 0 .. Horizon]
  BY <1>1, <1>2, <1>3
<1>5. /\ Known(since) \in [fresh: BOOLEAN, owed: BOOLEAN, since: 0 .. Horizon]
      /\ Unknown \in [fresh: BOOLEAN, owed: BOOLEAN, since: 0 .. Horizon]
      /\ Known(since).fresh /\ ~Known(since).owed /\ Known(since).since = since /\ ~Unknown.fresh
  BY <1>1 DEF Known, Unknown
<1>6. grid' \in [Entries -> [fresh: BOOLEAN, owed: BOOLEAN, since: 0 .. Horizon]]
  BY <1>2, <1>3, <1>5
<1>7. ASSUME NEW e \in Entries, grid'[e].fresh
      PROVE  IF grid'[e].owed THEN next'[e] = 0
             ELSE OnTime(clock, schedule[e], next'[e], grid'[e].since)
  <2>1. CASE e = v.entry
    <3>1. next'[e] = v.at /\ grid'[e] = IF v.at # None /\ v.from = schedule[e] THEN Known(since) ELSE Unknown
      BY <1>2, <1>3, <2>1
    <3>2. v.at # None /\ v.from = schedule[e] /\ grid'[e] = Known(since)
      BY <1>5, <1>7, <3>1
    <3> QED BY <1>5, <3>1, <3>2
  <2>2. CASE e # v.entry
    <3>1. next'[e] = next[e] /\ grid'[e] = grid[e]
      BY <1>2, <1>3, <2>2
    <3> QED BY <1>7, <3>1 DEF OnSchedule
  <2> QED BY <2>1, <2>2
<1> QED BY <1>4, <1>6, <1>7 DEF OnSchedule

LEMMA InitStep ==
  ASSUME Init PROVE Inv
<1>1. order \in SetToSeqs(Entries)
  BY OrderExists DEF Init
<1>2. Len(order) \in Nat /\ Horizon \in Nat
  BY <1>1, OrderFacts, HorizonBounds
<1>3. TypeOK
  <2>1. /\ firsts \in UNION {[1 .. n -> Values] : n \in 0 .. Len(order)}
        /\ pending \in UNION {[1 .. n -> Entries] : n \in 0 .. Len(order)}
    BY <1>2, NothingIsShort DEF Init
  <2>2. grid \in [Entries -> [fresh: BOOLEAN, owed: BOOLEAN, since: 0 .. Horizon]]
    BY <1>2 DEF Init, Unknown
  <2>3. schedule \in [Entries -> Schedules] /\ edits \in 0..MaxEdits /\ elapsed \in 0..MaxRun
    BY CycleAssumption DEF Init
  <2>4. /\ next \in [Entries -> {None} \cup 0 .. Horizon] /\ enabled \in [Entries -> BOOLEAN]
        /\ row \in 0 .. Len(order) /\ phase \in Phases
    BY <1>2 DEF Init, Phases, Writing
  <2> QED BY <1>1, <2>1, <2>2, <2>3, <2>4 DEF Init, TypeOK
<1>4. PhaseInv /\ ValuesOnTime /\ OnSchedule
  BY DEF Init, PhaseInv, ValuesOnTime, OnSchedule, Unknown
<1> QED BY <1>3, <1>4 DEF Inv

LEMMA MaxWithZero ==
  ASSUME NEW a \in Int
  PROVE  Max({0, a}) = IF a > 0 THEN a ELSE 0
<1>1. CASE a > 0
  <2>1. \A y \in {0, a} : y <= a
    BY <1>1
  <2> QED BY <1>1, <2>1, MaxIs
<1>2. CASE ~(a > 0)
  <2>1. \A y \in {0, a} : y <= 0
    BY <1>2
  <2> QED BY <1>2, <2>1, MaxIs
<1> QED BY <1>1, <1>2

\* What becomes of one entry as time passes.
LEMMA EntryTicks ==
  ASSUME Inv, NEW k \in 1..MaxJump, Tick(k), NEW e \in Entries
  PROVE  /\ next'[e] \in {None} \cup 0..Horizon
         /\ grid'[e] \in [fresh: BOOLEAN, owed: BOOLEAN, since: 0 .. Horizon]
         /\ grid'[e].fresh => IF grid'[e].owed THEN next'[e] = 0
                              ELSE OnTime(clock', schedule[e], next'[e], grid'[e].since)
<1> DEFINE s == schedule[e]
           g == grid[e]
           n == next[e]
           after == IF s.mode = "fixed_time" THEN 0 ELSE (g.since + k) % s.interval
<1>1. /\ s \in Schedules /\ n \in {None} \cup 0..Horizon /\ Horizon \in Nat
      /\ g \in [fresh: BOOLEAN, owed: BOOLEAN, since: 0 .. Horizon]
      /\ clock \in 0..(WeekTicks - 1) /\ k \in Nat \ {0} /\ None \notin Int
  <2>1. /\ schedule \in [Entries -> Schedules] /\ next \in [Entries -> {None} \cup 0 .. Horizon]
        /\ grid \in [Entries -> [fresh: BOOLEAN, owed: BOOLEAN, since: 0 .. Horizon]]
        /\ clock \in 0..(WeekTicks - 1)
    BY DEF Inv, TypeOK
  <2>2. MaxJump \in Nat /\ None \notin Int
    BY CycleAssumption
  <2> QED BY <2>1, <2>2, HorizonBounds
<1>2. /\ clock' = (clock + k) % WeekTicks
      /\ next'[e] = IF n = None THEN None ELSE Max({0, n - k})
      /\ grid'[e] = Passed(e, k)
  BY DEF Tick
<1>3. g.fresh => IF g.owed THEN n = 0 ELSE OnTime(clock, s, n, g.since)
  BY DEF Inv, OnSchedule
<1> HIDE DEF s, g, n
<1>4. n # None => next'[e] = IF n > k THEN n - k ELSE 0
  <2> SUFFICES ASSUME n # None PROVE next'[e] = IF n > k THEN n - k ELSE 0
    OBVIOUS
  <2>1. n \in Int /\ k \in Int /\ n - k \in Int
    BY <1>1
  <2>2. Max({0, n - k}) = IF n - k > 0 THEN n - k ELSE 0
    BY <2>1, MaxWithZero
  <2> QED BY <1>2, <2>1, <2>2
<1>5. after \in 0..Horizon
  <2>1. s.interval \in Nat \ {0} /\ s.interval <= Horizon /\ g.since + k \in Int
    BY <1>1, ScheduleParts, HorizonBounds
  <2>2. (g.since + k) % s.interval \in 0..(s.interval - 1)
    BY <2>1, DivMod
  <2> QED BY <1>1, <2>1, <2>2
<1>6. CASE ~g.fresh
  <2>1. grid'[e] = Unknown
    BY <1>2, <1>6 DEF Passed, g
  <2> QED BY <1>1, <1>2, <1>4, <2>1 DEF Unknown
<1>7. CASE g.fresh
  <2>1. grid'[e] = [fresh |-> TRUE, owed |-> g.owed \/ SlotComes(e, k), since |-> after]
    BY <1>2, <1>7 DEF Passed, g, s
  <2>1a. /\ grid'[e].fresh /\ grid'[e].since = after
         /\ grid'[e].owed = (g.owed \/ SlotComes(e, k))
    BY <2>1
  <2>1b. grid'[e] \in [fresh: BOOLEAN, owed: BOOLEAN, since: 0 .. Horizon]
    <3>1. (g.owed \/ SlotComes(e, k)) \in BOOLEAN
      BY <1>1 DEF SlotComes
    <3> HIDE DEF after
    <3> QED BY <1>5, <2>1, <3>1
  <2>2. CASE g.owed
    <3>1. n = 0 /\ next'[e] = 0
      BY <1>1, <1>3, <1>4, <1>7, <2>2
    <3> QED BY <1>1, <2>1a, <2>1b, <2>2, <3>1
  <2>3. CASE ~g.owed
    <3>1. OnTime(clock, s, n, g.since)
      BY <1>3, <1>7, <2>3
    <3>2. n \in 1..Horizon /\ n # None
      BY <1>1, <3>1 DEF OnTime
    <3>3. /\ SlotComes(e, k) <=> n <= k
          /\ n > k => OnTime(clock', s, n - k, after)
      BY <1>1, <1>2, <3>1, StillOnTime DEF SlotComes, s, g
    <3>4. CASE n <= k
      <4>1. next'[e] = 0 /\ grid'[e].owed
        BY <1>1, <1>4, <2>1a, <3>2, <3>3, <3>4
      <4> QED BY <1>1, <2>1b, <4>1
    <3>5. CASE n > k
      <4>1. next'[e] = n - k /\ ~grid'[e].owed
        BY <1>1, <1>4, <2>1a, <2>3, <3>2, <3>3, <3>5
      <4>2. next'[e] \in 0..Horizon
        BY <1>1, <3>2, <3>5, <4>1
      <4>3. OnTime(clock', s, next'[e], grid'[e].since)
        BY <2>1a, <3>3, <3>5, <4>1
      <4> QED BY <2>1b, <4>1, <4>2, <4>3 DEF s
    <3> QED BY <1>1, <3>2, <3>4, <3>5
  <2> QED BY <2>2, <2>3
<1> QED BY <1>6, <1>7

LEMMA TickStep ==
  ASSUME Inv, NEW k \in 1..MaxJump, Tick(k) PROVE Inv'
<1>1. /\ next' \in [Entries -> {None} \cup 0 .. Horizon]
      /\ grid' \in [Entries -> [fresh: BOOLEAN, owed: BOOLEAN, since: 0 .. Horizon]]
  <2>1. next' = [e \in Entries |-> next'[e]] /\ grid' = [e \in Entries |-> grid'[e]]
    BY DEF Tick
  <2> QED BY <2>1, EntryTicks
<1>2. OnSchedule'
  BY EntryTicks DEF OnSchedule, Tick, userVars
<1>3. clock' \in 0..(WeekTicks - 1)
  <2>1. clock + k \in Int
    BY Sizes DEF Inv, TypeOK
  <2> QED BY <2>1, Sizes, DivMod DEF Tick
<1>4. elapsed' \in 0..MaxRun
  BY CycleAssumption DEF Tick, Inv, TypeOK
<1>5. TypeOK'
  BY <1>1, <1>3, <1>4 DEF Inv, TypeOK, Tick, userVars, roundVars
<1>6. PhaseInv' /\ ValuesOnTime'
  BY NoValues DEF Inv, PhaseInv, Tick, roundVars, Writing
<1> QED BY <1>2, <1>5, <1>6 DEF Inv

LEMMA ReschedulesStep ==
  ASSUME Inv, NEW e \in Entries, Reschedules(e) PROVE Inv'
<1>1. PICK s \in Schedules : schedule' = [schedule EXCEPT ![e] = s]
  BY DEF Reschedules
<1>2. grid' = [grid EXCEPT ![e] = Unknown] /\ Unknown \in [fresh: BOOLEAN, owed: BOOLEAN, since: 0 .. Horizon]
  BY HorizonBounds DEF Reschedules, Unknown
<1>3. /\ schedule \in [Entries -> Schedules]
      /\ grid \in [Entries -> [fresh: BOOLEAN, owed: BOOLEAN, since: 0 .. Horizon]]
  BY DEF Inv, TypeOK
<1>4. /\ schedule' \in [Entries -> Schedules]
      /\ grid' \in [Entries -> [fresh: BOOLEAN, owed: BOOLEAN, since: 0 .. Horizon]]
  BY <1>1, <1>2, <1>3
<1>5. edits' \in 0..MaxEdits
  BY CycleAssumption DEF Reschedules, Inv, TypeOK
<1>6. TypeOK'
  BY <1>4, <1>5 DEF Inv, TypeOK, Reschedules, roundVars, runVars
<1>7. OnSchedule'
  <2> SUFFICES ASSUME NEW f \in Entries, grid'[f].fresh
               PROVE  IF grid'[f].owed THEN next'[f] = 0
                      ELSE OnTime(clock', schedule'[f], next'[f], grid'[f].since)
    BY DEF OnSchedule
  <2>1. f # e
    BY <1>2, <1>3 DEF Unknown
  <2>2. grid'[f] = grid[f] /\ schedule'[f] = schedule[f] /\ next' = next /\ clock' = clock
    BY <1>1, <1>2, <1>3, <2>1 DEF Reschedules
  <2> QED BY <2>2 DEF Inv, OnSchedule
<1>8. PhaseInv' /\ ValuesOnTime'
  BY ValuesKept DEF Inv, PhaseInv, Reschedules, roundVars, runVars
<1> QED BY <1>6, <1>7, <1>8 DEF Inv

LEMMA RunsOnceStep ==
  ASSUME Inv, NEW e \in Entries, RunsOnce(e) PROVE Inv'
<1>1. /\ next' = [next EXCEPT ![e] = 0] /\ grid' = [grid EXCEPT ![e].owed = grid[e].fresh]
      /\ clock' = clock /\ schedule' = schedule
  BY DEF RunsOnce, userVars
<1>2. /\ next \in [Entries -> {None} \cup 0 .. Horizon] /\ Horizon \in Nat
      /\ grid \in [Entries -> [fresh: BOOLEAN, owed: BOOLEAN, since: 0 .. Horizon]]
  BY HorizonBounds DEF Inv, TypeOK
<1>3. /\ next' \in [Entries -> {None} \cup 0 .. Horizon]
      /\ grid' \in [Entries -> [fresh: BOOLEAN, owed: BOOLEAN, since: 0 .. Horizon]]
  BY <1>1, <1>2
<1>4. TypeOK'
  BY <1>3 DEF Inv, TypeOK, RunsOnce, userVars, roundVars, runVars
<1>5. OnSchedule'
  <2> SUFFICES ASSUME NEW f \in Entries, grid'[f].fresh
               PROVE  IF grid'[f].owed THEN next'[f] = 0
                      ELSE OnTime(clock', schedule'[f], next'[f], grid'[f].since)
    BY DEF OnSchedule
  <2>1. CASE f = e
    <3>1. next'[f] = 0 /\ grid'[f].owed = grid[f].fresh /\ grid'[f].fresh = grid[f].fresh
      BY <1>1, <1>2, <2>1
    <3> QED BY <3>1
  <2>2. CASE f # e
    <3>1. next'[f] = next[f] /\ grid'[f] = grid[f]
      BY <1>1, <1>2, <2>2
    <3> QED BY <1>1, <3>1 DEF Inv, OnSchedule
  <2> QED BY <2>1, <2>2
<1>6. PhaseInv' /\ ValuesOnTime'
  BY <1>1, ValuesKept DEF Inv, PhaseInv, RunsOnce, roundVars, runVars
<1> QED BY <1>4, <1>5, <1>6 DEF Inv

LEMMA SwitchesStep ==
  ASSUME Inv, NEW e \in Entries, Switches(e) PROVE Inv'
<1>1. edits' \in 0..MaxEdits /\ enabled' \in [Entries -> BOOLEAN]
  BY CycleAssumption DEF Switches, Inv, TypeOK
<1>2. TypeOK'
  BY <1>1 DEF Inv, TypeOK, Switches, roundVars, runVars
<1>3. OnSchedule' /\ PhaseInv' /\ ValuesOnTime'
  BY ScheduleKept, ValuesKept DEF Inv, PhaseInv, Switches, roundVars, runVars
<1> QED BY <1>2, <1>3 DEF Inv

LEMMA ReordersStep ==
  ASSUME Inv, AsksReorder \/ Reorders PROVE Inv'
<1>1. edits' \in 0..MaxEdits /\ staged' \in BOOLEAN
  <2>1. edits \in 0..MaxEdits /\ MaxEdits \in Nat
    BY CycleAssumption DEF Inv, TypeOK
  <2>2. CASE AsksReorder
    BY <2>1, <2>2 DEF AsksReorder
  <2>3. CASE Reorders
    BY <2>1, <2>3 DEF Reorders
  <2> QED BY <2>2, <2>3
<1>2. order' \in SetToSeqs(Entries) /\ Len(order') = Len(order)
  <2>1. order \in SetToSeqs(Entries)
    BY DEF Inv, TypeOK
  <2>2. CASE order' = order
    BY <2>1, <2>2
  <2>3. CASE order' = Reverse(order)
    <3>1. order' \in SetToSeqs(Entries)
      BY <2>1, <2>3, OrderReversed
    <3>2. Len(order) \in Nat
      BY <2>1, OrderFacts
    <3>3. Len(order') = Len(order)
      BY <2>3, <3>2 DEF Reverse
    <3> QED BY <3>1, <3>3
  <2> QED BY <2>2, <2>3 DEF AsksReorder, Reorders
<1>3. TypeOK'
  <2>1. UNCHANGED <<clock, schedule, enabled, next, phase, roundVars, runVars, grid>>
    BY DEF AsksReorder, Reorders
  <2> QED BY <1>1, <1>2, <2>1 DEF Inv, TypeOK, roundVars, runVars
<1>4. OnSchedule' /\ PhaseInv' /\ ValuesOnTime'
  <2>1. UNCHANGED <<clock, schedule, enabled, next, phase, roundVars, runVars, grid>>
    BY DEF AsksReorder, Reorders
  <2> QED BY <2>1, ScheduleKept, ValuesKept DEF Inv, PhaseInv, roundVars, runVars
<1> QED BY <1>3, <1>4 DEF Inv

LEMMA StartsStep ==
  ASSUME Inv, Starts PROVE Inv'
<1>1. TypeOK'
  BY DEF Inv, TypeOK, Starts, userVars, runVars, Phases
<1>2. OnSchedule' /\ PhaseInv' /\ ValuesOnTime'
  BY ScheduleKept, NoValues DEF Inv, PhaseInv, Starts, userVars
<1> QED BY <1>1, <1>2 DEF Inv

LEMMA EndsStep ==
  ASSUME Inv, Ends PROVE Inv'
<1>1. /\ firsts' \in UNION {[1 .. n -> Values] : n \in 0 .. Len(order)}
      /\ pending' \in UNION {[1 .. n -> Entries] : n \in 0 .. Len(order)}
      /\ Len(order) \in Nat
  BY Sequences, NothingIsShort DEF Inv, Ends
<1>2. /\ elapsed' \in 0..MaxRun /\ row' \in 0..Len(order) /\ phase' \in Phases
      /\ results' \in {"none", "no_run", "run"}
  BY <1>1, CycleAssumption DEF Ends, Phases
<1>3. frozen' = <<>> /\ current' = None /\ outcome' = None /\ value' = None
      /\ UNCHANGED <<clock, userVars, next, grid>>
  BY DEF Ends
<1>4. TypeOK'
  BY <1>1, <1>2, <1>3 DEF Inv, TypeOK, userVars
<1>5. OnSchedule' /\ PhaseInv' /\ ValuesOnTime'
  BY ScheduleKept, NoValues DEF Inv, PhaseInv, Ends, userVars
<1> QED BY <1>4, <1>5 DEF Inv

\* The first times a round collects are slots of fixed schedules: the others are due at once.
LEMMA RoundStep ==
  ASSUME Inv, Round PROVE Inv'
<1>1. PICK late \in InOrder({e \in Entries : IsDue(e)}),
           unset \in InOrder({e \in Entries : next[e] = None /\ Collected(e) /\ ~IsDue(e)}) :
           /\ firsts' = [i \in 1 .. Len(unset) |-> Computed(unset[i], ResolveNext(unset[i]))]
           /\ pending' = late
           /\ phase' = IF unset # <<>> THEN "recording" ELSE IF late = <<>> THEN "asleep" ELSE "due"
  BY DEF Round
<1> DEFINE U == {e \in Entries : next[e] = None /\ Collected(e) /\ ~IsDue(e)}
<1>2. /\ unset \in Seq(U) /\ Len(unset) <= Len(order) /\ Len(unset) \in Nat
      /\ late \in Seq(Entries) /\ Len(late) <= Len(order) /\ Len(order) \in Nat
  <2>1. Len(order) = Cardinality(Entries) /\ Len(order) \in Nat
    BY OrderFacts DEF Inv, TypeOK
  <2>2. {e \in Entries : IsDue(e)} \in SUBSET Entries /\ U \in SUBSET Entries
    OBVIOUS
  <2>3. late \in Seq({e \in Entries : IsDue(e)}) /\ Len(late) <= Cardinality(Entries)
    BY <2>2, InOrderShort, Zenon
  <2>4. unset \in Seq(U) /\ Len(unset) <= Cardinality(Entries)
    BY <2>2, InOrderShort, Zenon
  <2>5. late \in Seq(Entries) /\ Len(unset) \in Nat
    BY <2>2, <2>3, <2>4
  <2> QED BY <2>1, <2>3, <2>4, <2>5
<1>3. ASSUME NEW e \in U
      PROVE  /\ Computed(e, ResolveNext(e)) \in Values
             /\ OnTime(clock, schedule[e], ResolveNext(e), 0)
  <2>1. /\ schedule[e] \in Schedules /\ e \in Entries /\ clock \in 0..(WeekTicks - 1)
        /\ next[e] = None /\ ResolveNext(e) # None /\ ResolveNext(e) # 0
    BY DEF Inv, TypeOK, Collected, IsDue
  <2>2. schedule[e].mode = "fixed_time" /\ ResolveNext(e) = NextFixed(schedule[e])
    BY <2>1 DEF ResolveNext
  <2>3. ResolveNext(e) = NextAtStart(schedule[e])
    BY <2>2 DEF NextAtStart
  <2>4. ResolveNext(e) \in {None} \cup 1..Horizon /\ OnTime(clock, schedule[e], ResolveNext(e), 0)
    BY <2>1, <2>3, AtStartOnTime
  <2> QED BY <2>1, <2>4 DEF Computed, Values
<1> HIDE DEF U
<1>4. \A i \in 1..Len(unset) : unset[i] \in U
  BY <1>2, ElementOfSeq
<1>5. firsts' \in Seq(Values) /\ Len(firsts') = Len(unset)
  <2>1. \A i \in 1..Len(unset) : Computed(unset[i], ResolveNext(unset[i])) \in Values
    BY <1>3, <1>4
  <2>2. firsts' \in [1..Len(unset) -> Values]
    BY <1>1, <2>1
  <2> QED BY <1>2, <2>2
<1>6. /\ firsts' \in UNION {[1 .. n -> Values] : n \in 0 .. Len(order)}
      /\ pending' \in UNION {[1 .. n -> Entries] : n \in 0 .. Len(order)}
  BY <1>1, <1>2, <1>5, ShortSeq
<1>7. TypeOK'
  BY <1>1, <1>6 DEF Inv, TypeOK, Round, userVars, runVars, Phases, Writing
<1>8. PhaseInv'
  <2>1. ASSUME phase' = "recording" PROVE firsts' # <<>>
    <3>1. unset # <<>>
      BY <1>1, <2>1
    <3>2. Len(unset) # 0
      BY <1>2, <3>1, EmptySeq
    <3> QED BY <1>5, <3>2
  <2> QED BY <1>1, <2>1 DEF PhaseInv
<1>9. ValuesOnTime'
  <2>1. ASSUME NEW i \in 1..Len(firsts') PROVE OnTime(clock, firsts'[i].from, firsts'[i].at, 0)
    <3>1. firsts'[i] = Computed(unset[i], ResolveNext(unset[i])) /\ unset[i] \in U
      BY <1>1, <1>4, <1>5, <2>1
    <3> QED BY <1>3, <3>1 DEF Computed
  <2> QED BY <1>1, <2>1 DEF ValuesOnTime, Round
<1>10. OnSchedule'
  BY ScheduleKept DEF Inv, Round, userVars
<1> QED BY <1>7, <1>8, <1>9, <1>10 DEF Inv

LEMMA RecordsFirstStep ==
  ASSUME Inv, RecordsFirst PROVE Inv'
<1>1. /\ firsts \in Seq(Values) /\ Len(firsts) <= Len(order) /\ Len(order) \in Nat
      /\ firsts # <<>> /\ Len(firsts) \in Nat \ {0}
  <2>1. /\ firsts \in Seq(Values) /\ Len(firsts) <= Len(order) /\ Len(order) \in Nat /\ firsts # <<>>
    BY Sequences DEF Inv, PhaseInv, RecordsFirst
  <2> QED BY <2>1, EmptySeq, LenProperties
<1>2. /\ Tail(firsts) \in UNION {[1 .. n -> Values] : n \in 0 .. Len(order)}
      /\ Head(firsts) \in Values /\ Head(firsts) = firsts[1]
  BY <1>1, TailShort
<1>3. \A i \in 1..Len(firsts) : firsts[i].at # None => OnTime(clock, firsts[i].from, firsts[i].at, 0)
  BY DEF Inv, ValuesOnTime, RecordsFirst
<1>4. Head(firsts).at # None => OnTime(clock, Head(firsts).from, Head(firsts).at, 0)
  <2>1. 1 \in 1..Len(firsts)
    BY <1>1
  <2> QED BY <1>2, <1>3, <2>1
<1>5. /\ OnSchedule' /\ next' \in [Entries -> {None} \cup 0 .. Horizon]
      /\ grid' \in [Entries -> [fresh: BOOLEAN, owed: BOOLEAN, since: 0 .. Horizon]]
  <2>1. 0 \in 0..Horizon /\ TypeOK /\ OnSchedule /\ clock' = clock /\ schedule' = schedule
    BY HorizonBounds DEF Inv, RecordsFirst, userVars
  <2>2. CASE Stores(Head(firsts), 0)
    BY <1>2, <1>4, <2>1, <2>2, StoresOnTime
  <2>3. CASE UNCHANGED <<next, grid>>
    BY <2>1, <2>3, ScheduleKept DEF TypeOK
  <2> QED BY <2>2, <2>3 DEF RecordsFirst
<1>6. TypeOK'
  BY <1>2, <1>5 DEF Inv, TypeOK, RecordsFirst, userVars, runVars, Phases, Writing
<1>7. PhaseInv'
  BY DEF Inv, PhaseInv, RecordsFirst
<1>8. ValuesOnTime'
  <2>1. ASSUME NEW i \in 1..Len(firsts'), firsts'[i].at # None
        PROVE  OnTime(clock, firsts'[i].from, firsts'[i].at, 0)
    <3>1. Len(Tail(firsts)) = Len(firsts) - 1 /\ \A j \in 1..Len(Tail(firsts)) : Tail(firsts)[j] = firsts[j + 1]
      BY <1>1, HeadTailProperties
    <3>2. firsts' = Tail(firsts)
      BY DEF RecordsFirst
    <3>3. firsts'[i] = firsts[i + 1] /\ i + 1 \in 1..Len(firsts)
      BY <1>1, <3>1, <3>2
    <3> QED BY <1>3, <2>1, <3>3
  <2> QED BY <2>1 DEF ValuesOnTime, RecordsFirst
<1> QED BY <1>5, <1>6, <1>7, <1>8 DEF Inv

LEMMA PausesStep ==
  ASSUME Inv, Wakes \/ RoundEnds PROVE Inv'
<1>1. phase' \in {"round", "asleep"} /\ UNCHANGED <<clock, userVars, next, roundVars, runVars, grid>>
  BY DEF Wakes, RoundEnds
<1>2. TypeOK'
  BY <1>1 DEF Inv, TypeOK, userVars, roundVars, runVars, Phases
<1>3. OnSchedule' /\ PhaseInv' /\ ValuesOnTime'
  BY <1>1, ScheduleKept, NoValues DEF Inv, PhaseInv, userVars, roundVars
<1> QED BY <1>2, <1>3 DEF Inv

\* The entry at the front, and what is left without it.
LEMMA FrontOfPending ==
  ASSUME Inv, pending # <<>>
  PROVE  /\ Head(pending) \in Entries /\ Rest \in UNION {[1 .. n -> Entries] : n \in 0 .. Len(order)}
         /\ IndexOf(Head(pending)) \in 0..Len(order)
<1>1. pending \in Seq(Entries) /\ Len(pending) <= Len(order) /\ Len(order) \in Nat
  BY Sequences DEF Inv
<1>2. Head(pending) \in Entries /\ Rest \in UNION {[1 .. n -> Entries] : n \in 0 .. Len(order)}
  BY <1>1, TailShort DEF Rest
<1>3. IndexOf(Head(pending)) \in 1..Len(order)
  BY <1>2, OrderFacts DEF Inv, TypeOK
<1> QED BY <1>1, <1>2, <1>3

LEMMA NoLongerDueStep ==
  ASSUME Inv, NoLongerDue PROVE Inv'
<1>1. TypeOK'
  BY FrontOfPending DEF Inv, TypeOK, NoLongerDue, userVars, runVars
<1>2. OnSchedule' /\ PhaseInv' /\ ValuesOnTime'
  BY ScheduleKept, NoValues DEF Inv, PhaseInv, NoLongerDue, userVars
<1> QED BY <1>1, <1>2 DEF Inv

LEMMA BlockedStep ==
  ASSUME Inv, Blocked PROVE Inv'
<1>1. TypeOK'
  BY FrontOfPending DEF Inv, TypeOK, Blocked, MayRun, userVars, runVars
<1>2. OnSchedule' /\ PhaseInv' /\ ValuesOnTime'
  BY ScheduleKept, NoValues DEF Inv, PhaseInv, Blocked, MayRun, userVars
<1> QED BY <1>1, <1>2 DEF Inv

LEMMA TakesUpStep ==
  ASSUME Inv, TakesUp PROVE Inv'
<1>1. elapsed' \in 0..MaxRun
  BY CycleAssumption DEF TakesUp
<1>2. TypeOK'
  BY <1>1, FrontOfPending DEF Inv, TypeOK, TakesUp, MayRun, userVars, Phases, Writing
<1>3. PhaseInv'
  BY FrontOfPending DEF Inv, PhaseInv, TakesUp, MayRun
<1>4. OnSchedule' /\ ValuesOnTime'
  BY ScheduleKept, NoValues DEF Inv, TakesUp, MayRun, userVars
<1> QED BY <1>2, <1>3, <1>4 DEF Inv

LEMMA StartIsKeptStep ==
  ASSUME Inv, StartIsKept PROVE Inv'
<1> DEFINE s == schedule[current]
<1>1. current \in Entries /\ pending # <<>> /\ s \in Schedules /\ clock \in 0..(WeekTicks - 1)
  BY DEF Inv, TypeOK, PhaseInv, StartIsKept
<1>2. UNCHANGED <<clock, userVars, next, roundVars, outcome, elapsed, grid>>
  BY DEF StartIsKept
<1>3. \/ phase' = "run" /\ value' = value
      \/ phase' = "anchoring" /\ value' = Computed(current, NextAtStart(s))
  BY DEF StartIsKept
<1> HIDE DEF s
<1>4. /\ Computed(current, NextAtStart(s)) \in Values
      /\ NextAtStart(s) # None => OnTime(clock, s, NextAtStart(s), 0)
  <2>1. s = schedule[current]
    BY DEF s
  <2> QED BY <1>1, <2>1, AtStartOnTime DEF Computed, Values
<1>5. TypeOK'
  BY <1>2, <1>3, <1>4 DEF Inv, TypeOK, userVars, roundVars, Phases, Writing
<1>6. PhaseInv'
  BY <1>1, <1>2, <1>3, <1>4 DEF PhaseInv, roundVars
<1>7. ValuesOnTime'
  <2>1. Computed(current, NextAtStart(s)).at = NextAtStart(s) /\ Computed(current, NextAtStart(s)).from = s
    BY DEF Computed, s
  <2> QED BY <1>2, <1>3, <1>4, <2>1 DEF ValuesOnTime
<1>8. OnSchedule'
  BY <1>2, ScheduleKept DEF Inv, userVars
<1> QED BY <1>5, <1>6, <1>7, <1>8 DEF Inv

LEMMA AnchoredStep ==
  ASSUME Inv, Anchored PROVE Inv'
<1>1. /\ value \in Values /\ (value.at # None => OnTime(clock, value.from, value.at, 0))
      /\ current \in Entries /\ pending # <<>>
  BY DEF Inv, PhaseInv, ValuesOnTime, Anchored
<1>2. /\ OnSchedule' /\ next' \in [Entries -> {None} \cup 0 .. Horizon]
      /\ grid' \in [Entries -> [fresh: BOOLEAN, owed: BOOLEAN, since: 0 .. Horizon]]
  <2>1. 0 \in 0..Horizon /\ TypeOK /\ OnSchedule /\ Stores(value, 0) /\ clock' = clock /\ schedule' = schedule
    BY HorizonBounds DEF Inv, Anchored, userVars
  <2> QED BY <1>1, <2>1, StoresOnTime
<1>3. TypeOK'
  BY <1>2 DEF Inv, TypeOK, Anchored, userVars, roundVars, Phases
<1>4. PhaseInv' /\ ValuesOnTime'
  BY <1>1, NoValues DEF PhaseInv, Anchored, roundVars
<1> QED BY <1>2, <1>3, <1>4 DEF Inv

LEMMA RunEndsStep ==
  ASSUME Inv, RunEnds \/ StartFails PROVE Inv'
<1>1. TypeOK'
  BY DEF Inv, TypeOK, RunEnds, StartFails, userVars, roundVars, Phases, Writing
<1>2. OnSchedule' /\ PhaseInv' /\ ValuesOnTime'
  BY ScheduleKept, NoValues DEF Inv, PhaseInv, RunEnds, StartFails, userVars, roundVars
<1> QED BY <1>1, <1>2 DEF Inv

LEMMA FinishIsKeptStep ==
  ASSUME Inv, FinishIsKept PROVE Inv'
<1> DEFINE s == schedule[current]
<1>1. /\ current \in Entries /\ pending # <<>> /\ s \in Schedules /\ clock \in 0..(WeekTicks - 1)
      /\ elapsed \in Nat
  BY CycleAssumption DEF Inv, TypeOK, PhaseInv, FinishIsKept
<1>2. UNCHANGED <<clock, userVars, next, roundVars, outcome, elapsed, grid>> /\ phase' = "settling"
  BY DEF FinishIsKept
<1>3. value' = Computed(current, Settling(s))
  BY DEF FinishIsKept, Settling
<1>4. value'.at = Settling(s) /\ value'.from = s /\ value'.entry = current
  BY <1>3 DEF Computed
<1> HIDE DEF s
<1>5. /\ Settling(s) \in {None} \cup 1..Horizon
      /\ Settling(s) # None => OnTime(clock, s, Settling(s), SinceAnchor(s))
  BY <1>1, SettlingOnTime
<1>6. value' \in Values
  <2>1. s = schedule[current]
    BY DEF s
  <2> QED BY <1>1, <1>3, <1>5, <2>1 DEF Computed, Values
<1>7. TypeOK'
  BY <1>2, <1>6 DEF Inv, TypeOK, userVars, roundVars, Phases, Writing
<1>8. PhaseInv'
  BY <1>1, <1>2, <1>6 DEF PhaseInv, roundVars
<1>9. ValuesOnTime'
  BY <1>2, <1>4, <1>5 DEF ValuesOnTime, SinceAnchor
<1>10. OnSchedule'
  BY <1>2, ScheduleKept DEF Inv, userVars
<1> QED BY <1>7, <1>8, <1>9, <1>10 DEF Inv

LEMMA SettledStep ==
  ASSUME Inv, Settled PROVE Inv'
<1>1. /\ value \in Values /\ value.from \in Schedules /\ pending # <<>>
      /\ (value.at # None => OnTime(clock, value.from, value.at, SinceAnchor(value.from)))
  BY DEF Inv, PhaseInv, ValuesOnTime, Settled, Values
<1>2. /\ OnSchedule' /\ next' \in [Entries -> {None} \cup 0 .. Horizon]
      /\ grid' \in [Entries -> [fresh: BOOLEAN, owed: BOOLEAN, since: 0 .. Horizon]]
  <2>1. /\ SinceAnchor(value.from) \in 0..Horizon /\ TypeOK /\ OnSchedule
        /\ Stores(value, SinceAnchor(value.from)) /\ clock' = clock /\ schedule' = schedule
    BY <1>1, SinceInRange DEF Inv, Settled, userVars
  <2> QED BY <1>1, <2>1, StoresOnTime
<1>3. elapsed' \in 0..MaxRun
  BY CycleAssumption DEF Settled
<1>4. TypeOK'
  BY <1>1, <1>2, <1>3, FrontOfPending DEF Inv, TypeOK, Settled, userVars, Phases
<1>5. PhaseInv' /\ ValuesOnTime'
  BY NoValues DEF PhaseInv, Settled
<1> QED BY <1>2, <1>4, <1>5 DEF Inv

LEMMA StutterStep ==
  ASSUME Inv, UNCHANGED vars PROVE Inv'
<1>1. TypeOK'
  BY DEF Inv, TypeOK, vars, userVars, roundVars, runVars
<1>2. OnSchedule' /\ PhaseInv' /\ ValuesOnTime'
  BY ScheduleKept, ValuesKept DEF Inv, PhaseInv, vars, userVars, roundVars, runVars
<1> QED BY <1>1, <1>2 DEF Inv

THEOREM Invariance == Spec => []Inv
<1>1. Init => Inv
  BY InitStep
<1>2. Inv /\ [Next]_vars => Inv'
  <2> SUFFICES ASSUME Inv, [Next]_vars PROVE Inv'
    OBVIOUS
  <2>1. CASE CycleStep
    BY <2>1, RoundStep, RecordsFirstStep, PausesStep, NoLongerDueStep, EndsStep, BlockedStep,
       TakesUpStep, StartIsKeptStep, AnchoredStep, FinishIsKeptStep, SettledStep
       DEF CycleStep, OutOfPlace
  <2>2. CASE StartFails \/ RunEnds \/ Starts \/ IsEnded \/ AsksReorder \/ Reorders
    BY <2>2, RunEndsStep, StartsStep, EndsStep, ReordersStep DEF IsEnded
  <2>3. CASE \E e \in Entries : Reschedules(e) \/ Switches(e) \/ RunsOnce(e)
    BY <2>3, ReschedulesStep, SwitchesStep, RunsOnceStep
  <2>4. CASE \E k \in 1 .. MaxJump : Tick(k)
    BY <2>4, TickStep
  <2>5. CASE UNCHANGED vars
    BY <2>5, StutterStep
  <2> QED BY <2>1, <2>2, <2>3, <2>4, <2>5 DEF Next
<1> QED BY <1>1, <1>2, PTL DEF Spec

-----------------------------------------------------------------------------
(* The theorems.                                                           *)

\* The cycle task keeps its types: a first time, a time computed and a time stored are
\* ticks within a week or an interval, and its lists are no longer than the queue.
THEOREM TypeCorrect == Spec => []TypeOK
<1>1. Inv => TypeOK
  BY DEF Inv
<1> QED BY <1>1, Invariance, PTL

\* A stored time that comes from the present schedule is due exactly when the schedule
\* asks for a run that was not had, for any week, any schedules and runs of any length.
THEOREM DueExactlyWhenOwed == Spec => []DueIsOwed
<1>1. Inv => DueIsOwed
  <2> SUFFICES ASSUME Inv, NEW e \in Entries, grid[e].fresh PROVE next[e] = 0 <=> grid[e].owed
    BY DEF DueIsOwed
  <2>1. CASE grid[e].owed
    BY <2>1 DEF Inv, OnSchedule
  <2>2. CASE ~grid[e].owed
    <3>1. next[e] \in 1..Horizon
      BY <2>2 DEF Inv, OnSchedule, OnTime
    <3> QED BY <2>2, <3>1, HorizonBounds
  <2> QED BY <2>1, <2>2
<1> QED BY <1>1, Invariance, PTL

\* A run is shown in, and written to, the row of its own script, whatever changes of the
\* order were committed since the list was frozen.
THEOREM RunsInItsRow == Spec => []RunsItsOwnScript
<1>1. Init => RunsItsOwnScript
  BY DEF Init, RunsItsOwnScript
<1>2. RunsItsOwnScript /\ [Next]_vars => RunsItsOwnScript'
  <2> SUFFICES ASSUME RunsItsOwnScript, [Next]_vars PROVE RunsItsOwnScript'
    OBVIOUS
  <2>1. CASE TakesUp
    BY <2>1 DEF RunsItsOwnScript, TakesUp, MayRun, InPlace
  <2>2. CASE StartIsKept \/ Anchored \/ StartFails \/ RunEnds \/ FinishIsKept
    BY <2>2 DEF RunsItsOwnScript, StartIsKept, Anchored, StartFails, RunEnds, FinishIsKept, roundVars
  <2>3. CASE Round \/ RecordsFirst \/ Wakes \/ NoLongerDue \/ Blocked \/ Settled \/ RoundEnds \/ Starts
    <3>1. phase' \in {"round", "recording", "asleep", "due"}
      BY <2>3 DEF Round, RecordsFirst, Wakes, NoLongerDue, Blocked, MayRun, Settled, RoundEnds, Starts
    <3> QED BY <3>1 DEF RunsItsOwnScript
  <2>4. CASE OutOfPlace \/ IsEnded
    BY <2>4 DEF RunsItsOwnScript, OutOfPlace, IsEnded, Ends
  <2>5. CASE \E e \in Entries : Reschedules(e) \/ Switches(e) \/ RunsOnce(e)
    BY <2>5 DEF RunsItsOwnScript, Reschedules, Switches, RunsOnce, roundVars
  <2>6. CASE AsksReorder \/ Reorders \/ (\E k \in 1 .. MaxJump : Tick(k)) \/ UNCHANGED vars
    BY <2>6 DEF RunsItsOwnScript, AsksReorder, Reorders, Tick, vars, roundVars
  <2> QED BY <2>1, <2>2, <2>3, <2>4, <2>5, <2>6 DEF Next, CycleStep
<1> QED BY <1>1, <1>2, PTL DEF Spec
=============================================================================
