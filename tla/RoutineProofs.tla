----------------------------- MODULE RoutineProofs -----------------------------
(***************************************************************************)
(* What a routine may claim, for every number of routines, items, requests *)
(* and trips: its items are accounted for, its count is of trips that were *)
(* made, its time follows the habit and is never taken away.               *)
(*                                                                         *)
(* The median and the cluster of _typical_minutes are CHOOSEs: that what   *)
(* they name exists is proved from the least-number principle, itself from *)
(* the well-founded order of finite sets.                                  *)
(***************************************************************************)
EXTENDS Routine, FiniteSetTheorems, WellFoundedInduction, TLAPS

\* The leave scans under way.
Scanning(r) == req[r].pc \in {"seeding", "looking", "recorded", "learning"}
\* The scans that have a date and no row in leave_scans yet.
Unrecorded(r) == req[r].pc \in {"seeding", "looking"}
TripsTo(n) == {t \in trips : t.to = n}

ScansAreDated ==
    /\ \A t \in trips : t.at <= begun
    /\ \A r \in Requests : Unrecorded(r) => /\ req[r].at \in 1 .. begun
                                            /\ \A t \in trips : t.at # req[r].at
    /\ \A r, q \in Requests : Unrecorded(r) /\ Unrecorded(q) /\ req[r].at = req[q].at
                              => r = q

Accounted(n, i) == i \in declared[n] \/ Evidence(n, i) >= 2 \/ n \in overruled

\* What request r will write: its items are accounted for and none of the row's is left
\* out, unless the row was rewritten under it; its count is of trips that were made.
Writable(r) ==
    LET n == req[r].to
        new == req[r].row
    IN  /\ Scanning(r) => (\A i \in new.expected : Accounted(n, i)) \/ r \in stale
        /\ Scanning(r) => row[n].expected \subseteq new.expected \/ r \in stale
        /\ req[r].pc # "idle" => new.observed <= Cardinality(TripsTo(n))
        /\ req[r].pc = "seeding" => new.expected = {}

IInv ==
    /\ TypeOK /\ IsFiniteSet(trips) /\ ScansAreDated
    /\ ExpectedIsAccountedFor /\ CountedTripsWereMade
    /\ \A r \in Requests : Writable(r)

-------------------------------------------------------------------------------
(* The least and the greatest. *)

LEMMA Least ==
  ASSUME NEW S \in SUBSET Nat, S # {}
  PROVE  \E m \in S : \A k \in S : m <= k
<1> DEFINE T == {0 .. m : m \in S}
<1>1. T # {} /\ T \subseteq FiniteSubsetsOf(Nat)
  <2>1. \A m \in S : IsFiniteSet(0 .. m) /\ 0 .. m \in SUBSET Nat
    BY FS_Interval
  <2>. QED
    BY <2>1 DEF FiniteSubsetsOf
<1>2. PICK x \in T : \A y \in T : ~(<<y, x>> \in StrictSubsetOrdering(Nat))
  <2>1. IsWellFoundedOn(StrictSubsetOrdering(Nat), FiniteSubsetsOf(Nat))
    BY FS_StrictSubsetOrderingWellFounded
  <2> HIDE DEF T
  <2>. QED
    BY <1>1, <2>1, WFMin
<1>3. PICK m \in S : x = 0 .. m
  OBVIOUS
<1>4. ASSUME NEW k \in S, k < m
      PROVE  FALSE
  <2>1. /\ 0 .. k \in SUBSET Nat /\ 0 .. m \in SUBSET Nat /\ 0 .. k \subseteq 0 .. m
    BY <1>4
  <2>2. m \in 0 .. m /\ m \notin 0 .. k
    BY <1>4
  <2>3. <<0 .. k, 0 .. m>> \in StrictSubsetOrdering(Nat)
    BY <2>1, <2>2 DEF StrictSubsetOrdering
  <2>. QED
    BY <1>2, <1>3, <2>3
<1>. QED
  BY <1>3, <1>4

LEMMA Greatest ==
  ASSUME NEW S \in SUBSET Nat, S # {}, NEW n \in Nat, \A k \in S : k <= n
  PROVE  \E m \in S : \A k \in S : k <= m
<1> DEFINE T == {n - k : k \in S}
<1>1. T \in SUBSET Nat /\ T # {}
  <2>1. \A k \in S : n - k \in Nat
    OBVIOUS
  <2>. QED
    BY <2>1
<1>2. PICK x \in T : \A y \in T : x <= y
  <2> HIDE DEF T
  <2>. QED
    BY <1>1, Least
<1>3. PICK m \in S : x = n - m
  OBVIOUS
<1>4. \A k \in S : n - m <= n - k
  BY <1>2, <1>3
<1>. QED
  BY <1>4

-------------------------------------------------------------------------------
(* _typical_minutes. *)

Day == 0 .. 1439

LEMMA MinuteIsNumber ==
  ASSUME NEW x \in Minutes
  PROVE  x \in Day
BY NumbersAssumption DEF Day

LEMMA BeforeIsUpto ==
  ASSUME NEW x \in Day, NEW m \in Nat
  PROVE  /\ (x < m) <=> (x <= m - 1)
         /\ x # m => ((x <= m) <=> (x < m))
BY DEF Day

LEMMA ApartType ==
  ASSUME NEW s \in Trips, NEW t \in Trips
  PROVE  /\ s.minute \in Day /\ s.minute \in Minutes
         /\ Apart(s, t) \in Nat /\ Apart(s, t) = Apart(t, s) /\ Apart(s, s) = 0
<1>1. s.minute \in Minutes /\ t.minute \in Minutes
  BY DEF Trips
<1>2. s.minute \in Day /\ t.minute \in Day
  BY <1>1, MinuteIsNumber
<1>3. /\ Apart(s, t) = IF s.minute > t.minute THEN s.minute - t.minute
                                             ELSE t.minute - s.minute
      /\ Apart(t, s) = IF t.minute > s.minute THEN t.minute - s.minute
                                             ELSE s.minute - t.minute
      /\ Apart(s, s) = IF s.minute > s.minute THEN s.minute - s.minute
                                             ELSE s.minute - s.minute
  BY Zenon DEF Apart
<1> DEFINE x == s.minute
           y == t.minute
<1>4. /\ x \in Day /\ y \in Day /\ x \in Minutes
      /\ Apart(s, t) = IF x > y THEN x - y ELSE y - x
      /\ Apart(t, s) = IF y > x THEN y - x ELSE x - y
      /\ Apart(s, s) = IF x > x THEN x - x ELSE x - x
  BY <1>1, <1>2, <1>3
<1> HIDE DEF x, y
<1>5. /\ Apart(s, t) \in Nat /\ Apart(s, t) = Apart(t, s) /\ Apart(s, s) = 0
  BY <1>4 DEF Day
<1>. QED
  BY <1>4, <1>5 DEF x

LEMMA NearIsPart ==
  ASSUME NEW S \in SUBSET Trips, IsFiniteSet(S), NEW a \in S
  PROVE  /\ Near(S, a) \subseteq S /\ a \in Near(S, a)
         /\ IsFiniteSet(Near(S, a)) /\ Cardinality(Near(S, a)) \in Nat
         /\ Cardinality(Near(S, a)) <= Cardinality(S)
<1>1. Near(S, a) \in SUBSET S
  BY DEF Near
<1>2. a \in Near(S, a)
  BY ApartType, NumbersAssumption DEF Near
<1>3. IsFiniteSet(Near(S, a)) /\ Cardinality(Near(S, a)) <= Cardinality(S)
  BY <1>1, FS_Subset
<1>. QED
  BY <1>1, <1>2, <1>3, FS_CardinalityType

\* The anchors that have the most around them.
Most(S) == {a \in S : \A b \in S : Cardinality(Near(S, b)) <= Cardinality(Near(S, a))}

LEMMA AnchorExists ==
  ASSUME NEW S \in SUBSET Trips, IsFiniteSet(S), S # {}
  PROVE  \E a \in Most(S) : Best(S) = Near(S, a)
<1>1. PICK c \in S : \A b \in S : Cardinality(Near(S, b)) <= Cardinality(Near(S, c))
  <2> DEFINE T == {Cardinality(Near(S, b)) : b \in S}
  <2>1. T \in SUBSET Nat /\ T # {} /\ \A k \in T : k <= Cardinality(S)
    BY NearIsPart
  <2>2. Cardinality(S) \in Nat
    BY FS_CardinalityType
  <2>3. PICK x \in T : \A k \in T : k <= x
    <3> HIDE DEF T
    <3>. QED
      BY <2>1, <2>2, Greatest
  <2>4. PICK c \in S : x = Cardinality(Near(S, c))
    OBVIOUS
  <2>. QED
    BY <2>3, <2>4
<1>2. Most(S) # {} /\ Most(S) \subseteq S
  BY <1>1 DEF Most
<1>3. PICK a \in Most(S) : \A b \in Most(S) : a.minute <= b.minute
  <2> DEFINE T == {a.minute : a \in Most(S)}
  <2>1. T \in SUBSET Nat /\ T # {}
    <3>1. \A a \in Most(S) : a.minute \in Day
      BY <1>2, ApartType
    <3>. QED
      BY <1>2, <3>1 DEF Day
  <2>2. PICK x \in T : \A k \in T : x <= k
    <3> HIDE DEF T
    <3>. QED
      BY <2>1, Least
  <2>. QED
    BY <2>2
<1> DEFINE anchor == CHOOSE e \in Most(S) : \A b \in Most(S) : e.minute <= b.minute
<1>4. anchor \in Most(S)
  BY <1>3
<1>5. Best(S) = Near(S, anchor)
  BY DEF Best, Most
<1>. QED
  BY <1>4, <1>5

LEMMA BestIsPart ==
  ASSUME NEW S \in SUBSET Trips, IsFiniteSet(S), S # {}
  PROVE  Best(S) \in SUBSET Trips /\ IsFiniteSet(Best(S)) /\ Best(S) # {}
<1>1. PICK a \in Most(S) : Best(S) = Near(S, a)
  BY AnchorExists
<1>2. a \in S
  BY DEF Most
<1>. QED
  BY <1>1, <1>2, NearIsPart

Upto(S, v) == {s \in S : s.minute <= v}
Below(S, v) == {s \in S : s.minute < v}

LEMMA BelowIsUpto ==
  ASSUME NEW S \in SUBSET Trips, NEW v \in Nat
  PROVE  /\ Below(S, v) = Upto(S, v - 1)
         /\ v \notin Minutes => Upto(S, v) = Below(S, v)
<1>1. ASSUME NEW s \in S
      PROVE  /\ (s.minute < v) <=> (s.minute <= v - 1)
             /\ v \notin Minutes => ((s.minute <= v) <=> (s.minute < v))
  <2>1. s.minute \in Day /\ s.minute \in Minutes
    BY ApartType
  <2>. QED
    BY <2>1, BeforeIsUpto, Zenon
<1>. QED
  BY <1>1 DEF Upto, Below

\* sorted(S)[len(S) // 2] is one of them.
LEMMA MiddleIsMinute ==
  ASSUME NEW S \in SUBSET Trips, IsFiniteSet(S), S # {}
  PROVE  Middle(S) \in Minutes
<1> DEFINE n == Cardinality(S)
           P == {v \in 0 .. 1439 : Cardinality(Upto(S, v)) > n \div 2}
<1>1. \A v \in Nat : /\ IsFiniteSet(Upto(S, v)) /\ Cardinality(Upto(S, v)) \in Nat
                     /\ IsFiniteSet(Below(S, v)) /\ Cardinality(Below(S, v)) \in Nat
  <2> SUFFICES ASSUME NEW v \in Nat
               PROVE  /\ IsFiniteSet(Upto(S, v)) /\ Cardinality(Upto(S, v)) \in Nat
                      /\ IsFiniteSet(Below(S, v)) /\ Cardinality(Below(S, v)) \in Nat
    OBVIOUS
  <2>1. Upto(S, v) \in SUBSET S /\ Below(S, v) \in SUBSET S
    BY DEF Upto, Below
  <2>. QED
    BY <2>1, FS_Subset, FS_CardinalityType
<1>2. n \in Nat /\ n # 0
  BY FS_CardinalityType, FS_EmptySet
<1>3. \A s \in S : s.minute \in Day /\ s.minute \in Minutes
  BY ApartType
<1>4. Upto(S, 1439) = S
  BY <1>3 DEF Upto, Day
<1> HIDE DEF n
<1>5. 1439 \in P
  BY <1>2, <1>4 DEF n
<1>6. PICK m \in P : \A k \in P : m <= k
  <2>1. P \in SUBSET Nat /\ P # {}
    BY <1>5
  <2> HIDE DEF P
  <2>. QED
    BY <2>1, Least
<1>7. m \in Nat /\ m <= 1439 /\ Cardinality(Upto(S, m)) > n \div 2
  BY <1>6
<1>8. Cardinality(Below(S, m)) <= n \div 2
  <2>1. CASE m = 0
    <3>1. Below(S, m) = {}
      BY <1>3, <2>1 DEF Below, Day
    <3>. QED
      BY <1>2, <3>1, FS_EmptySet
  <2>2. CASE m # 0
    <3>1. Below(S, m) = Upto(S, m - 1)
      BY <1>7, BelowIsUpto
    <3>2. m - 1 \in 0 .. 1439 /\ m - 1 \notin P
      BY <1>6, <1>7, <2>2
    <3>3. Cardinality(Upto(S, m - 1)) \in Nat
      BY <1>1, <1>7, <2>2
    <3>4. ~(Cardinality(Upto(S, m - 1)) > n \div 2)
      BY <3>2
    <3>5. n \div 2 \in Nat
      BY <1>2
    <3>. QED
      BY <3>1, <3>3, <3>4, <3>5
  <2>. QED
    BY <2>1, <2>2
<1>9. m \in Minutes
  <2> SUFFICES ASSUME m \notin Minutes PROVE FALSE
    OBVIOUS
  <2>1. Upto(S, m) = Below(S, m)
    BY <1>7, BelowIsUpto
  <2>2. Cardinality(Below(S, m)) \in Nat /\ n \div 2 \in Nat
    BY <1>1, <1>2, <1>7
  <2>. QED
    BY <1>7, <1>8, <2>1, <2>2
<1>. QED
  BY <1>7, <1>8, <1>9 DEF Middle, Upto, Below, n

\* When a habit stands out, it is what the densest cluster is.
LEMMA HabitIsBest ==
  ASSUME NEW S \in SUBSET Trips, IsFiniteSet(S), NEW G \in SUBSET S, Habit(S, G)
  PROVE  Best(S) = G
<1>1. /\ G # {}
      /\ \A s, t \in G : Apart(s, t) <= Span
      /\ \A s \in S \ G : \A t \in G : Apart(s, t) > Span
      /\ \A s \in S \ G : Cardinality(Near(S, s)) < Cardinality(G)
  BY DEF Habit
<1>2. ASSUME NEW g \in G
      PROVE  Near(S, g) = G
  <2>1. \A s \in S : Apart(s, g) \in Nat /\ Span \in Nat
    BY ApartType, NumbersAssumption
  <2>. QED
    BY <1>1, <2>1 DEF Near
<1>3. PICK a \in Most(S) : Best(S) = Near(S, a)
  BY <1>1, AnchorExists
<1>4. a \in S /\ \A b \in S : Cardinality(Near(S, b)) <= Cardinality(Near(S, a))
  BY DEF Most
<1>5. a \in G
  <2> SUFFICES ASSUME a \notin G PROVE FALSE
    OBVIOUS
  <2>1. PICK g \in G : TRUE
    BY <1>1
  <2>2. Cardinality(Near(S, a)) < Cardinality(G) /\ Cardinality(G) <= Cardinality(Near(S, a))
    BY <1>1, <1>2, <1>4, <2>1
  <2>3. Cardinality(Near(S, a)) \in Nat /\ Cardinality(G) \in Nat
    BY <1>4, FS_Subset, FS_CardinalityType, NearIsPart
  <2>. QED
    BY <2>2, <2>3
<1>. QED
  BY <1>2, <1>3, <1>5

-------------------------------------------------------------------------------
(* _refine_routine. *)

LEMMA RecentBound ==
  ASSUME TypeOK, IsFiniteSet(trips)
  PROVE  /\ Recent \in SUBSET trips /\ IsFiniteSet(Recent)
         /\ Cardinality(Recent) \in 0 .. Window
<1> DEFINE After(t) == {s \in trips : s.at > t.at}
<1>1. Recent \in SUBSET trips /\ IsFiniteSet(Recent) /\ Cardinality(Recent) \in Nat
  <2>1. Recent \in SUBSET trips
    BY DEF Recent
  <2>. QED
    BY <2>1, FS_Subset, FS_CardinalityType
<1>2. \A t \in trips : t.at \in Nat
  BY NumbersAssumption DEF TypeOK, Trips
<1>3. Window \in Nat
  BY NumbersAssumption
<1>4. CASE Recent = {}
  BY <1>1, <1>3, <1>4, FS_EmptySet
<1>5. CASE Recent # {}
  <2>1. PICK m \in Recent : \A k \in Recent : m.at <= k.at
    <3> DEFINE T == {k.at : k \in Recent}
    <3>1. T \in SUBSET Nat /\ T # {}
      BY <1>1, <1>2, <1>5
    <3>2. PICK x \in T : \A k \in T : x <= k
      <4> HIDE DEF T
      <4>. QED
        BY <3>1, Least
    <3>. QED
      BY <3>2
  <2>2. Cardinality(After(m)) < Window
    BY <2>1 DEF Recent
  <2>3. Recent \ {m} \in SUBSET After(m)
    <3> SUFFICES ASSUME NEW k \in Recent, k # m PROVE k \in trips /\ k.at > m.at
      OBVIOUS
    <3>1. k \in trips /\ m \in trips /\ k.at # m.at
      BY <1>1, <2>1 DEF TypeOK
    <3>2. m.at <= k.at /\ m.at \in Nat /\ k.at \in Nat
      BY <1>2, <2>1, <3>1
    <3>. QED
      BY <3>1, <3>2
  <2>4. /\ Cardinality(After(m)) \in Nat
        /\ Cardinality(Recent \ {m}) <= Cardinality(After(m))
    <3>1. After(m) \in SUBSET trips
      OBVIOUS
    <3>2. IsFiniteSet(After(m))
      BY <3>1, FS_Subset
    <3> HIDE DEF After
    <3>. QED
      BY <2>3, <3>2, FS_Subset, FS_CardinalityType
  <2>5. Cardinality(Recent \ {m}) = Cardinality(Recent) - 1
    BY <1>1, <2>1, FS_RemoveElement
  <2> HIDE DEF After
  <2>. QED
    BY <1>1, <1>3, <2>2, <2>4, <2>5
<1>. QED
  BY <1>4, <1>5

\* The scans that are weighed are trips that were made there, no more than the LIMIT.
LEMMA RelevantType ==
  ASSUME TypeOK, IsFiniteSet(trips), NEW n \in Routines
  PROVE  /\ Relevant(n) \in SUBSET Trips /\ IsFiniteSet(Relevant(n))
         /\ Relevant(n) \in SUBSET TripsTo(n)
         /\ IsFiniteSet(TripsTo(n)) /\ Cardinality(TripsTo(n)) \in Nat
         /\ Cardinality(Relevant(n)) \in 0 .. Window
         /\ Cardinality(Relevant(n)) <= Cardinality(TripsTo(n))
<1>1. TripsTo(n) \in SUBSET trips
  BY DEF TripsTo
<1>2. IsFiniteSet(TripsTo(n)) /\ Cardinality(TripsTo(n)) \in Nat
  BY <1>1, FS_Subset, FS_CardinalityType
<1>3. /\ Recent \in SUBSET trips /\ IsFiniteSet(Recent)
      /\ Cardinality(Recent) \in 0 .. Window
  BY RecentBound
<1>4. /\ Relevant(n) \in SUBSET Recent /\ Relevant(n) \in SUBSET TripsTo(n)
      /\ Relevant(n) \in SUBSET Trips
  BY <1>3 DEF Relevant, TripsTo, TypeOK
<1>5. /\ IsFiniteSet(Relevant(n)) /\ Cardinality(Relevant(n)) \in Nat
      /\ Cardinality(Relevant(n)) <= Cardinality(Recent)
      /\ Cardinality(Relevant(n)) <= Cardinality(TripsTo(n))
  BY <1>2, <1>3, <1>4, FS_Subset, FS_CardinalityType
<1>6. Window \in Nat
  BY NumbersAssumption
<1>. QED
  BY <1>2, <1>3, <1>4, <1>5, <1>6

\* An item is promoted on two trips or more.
LEMMA PromotedOnTwo ==
  ASSUME NEW S \in SUBSET Trips, IsFiniteSet(S), NEW i \in Promoted(S)
  PROVE  i \in Items /\ Cardinality({t \in S : i \in t.found}) >= 2
<1> DEFINE W == {t \in S : i \in t.found}
<1>1. /\ ~(Cardinality(S) < 3) /\ i \in Items
      /\ Cardinality(W) >= Threshold(Cardinality(S))
  <2>1. ~(Cardinality(S) < 3)
    BY DEF Promoted
  <2>2. i \in {j \in Items :
                 Cardinality({t \in S : j \in t.found}) >= Threshold(Cardinality(S))}
    BY <2>1, Zenon DEF Promoted
  <2>. QED
    BY <2>1, <2>2
<1>2. Cardinality(S) \in Nat /\ Cardinality(W) \in Nat
  BY FS_Subset, FS_CardinalityType
<1>3. \A k \in Nat : k >= 3 => Threshold(k) \in Nat /\ Threshold(k) >= 2
  BY DEF Threshold
<1> HIDE DEF W
<1>4. Cardinality(W) >= 2
  BY <1>1, <1>2, <1>3
<1>. QED
  BY <1>1, <1>4 DEF W


LEMMA RefinedType ==
  ASSUME TypeOK, IsFiniteSet(trips), NEW n \in Routines, NEW old \in Rows
  PROVE  /\ Refined(old, Relevant(n)) \in Rows
         /\ Refined(old, Relevant(n)).expected = old.expected \cup Promoted(Relevant(n))
         /\ Refined(old, Relevant(n)).observed = Cardinality(Relevant(n))
<1> DEFINE S == Relevant(n)
<1>1. /\ S \in SUBSET Trips /\ IsFiniteSet(S) /\ Cardinality(S) \in 0 .. Window
  BY RelevantType
<1>2. Promoted(S) \in SUBSET Items
  BY <1>1, PromotedOnTwo
<1>3. Cardinality(S) >= 2 => Typical(S) \in Minutes
  <2> SUFFICES ASSUME Cardinality(S) >= 2 PROVE Typical(S) \in Minutes
    OBVIOUS
  <2>1. S # {}
    BY FS_EmptySet
  <2>2. Best(S) \in SUBSET Trips /\ IsFiniteSet(Best(S)) /\ Best(S) # {}
    BY <1>1, <2>1, BestIsPart
  <2>. QED
    BY <2>2, MiddleIsMinute DEF Typical
<1>4. /\ old.expected \in SUBSET Items /\ old.typical \in Minutes \cup {Unlearned}
  BY DEF Rows
<1> HIDE DEF S
<1> DEFINE new == Refined(old, S)
<1>5. /\ new.expected = old.expected \cup Promoted(S) /\ new.observed = Cardinality(S)
      /\ new = [expected |-> new.expected, typical |-> new.typical,
                observed |-> new.observed]
      /\ new.typical = IF Cardinality(S) >= 2 THEN Typical(S) ELSE old.typical
  BY DEF Refined
<1> HIDE DEF new
<1>6. /\ new.expected \in SUBSET Items /\ new.typical \in Minutes \cup {Unlearned}
      /\ new.observed \in 0 .. Window
  BY <1>1, <1>2, <1>3, <1>4, <1>5
<1>7. new \in Rows
  BY <1>5, <1>6 DEF Rows
<1>. QED
  BY <1>5, <1>7 DEF new, S


-------------------------------------------------------------------------------
(* What a step leaves standing. *)

LEMMA IdleType == Blank \in Rows /\ Idle \in Calls /\ Idle.pc = "idle"
<1>1. Blank \in Rows
  BY NumbersAssumption DEF Blank, Rows
<1>2. (CHOOSE n \in Routines : TRUE) \in Routines
  BY RoutinesAssumption
<1>3. 0 \in 0 .. MaxTrips
  BY NumbersAssumption
<1>4. Idle \in Calls
  BY <1>1, <1>2, <1>3 DEF Idle, Calls
<1>. QED
  BY <1>1, <1>4 DEF Idle

\* Evidence and counts only grow.
LEMMA TripsGrow ==
  ASSUME IsFiniteSet(trips'), trips \subseteq trips', NEW n \in Routines, NEW i
  PROVE  /\ Evidence(n, i) >= 2 => Evidence(n, i)' >= 2
         /\ \A k \in Int : k <= Cardinality(TripsTo(n)) => k <= Cardinality(TripsTo(n)')
<1> DEFINE A == {t \in trips : t.to = n /\ i \in t.found}
           B == {t \in trips' : t.to = n /\ i \in t.found}
           C == TripsTo(n)
           D == {t \in trips' : t.to = n}
<1>1. /\ A \in SUBSET B /\ B \in SUBSET trips' /\ C \in SUBSET D /\ D \in SUBSET trips'
      /\ Evidence(n, i) = Cardinality(A) /\ Evidence(n, i)' = Cardinality(B)
      /\ TripsTo(n)' = D
  BY DEF Evidence, TripsTo
<1> HIDE DEF A, B, C, D
<1>2. IsFiniteSet(B) /\ IsFiniteSet(D)
  BY <1>1, FS_Subset
<1>3. /\ IsFiniteSet(A) /\ Cardinality(A) <= Cardinality(B)
      /\ IsFiniteSet(C) /\ Cardinality(C) <= Cardinality(D)
  BY <1>1, <1>2, FS_Subset
<1>4. /\ Cardinality(A) \in Nat /\ Cardinality(B) \in Nat
      /\ Cardinality(C) \in Nat /\ Cardinality(D) \in Nat
  BY <1>2, <1>3, FS_CardinalityType
<1>. QED
  BY <1>1, <1>3, <1>4 DEF C

\* A row that a step leaves alone stays accounted for.
LEMMA RowStands ==
  ASSUME IInv, IsFiniteSet(trips'), trips \subseteq trips', overruled \subseteq overruled',
         NEW n \in Routines, row'[n] = row[n], declared'[n] = declared[n]
  PROVE  /\ \A i \in row'[n].expected : Accounted(n, i)'
         /\ row'[n].observed <= Cardinality(TripsTo(n)')
<1>1. row[n].observed \in Int
  BY DEF IInv, TypeOK, Rows
<1>2. row[n].observed <= Cardinality(TripsTo(n))
  BY DEF IInv, CountedTripsWereMade, TripsTo
<1>3. ASSUME NEW i \in row[n].expected
      PROVE  Accounted(n, i)'
  <2>1. i \in declared[n] \/ Evidence(n, i) >= 2 \/ n \in overruled
    BY DEF IInv, ExpectedIsAccountedFor
  <2>2. Evidence(n, i) >= 2 => Evidence(n, i)' >= 2
    BY TripsGrow
  <2>. QED
    BY <2>1, <2>2 DEF Accounted
<1>. QED
  BY <1>1, <1>2, <1>3, TripsGrow

\* A request that a step leaves alone stays writable: the row it was read from is as it
\* was, or the request has become stale.
LEMMA CallStands ==
  ASSUME IInv, IsFiniteSet(trips'), trips \subseteq trips', overruled \subseteq overruled',
         NEW q \in Requests, req'[q] = req[q], q \in stale => q \in stale',
         LET n == req[q].to
         IN  Holds(q, n) => (row'[n] = row[n] /\ declared'[n] = declared[n]) \/ q \in stale'
  PROVE  Writable(q)'
<1> DEFINE n == req[q].to
           new == req[q].row
<1>1. n \in Routines /\ new.observed \in Int
  BY DEF IInv, TypeOK, Calls, Rows
<1>2. Writable(q)
  BY DEF IInv
<1>3. req[q].pc # "idle" => (row'[n] = row[n] /\ declared'[n] = declared[n]) \/ q \in stale'
  BY DEF Holds
<1>4. req[q].pc # "idle" => new.observed <= Cardinality(TripsTo(n)')
  BY <1>1, <1>2, TripsGrow DEF Writable
<1>5. Scanning(q) => (\A i \in new.expected : Accounted(n, i)') \/ q \in stale'
  <2> SUFFICES ASSUME Scanning(q), q \notin stale', NEW i \in new.expected
               PROVE  Accounted(n, i)'
    OBVIOUS
  <2>1. Accounted(n, i) /\ declared'[n] = declared[n]
    BY <1>2, <1>3 DEF Writable, Scanning
  <2>2. Evidence(n, i) >= 2 => Evidence(n, i)' >= 2
    BY <1>1, TripsGrow
  <2>. QED
    BY <2>1, <2>2 DEF Accounted
<1>6. Scanning(q) => row'[n].expected \subseteq new.expected \/ q \in stale'
  BY <1>2, <1>3 DEF Writable, Scanning
<1>7. req[q].pc = "seeding" => new.expected = {}
  BY <1>2 DEF Writable
<1>8. n' = n /\ new' = new /\ req'[q].pc = req[q].pc /\ Scanning(q)' = Scanning(q)
  BY DEF Scanning
<1>. QED
  BY <1>4, <1>5, <1>6, <1>7, <1>8 DEF Writable


\* Scans that no step begins or records stay dated.
LEMMA DatesStand ==
  ASSUME IInv, trips' = trips, begun' = begun, begun \in Nat,
         \A q \in Requests : Unrecorded(q)' => Unrecorded(q) /\ req'[q].at = req[q].at
  PROVE  ScansAreDated'
BY DEF IInv, ScansAreDated

\* A write replaces the row of n, its time only by another; whoever else holds the row
\* of n is stale, and n is overruled when the writer was.
LEMMA UpsertEffect ==
  ASSUME IInv, NEW r \in Requests, NEW n \in Routines, NEW new \in Rows, Upsert(r, n, new)
  PROVE  /\ known' \subseteq Routines /\ row' \in [Routines -> Rows]
         /\ \A m \in Routines \ known' : row'[m] = Blank
         /\ stale' \subseteq Requests /\ overruled' \subseteq Routines
         /\ row'[n].expected = new.expected /\ row'[n].observed = new.observed
         /\ row[n].typical # Unlearned => row'[n].typical # Unlearned
         /\ \A m \in Routines \ {n} : row'[m] = row[m]
         /\ overruled \subseteq overruled' /\ (r \in stale => n \in overruled')
         /\ \A q \in Requests \ {r} : q \in stale \/ Holds(q, n) => q \in stale'
<1> DEFINE new1 == [new EXCEPT !.typical = IF @ = Unlearned THEN row[n].typical ELSE @]
<1>1. /\ known \subseteq Routines /\ row \in [Routines -> Rows]
      /\ \A m \in Routines \ known : row[m] = Blank
      /\ stale \subseteq Requests /\ overruled \subseteq Routines
  BY DEF IInv, TypeOK
<1>2. /\ known' = known \cup {n} /\ row' = [row EXCEPT ![n] = new1]
      /\ overruled' = IF r \in stale THEN overruled \cup {n} ELSE overruled
      /\ stale' = (stale \ {r}) \cup {q \in Requests \ {r} : Holds(q, n)}
  BY DEF Upsert
<1>3. /\ new1 \in Rows /\ new1.expected = new.expected /\ new1.observed = new.observed
      /\ row[n].typical # Unlearned => new1.typical # Unlearned
  <2>1. row[n].typical \in Minutes \cup {Unlearned}
    BY <1>1 DEF Rows
  <2>. QED
    BY <2>1 DEF Rows
<1> HIDE DEF new1
<1>4. /\ row' \in [Routines -> Rows] /\ row'[n] = new1
      /\ \A m \in Routines \ {n} : row'[m] = row[m]
  BY <1>1, <1>2, <1>3
<1>5. /\ known' \subseteq Routines /\ \A m \in Routines \ known' : row'[m] = Blank
  BY <1>1, <1>2, <1>4
<1>6. /\ stale' \subseteq Requests /\ \A q \in Requests \ {r} : q \in stale \/ Holds(q, n) => q \in stale'
  BY <1>1, <1>2
<1>7. /\ overruled' \subseteq Routines
      /\ overruled \subseteq overruled' /\ (r \in stale => n \in overruled')
  BY <1>1, <1>2
<1>. QED
  BY <1>3, <1>4, <1>5, <1>6, <1>7

-------------------------------------------------------------------------------
(* Every step keeps the invariant. *)

LEMMA InitInv == Init => IInv
<1> SUFFICES ASSUME Init PROVE IInv
  OBVIOUS
<1>1. TypeOK
  BY IdleType, CalendarsAssumption, NumbersAssumption DEF Init, TypeOK
<1>2. IsFiniteSet(trips)
  BY FS_EmptySet DEF Init
<1>3. \A r \in Requests : req[r].pc = "idle"
  BY IdleType DEF Init
<1>4. ScansAreDated
  BY <1>3 DEF Init, ScansAreDated, Unrecorded
<1>5. ExpectedIsAccountedFor
  BY DEF Init, ExpectedIsAccountedFor, Blank
<1>6. CountedTripsWereMade
  <2> SUFFICES ASSUME NEW n \in Routines
               PROVE  row[n].observed <= Cardinality({t \in trips : t.to = n})
    BY DEF CountedTripsWereMade
  <2> DEFINE T == {t \in trips : t.to = n}
  <2>1. T = {} /\ row[n].observed = 0
    BY DEF Init, Blank
  <2> HIDE DEF T
  <2>2. row[n].observed <= Cardinality(T)
    BY <2>1, FS_EmptySet
  <2>. QED
    BY <2>2 DEF T
<1>7. \A r \in Requests : Writable(r)
  BY <1>3 DEF Writable, Scanning
<1>. QED
  BY <1>1, <1>2, <1>4, <1>5, <1>6, <1>7 DEF IInv

LEMMA BeginInv ==
  ASSUME IInv, NEW r \in Requests, NEW n \in Routines, Begin(r, n)
  PROVE  IInv'
<1> DEFINE call == [pc |-> IF n \in known THEN "looking" ELSE "seeding",
                    to |-> n, at |-> begun + 1, row |-> row[n]]
<1>1. /\ TypeOK /\ IsFiniteSet(trips) /\ ScansAreDated
      /\ ExpectedIsAccountedFor /\ CountedTripsWereMade
  BY DEF IInv
<1>2. /\ req[r].pc = "idle" /\ begun < MaxTrips /\ begun' = begun + 1
      /\ req' = [req EXCEPT ![r] = call]
      /\ UNCHANGED <<known, row, trips, calendar, declared, stale, overruled, corrections>>
  BY DEF Begin, history
<1>3. call \in Calls /\ begun \in Nat /\ begun + 1 \in 0 .. MaxTrips
  BY <1>1, <1>2, NumbersAssumption DEF TypeOK, Calls
<1>4. /\ call.pc \in {"looking", "seeding"} /\ (call.pc = "seeding" => n \notin known)
      /\ call.to = n /\ call.at = begun + 1 /\ call.row = row[n]
  OBVIOUS
<1> HIDE DEF call
<1>5. /\ req' \in [Requests -> Calls] /\ req'[r] = call
      /\ \A q \in Requests \ {r} : req'[q] = req[q]
  BY <1>1, <1>2, <1>3 DEF TypeOK
<1>6. TypeOK'
  BY <1>1, <1>2, <1>3, <1>5 DEF TypeOK
<1>7. ScansAreDated'
  <2>1. /\ \A t \in trips : t.at <= begun /\ t.at \in Nat
        /\ \A q \in Requests : Unrecorded(q) => req[q].at \in 1 .. begun
    BY <1>1 DEF ScansAreDated, TypeOK, Trips
  <2>2. /\ Unrecorded(r)' /\ req'[r].at = begun + 1
        /\ \A q \in Requests \ {r} : Unrecorded(q)' = Unrecorded(q) /\ req'[q].at = req[q].at
    BY <1>4, <1>5 DEF Unrecorded
  <2>. QED
    BY <1>1, <1>2, <1>3, <2>1, <2>2 DEF ScansAreDated
<1>8. ExpectedIsAccountedFor' /\ CountedTripsWereMade'
  BY <1>1, <1>2 DEF ExpectedIsAccountedFor, CountedTripsWereMade, Evidence
<1>9. Writable(r)'
  <2>1. /\ \A i \in row[n].expected : Accounted(n, i)
        /\ row[n].observed <= Cardinality(TripsTo(n))
    BY <1>1 DEF ExpectedIsAccountedFor, CountedTripsWereMade, Accounted, TripsTo
  <2>2. \A i : Accounted(n, i)' = Accounted(n, i)
    BY <1>2 DEF Accounted, Evidence
  <2>3. call.pc = "seeding" => row[n].expected = {}
    BY <1>1, <1>4 DEF TypeOK, Blank
  <2>4. TripsTo(n)' = TripsTo(n)
    BY <1>2 DEF TripsTo
  <2>. QED
    BY <1>2, <1>4, <1>5, <2>1, <2>2, <2>3, <2>4 DEF Writable, Scanning
<1>10. ASSUME NEW q \in Requests \ {r} PROVE Writable(q)'
  BY <1>1, <1>2, <1>5, CallStands
<1>. QED
  BY <1>1, <1>2, <1>6, <1>7, <1>8, <1>9, <1>10 DEF IInv


\* A request that writes its row to the routine it is about, and may write it.
LEMMA WriteInv ==
  ASSUME IInv, NEW r \in Requests, NEW n \in Routines, NEW new \in Rows,
         req[r].pc # "idle", req[r].to = n,
         Upsert(r, n, new),
         UNCHANGED <<trips, calendar, begun, corrections>>,
         declared' \in [Routines -> SUBSET Items],
         \A m \in Routines \ {n} : declared'[m] = declared[m],
         \A i \in new.expected : \/ Accounted(n, i)
                                    /\ declared'[n] = declared[n]
                                 \/ i \in declared'[n]
                                 \/ r \in stale,
         new.observed <= Cardinality(TripsTo(n)),
         req' \in [Requests -> Calls],
         \A q \in Requests \ {r} : req'[q] = req[q],
         Unrecorded(r)' => Unrecorded(r) /\ req'[r].at = req[r].at,
         Writable(r)'
  PROVE  IInv'
<1>1. TypeOK /\ IsFiniteSet(trips) /\ begun \in Nat
  BY NumbersAssumption DEF IInv, TypeOK, Calls
<1>2. /\ known' \subseteq Routines /\ row' \in [Routines -> Rows]
      /\ \A m \in Routines \ known' : row'[m] = Blank
      /\ stale' \subseteq Requests /\ overruled' \subseteq Routines
      /\ row'[n].expected = new.expected /\ row'[n].observed = new.observed
      /\ \A m \in Routines \ {n} : row'[m] = row[m]
      /\ overruled \subseteq overruled' /\ (r \in stale => n \in overruled')
      /\ \A q \in Requests \ {r} : q \in stale \/ Holds(q, n) => q \in stale'
  BY <1>1, UpsertEffect
<1>3. TypeOK'
  BY <1>1, <1>2 DEF TypeOK
<1>4. ScansAreDated'
  <2>1. \A q \in Requests : Unrecorded(q)' => Unrecorded(q) /\ req'[q].at = req[q].at
    BY DEF Unrecorded
  <2>. QED
    BY <1>1, <2>1, DatesStand
<1>5. ASSUME NEW m \in Routines
      PROVE  /\ \A i \in row'[m].expected : Accounted(m, i)'
             /\ row'[m].observed <= Cardinality(TripsTo(m)')
  <2>1. CASE m # n
    BY <1>1, <1>2, <2>1, RowStands
  <2>2. CASE m = n
    <3>1. ASSUME NEW i \in new.expected PROVE Accounted(n, i)'
      <4>1. Evidence(n, i)' = Evidence(n, i)
        BY DEF Evidence
      <4>. QED
        BY <1>2, <4>1 DEF Accounted
    <3>2. TripsTo(n)' = TripsTo(n)
      BY DEF TripsTo
    <3>. QED
      BY <1>2, <2>2, <3>1, <3>2
  <2>. QED
    BY <2>1, <2>2
<1>6. ExpectedIsAccountedFor' /\ CountedTripsWereMade'
  BY <1>5 DEF ExpectedIsAccountedFor, CountedTripsWereMade, Accounted, TripsTo
<1>7. ASSUME NEW q \in Requests \ {r} PROVE Writable(q)'
  <2>1. req[q].to \in Routines
    BY <1>1 DEF TypeOK, Calls
  <2>. QED
    BY <1>1, <1>2, <2>1, CallStands
<1>. QED
  BY <1>1, <1>3, <1>4, <1>6, <1>7 DEF IInv

LEMMA SeedInv ==
  ASSUME IInv, NEW r \in Requests, Seed(r)
  PROVE  IInv'
<1>1. TypeOK /\ IsFiniteSet(trips) /\ req[r].to \in Routines
  BY DEF IInv, TypeOK, Calls
<1> PICK n \in Routines : n = req[r].to
  BY <1>1
<1> DEFINE seeded == [Blank EXCEPT !.expected = Starter[n]]
<1>2. /\ req[r].pc = "seeding" /\ Upsert(r, n, seeded)
      /\ req' = [req EXCEPT ![r].pc = "looking", ![r].row = seeded]
      /\ declared' = [declared EXCEPT ![n] = Starter[n]]
      /\ UNCHANGED <<trips, calendar, begun, corrections>>
  BY DEF Seed
<1>3. seeded \in Rows /\ seeded.expected = Starter[n] /\ seeded.observed = 0
  BY <1>1, IdleType, StarterAssumption DEF Blank, Rows
<1> HIDE DEF seeded
<1>4. /\ req' \in [Requests -> Calls] /\ req'[r].pc = "looking" /\ req'[r].row = seeded
      /\ req'[r].to = n /\ req'[r].at = req[r].at
      /\ \A q \in Requests \ {r} : req'[q] = req[q]
  BY <1>1, <1>2, <1>3 DEF TypeOK, Calls
<1>5. /\ declared' \in [Routines -> SUBSET Items] /\ declared'[n] = Starter[n]
      /\ \A m \in Routines \ {n} : declared'[m] = declared[m]
  BY <1>1, <1>2, StarterAssumption DEF TypeOK
<1>6. seeded.observed <= Cardinality(TripsTo(n))
  <2>1. Cardinality(TripsTo(n)) \in Nat
    BY <1>1, RelevantType
  <2>. QED
    BY <1>3, <2>1
<1>7. row'[n].expected = seeded.expected
  BY <1>1, <1>2, <1>3, UpsertEffect
<1>8. Writable(r)'
  <2>1. \A i \in seeded.expected : Accounted(n, i)'
    BY <1>3, <1>5 DEF Accounted
  <2>2. TripsTo(n)' = TripsTo(n)
    BY <1>2 DEF TripsTo
  <2>. QED
    BY <1>4, <1>6, <1>7, <2>1, <2>2 DEF Writable, Scanning
<1>9. Unrecorded(r) /\ req[r].pc # "idle"
  BY <1>2 DEF Unrecorded
<1>. QED
  BY <1>2, <1>3, <1>4, <1>5, <1>6, <1>8, <1>9, WriteInv


LEMMA LearnInv ==
  ASSUME IInv, NEW r \in Requests, Learn(r)
  PROVE  IInv'
<1>1. TypeOK /\ req[r].to \in Routines /\ req[r].row \in Rows
  BY DEF IInv, TypeOK, Calls
<1> PICK n \in Routines : n = req[r].to
  BY <1>1
<1> PICK new \in Rows : new = req[r].row
  BY <1>1
<1>2. /\ req[r].pc = "learning" /\ Upsert(r, n, new) /\ req' = [req EXCEPT ![r] = Idle]
      /\ UNCHANGED <<trips, calendar, begun, declared, corrections>>
  BY DEF Learn, Finish
<1>3. /\ req' \in [Requests -> Calls] /\ req'[r].pc = "idle"
      /\ \A q \in Requests \ {r} : req'[q] = req[q]
  BY <1>1, <1>2, IdleType DEF TypeOK
<1>4. /\ \A i \in new.expected : Accounted(n, i) \/ r \in stale
      /\ new.observed <= Cardinality(TripsTo(n))
  <2>1. Writable(r)
    BY DEF IInv
  <2>. QED
    BY <1>2, <2>1 DEF Writable, Scanning
<1>5. Writable(r)' /\ ~Unrecorded(r)'
  BY <1>3 DEF Writable, Scanning, Unrecorded
<1>6. declared' \in [Routines -> SUBSET Items]
  BY <1>1, <1>2 DEF TypeOK
<1>. QED
  BY <1>2, <1>3, <1>4, <1>5, <1>6, WriteInv

LEMMA WriteCorrectionInv ==
  ASSUME IInv, NEW r \in Requests, WriteCorrection(r)
  PROVE  IInv'
<1>1. TypeOK /\ req[r].to \in Routines /\ req[r].row \in Rows
  BY DEF IInv, TypeOK, Calls
<1> PICK n \in Routines : n = req[r].to
  BY <1>1
<1> PICK new \in Rows : new = req[r].row
  BY <1>1
<1>2. /\ req[r].pc = "correcting" /\ Upsert(r, n, new) /\ req' = [req EXCEPT ![r] = Idle]
      /\ declared' = [declared EXCEPT ![n] = new.expected]
      /\ UNCHANGED <<trips, calendar, begun, corrections>>
  BY DEF WriteCorrection, Finish
<1>3. /\ req' \in [Requests -> Calls] /\ req'[r].pc = "idle"
      /\ \A q \in Requests \ {r} : req'[q] = req[q]
  BY <1>1, <1>2, IdleType DEF TypeOK
<1>4. new.observed <= Cardinality(TripsTo(n))
  <2>1. Writable(r)
    BY DEF IInv
  <2>. QED
    BY <1>2, <2>1 DEF Writable
<1>5. Writable(r)' /\ ~Unrecorded(r)'
  BY <1>3 DEF Writable, Scanning, Unrecorded
<1>6. /\ declared' \in [Routines -> SUBSET Items] /\ declared'[n] = new.expected
      /\ \A m \in Routines \ {n} : declared'[m] = declared[m]
  BY <1>1, <1>2 DEF TypeOK, Rows
<1>. QED
  BY <1>2, <1>3, <1>4, <1>5, <1>6, WriteInv

\* A request that ends, or goes on, without a write.
LEMMA QuietInv ==
  ASSUME IInv, NEW r \in Requests,
         UNCHANGED <<known, row, trips, calendar, begun, declared, overruled>>,
         corrections' \in 0 .. MaxCorrections,
         stale' \subseteq stale, stale \subseteq stale' \cup {r},
         req' \in [Requests -> Calls],
         \A q \in Requests \ {r} : req'[q] = req[q],
         ~Unrecorded(r)', Writable(r)'
  PROVE  IInv'
<1>1. TypeOK /\ IsFiniteSet(trips) /\ begun \in Nat
  BY NumbersAssumption DEF IInv, TypeOK
<1>2. TypeOK'
  BY <1>1 DEF TypeOK
<1>3. ScansAreDated'
  <2>1. \A q \in Requests : Unrecorded(q)' => Unrecorded(q) /\ req'[q].at = req[q].at
    BY DEF Unrecorded
  <2>. QED
    BY <1>1, <2>1, DatesStand
<1>4. ExpectedIsAccountedFor' /\ CountedTripsWereMade'
  BY DEF IInv, ExpectedIsAccountedFor, CountedTripsWereMade, Evidence
<1>5. ASSUME NEW q \in Requests \ {r} PROVE Writable(q)'
  BY <1>1, CallStands
<1>. QED
  BY <1>1, <1>2, <1>3, <1>4, <1>5 DEF IInv

LEMMA EndInv ==
  ASSUME IInv, NEW r \in Requests, LookBlind(r) \/ RequestDies(r)
  PROVE  IInv'
<1>1. /\ TypeOK /\ req' = [req EXCEPT ![r] = Idle] /\ stale' = stale \ {r}
      /\ UNCHANGED <<known, row, trips, calendar, begun, declared, overruled, corrections>>
  BY DEF IInv, LookBlind, RequestDies, Finish
<1>2. /\ req' \in [Requests -> Calls] /\ req'[r].pc = "idle"
      /\ \A q \in Requests \ {r} : req'[q] = req[q]
  BY <1>1, IdleType DEF TypeOK
<1>3. Writable(r)' /\ ~Unrecorded(r)'
  BY <1>2 DEF Writable, Scanning, Unrecorded
<1>4. corrections' \in 0 .. MaxCorrections /\ stale \subseteq stale' \cup {r}
  BY <1>1 DEF TypeOK
<1>. QED
  BY <1>1, <1>2, <1>3, <1>4, QuietInv

LEMMA CorrectInv ==
  ASSUME IInv, NEW r \in Requests, NEW n \in Routines, NEW items \in SUBSET Items,
         NEW time \in UserTimes \cup {Unlearned}, Correct(r, n, items, time)
  PROVE  IInv'
<1> DEFINE new == [row[n] EXCEPT !.expected = items,
                                 !.typical = IF time = Unlearned THEN @ ELSE time]
<1>1. /\ TypeOK /\ corrections < MaxCorrections /\ corrections' = corrections + 1
      /\ req' = [req EXCEPT ![r].pc = "correcting", ![r].to = n, ![r].row = new]
      /\ UNCHANGED <<known, row, trips, calendar, begun, history>>
  BY DEF IInv, Correct
<1>2. new \in Rows /\ new.observed = row[n].observed
  <2>1. row[n] \in Rows /\ time \in Minutes \cup {Unlearned}
    BY <1>1, NumbersAssumption DEF TypeOK
  <2>. QED
    BY <2>1 DEF Rows
<1> HIDE DEF new
<1>3. /\ req' \in [Requests -> Calls] /\ req'[r].pc = "correcting" /\ req'[r].to = n
      /\ req'[r].row = new
      /\ \A q \in Requests \ {r} : req'[q] = req[q]
  BY <1>1, <1>2 DEF TypeOK, Calls
<1>4. corrections' \in 0 .. MaxCorrections
  BY <1>1, NumbersAssumption DEF TypeOK
<1>5. Writable(r)' /\ ~Unrecorded(r)'
  <2>1. TripsTo(n)' = TripsTo(n)
    BY <1>1 DEF TripsTo
  <2>2. row[n].observed <= Cardinality(TripsTo(n))
    BY DEF IInv, CountedTripsWereMade, TripsTo
  <2>. QED
    BY <1>2, <1>3, <2>1, <2>2 DEF Writable, Scanning, Unrecorded
<1>. QED
  BY <1>1, <1>3, <1>4, <1>5, QuietInv DEF history

LEMMA WeighInv ==
  ASSUME IInv, NEW r \in Requests, Weigh(r)
  PROVE  IInv'
<1>1. TypeOK /\ IsFiniteSet(trips) /\ req[r].to \in Routines /\ req[r].row \in Rows
  BY DEF IInv, TypeOK, Calls
<1> PICK n \in Routines : n = req[r].to
  BY <1>1
<1> PICK old \in Rows : old = req[r].row
  BY <1>1
<1> DEFINE new == Refined(old, Relevant(n))
<1>2. /\ req[r].pc = "recorded"
      /\ req' = [req EXCEPT ![r].pc = "learning", ![r].row = new]
      /\ UNCHANGED <<known, row, trips, calendar, begun, history, corrections>>
  BY DEF Weigh
<1>3. /\ new \in Rows /\ new.expected = old.expected \cup Promoted(Relevant(n))
      /\ new.observed = Cardinality(Relevant(n))
  BY <1>1, RefinedType
<1> HIDE DEF new
<1>4. /\ req' \in [Requests -> Calls] /\ req'[r].pc = "learning" /\ req'[r].to = n
      /\ req'[r].row = new
      /\ \A q \in Requests \ {r} : req'[q] = req[q]
  BY <1>1, <1>2, <1>3 DEF TypeOK, Calls
<1>5. corrections' \in 0 .. MaxCorrections
  BY <1>1, <1>2 DEF TypeOK
<1>6. ASSUME NEW i \in Promoted(Relevant(n)) PROVE Evidence(n, i) >= 2
  <2> DEFINE A == {t \in Relevant(n) : i \in t.found}
             B == {t \in trips : t.to = n /\ i \in t.found}
  <2>1. Relevant(n) \in SUBSET Trips /\ IsFiniteSet(Relevant(n))
    BY <1>1, RelevantType
  <2>2. Cardinality(A) >= 2
    BY <2>1, PromotedOnTwo
  <2>3. A \in SUBSET B /\ B \in SUBSET trips
    BY DEF Relevant, Recent
  <2> HIDE DEF A, B
  <2>4. IsFiniteSet(B) /\ IsFiniteSet(A) /\ Cardinality(A) <= Cardinality(B)
    BY <1>1, <2>3, FS_Subset
  <2>5. Cardinality(A) \in Nat /\ Cardinality(B) \in Nat
    BY <2>4, FS_CardinalityType
  <2>6. Cardinality(B) >= 2
    BY <2>2, <2>4, <2>5
  <2>. QED
    BY <2>6 DEF B, Evidence
<1>7. Writable(r)' /\ ~Unrecorded(r)'
  <2>1. Writable(r)
    BY DEF IInv
  <2>2. /\ (\A i \in old.expected : Accounted(n, i)) \/ r \in stale
        /\ row[n].expected \subseteq old.expected \/ r \in stale
    BY <1>2, <2>1 DEF Writable, Scanning
  <2>3. /\ TripsTo(n)' = TripsTo(n) /\ row' = row /\ stale' = stale
        /\ \A i : Accounted(n, i)' = Accounted(n, i)
    BY <1>2 DEF TripsTo, Accounted, Evidence, history
  <2>4. new.observed <= Cardinality(TripsTo(n))
    BY <1>1, <1>3, RelevantType
  <2>5. \A i \in new.expected : Accounted(n, i) \/ r \in stale
    BY <1>3, <1>6, <2>2 DEF Accounted
  <2>6. row[n].expected \subseteq new.expected \/ r \in stale
    BY <1>3, <2>2
  <2>. QED
    BY <1>4, <2>3, <2>4, <2>5, <2>6 DEF Writable, Scanning, Unrecorded
<1>. QED
  BY <1>2, <1>4, <1>5, <1>7, QuietInv DEF history

LEMMA RecordTripInv ==
  ASSUME IInv, NEW r \in Requests, NEW found \in SUBSET Items, RecordTrip(r, found)
  PROVE  IInv'
<1> DEFINE trip == [to |-> req[r].to, found |-> found,
                    minute |-> calendar[req[r].at], at |-> req[r].at]
<1>1. /\ TypeOK /\ IsFiniteSet(trips) /\ ScansAreDated /\ req[r].pc = "looking"
      /\ trips' = trips \cup {trip} /\ req' = [req EXCEPT ![r].pc = "recorded"]
      /\ UNCHANGED <<known, row, calendar, begun, history, corrections>>
  BY DEF IInv, RecordTrip
<1>2. /\ Unrecorded(r) /\ begun \in 0 .. MaxTrips /\ MaxTrips \in Nat
      /\ req[r].at \in 1 .. begun /\ \A t \in trips : t.at # req[r].at
  BY <1>1, NumbersAssumption DEF Unrecorded, ScansAreDated, TypeOK
<1>3. trip \in Trips /\ trip.at = req[r].at
  <2>1. req[r].at \in 1 .. MaxTrips
    BY <1>2
  <2>2. calendar[req[r].at] \in Minutes
    BY <1>1, <2>1, CalendarsAssumption DEF TypeOK
  <2>. QED
    BY <1>1, <2>1, <2>2 DEF TypeOK, Calls, Trips
<1> HIDE DEF trip
<1>4. /\ req' \in [Requests -> Calls] /\ req'[r].pc = "recorded" /\ req'[r].to = req[r].to
      /\ req'[r].row = req[r].row
      /\ \A q \in Requests \ {r} : req'[q] = req[q]
  BY <1>1 DEF TypeOK, Calls
<1>5. IsFiniteSet(trips') /\ trips \subseteq trips'
  BY <1>1, FS_AddElement
<1>6. TypeOK'
  <2>1. trips' \subseteq Trips /\ \A s, t \in trips' : s.at = t.at => s = t
    BY <1>1, <1>2, <1>3 DEF TypeOK
  <2>. QED
    BY <1>1, <1>4, <2>1 DEF TypeOK, history
<1>7. ScansAreDated'
  <2>1. ~Unrecorded(r)' /\ \A q \in Requests \ {r} : Unrecorded(q)' = Unrecorded(q)
    BY <1>4 DEF Unrecorded
  <2>2. \A q \in Requests \ {r} : Unrecorded(q) => req[q].at # trip.at
    BY <1>1, <1>2, <1>3 DEF ScansAreDated
  <2>3. \A t \in trips' : t.at <= begun
    BY <1>1, <1>2, <1>3 DEF ScansAreDated
  <2>. QED
    BY <1>1, <1>4, <2>1, <2>2, <2>3 DEF ScansAreDated
<1>8. ASSUME NEW m \in Routines
      PROVE  /\ \A i \in row'[m].expected : Accounted(m, i)'
             /\ row'[m].observed <= Cardinality(TripsTo(m)')
  BY <1>1, <1>5, RowStands DEF history
<1>9. ExpectedIsAccountedFor' /\ CountedTripsWereMade'
  BY <1>8 DEF ExpectedIsAccountedFor, CountedTripsWereMade, Accounted, TripsTo
<1>10. ASSUME NEW q \in Requests \ {r} PROVE Writable(q)'
  BY <1>1, <1>4, <1>5, CallStands DEF history
<1>11. Writable(r)'
  <2> PICK n \in Routines : n = req[r].to
    BY <1>1 DEF TypeOK, Calls
  <2> PICK new \in Rows : new = req[r].row
    BY <1>1 DEF TypeOK, Calls
  <2>1. Writable(r)
    BY DEF IInv
  <2>2. /\ (\A i \in new.expected : Accounted(n, i)) \/ r \in stale
        /\ row[n].expected \subseteq new.expected \/ r \in stale
        /\ new.observed <= Cardinality(TripsTo(n)) /\ new.observed \in Int
    BY <1>1, <2>1 DEF Writable, Scanning, Rows
  <2>3. new.observed <= Cardinality(TripsTo(n)')
    BY <1>5, <2>2, TripsGrow
  <2>4. ASSUME NEW i \in new.expected, r \notin stale PROVE Accounted(n, i)'
    <3>1. Accounted(n, i) /\ declared' = declared /\ overruled' = overruled
      BY <1>1, <2>2, <2>4 DEF history
    <3>2. Evidence(n, i) >= 2 => Evidence(n, i)' >= 2
      BY <1>5, TripsGrow
    <3>. QED
      BY <3>1, <3>2 DEF Accounted
  <2>5. row' = row /\ stale' = stale
    BY <1>1 DEF history
  <2>. QED
    BY <1>4, <2>2, <2>3, <2>4, <2>5 DEF Writable, Scanning
<1>. QED
  BY <1>5, <1>6, <1>7, <1>9, <1>10, <1>11 DEF IInv


LEMMA NextInv == IInv /\ [Next]_vars => IInv'
<1> SUFFICES ASSUME IInv, [Next]_vars PROVE IInv'
  OBVIOUS
<1>1. ASSUME NEW r \in Requests, NEW n \in Routines, Begin(r, n) PROVE IInv'
  BY <1>1, BeginInv
<1>2. ASSUME NEW r \in Requests, Seed(r) PROVE IInv'
  BY <1>2, SeedInv
<1>3. ASSUME NEW r \in Requests, LookBlind(r) \/ RequestDies(r) PROVE IInv'
  BY <1>3, EndInv
<1>4. ASSUME NEW r \in Requests, NEW found \in SUBSET Items, RecordTrip(r, found) PROVE IInv'
  BY <1>4, RecordTripInv
<1>5. ASSUME NEW r \in Requests, Weigh(r) PROVE IInv'
  BY <1>5, WeighInv
<1>6. ASSUME NEW r \in Requests, Learn(r) PROVE IInv'
  BY <1>6, LearnInv
<1>7. ASSUME NEW r \in Requests, NEW n \in Routines, NEW items \in SUBSET Items,
             NEW time \in UserTimes \cup {Unlearned}, Correct(r, n, items, time)
      PROVE  IInv'
  BY <1>7, CorrectInv
<1>8. ASSUME NEW r \in Requests, WriteCorrection(r) PROVE IInv'
  BY <1>8, WriteCorrectionInv
<1>9. CASE UNCHANGED vars
  <2>1. TypeOK' /\ IsFiniteSet(trips')
    BY <1>9 DEF IInv, TypeOK, vars
  <2>2. ScansAreDated'
    BY <1>9, Zenon DEF IInv, ScansAreDated, Unrecorded, vars
  <2>3. ExpectedIsAccountedFor' /\ CountedTripsWereMade'
    BY <1>9 DEF IInv, ExpectedIsAccountedFor, Evidence, CountedTripsWereMade, vars
  <2>4. ASSUME NEW r \in Requests PROVE Writable(r)'
    BY <1>9, CallStands DEF IInv, vars
  <2>. QED
    BY <2>1, <2>2, <2>3, <2>4 DEF IInv
<1>. QED
  BY <1>1, <1>2, <1>3, <1>4, <1>5, <1>6, <1>7, <1>8, <1>9 DEF Next

\* What a routine may claim, and what a request in flight may write, in every state.
THEOREM Inductive == Spec => []IInv
<1>. QED
  BY InitInv, NextInv, PTL DEF Spec

\* Rows, trips and requests are well formed, and no two scans are dated alike.
THEOREM TypeCorrect == Spec => []TypeOK
<1>1. IInv => TypeOK
  BY DEF IInv
<1>. QED
  BY <1>1, Inductive, PTL

\* No item is in a routine that the seed, the user, two trips or an overruled
\* correction does not answer for.
THEOREM ItemsAreAccountedFor == Spec => []ExpectedIsAccountedFor
<1>1. IInv => ExpectedIsAccountedFor
  BY DEF IInv
<1>. QED
  BY <1>1, Inductive, PTL

\* A routine never counts a trip that was not made to it.
THEOREM CountsAreOfTrips == Spec => []CountedTripsWereMade
<1>1. IInv => CountedTripsWereMade
  BY DEF IInv
<1>. QED
  BY <1>1, Inductive, PTL

\* The learned time is the median of the habit whenever one stands out.
THEOREM LearnsTheHabit == Spec => []TimeFollowsTheHabit
<1>1. IInv => TimeFollowsTheHabit
  <2> SUFFICES ASSUME IInv, NEW r \in Requests,
                      NEW G \in SUBSET Relevant(req[r].to),
                      Cardinality(Relevant(req[r].to)) >= 2, Habit(Relevant(req[r].to), G)
               PROVE  Refined(req[r].row, Relevant(req[r].to)).typical = Middle(G)
    BY DEF TimeFollowsTheHabit
  <2> DEFINE S == Relevant(req[r].to)
  <2>1. req[r].to \in Routines
    BY DEF IInv, TypeOK, Calls
  <2>2. S \in SUBSET Trips /\ IsFiniteSet(S)
    BY <2>1, RelevantType DEF IInv
  <2> HIDE DEF S
  <2>3. Best(S) = G
    BY <2>2, HabitIsBest DEF S
  <2>. QED
    BY <2>3 DEF Refined, Typical, S
<1>. QED
  BY <1>1, Inductive, PTL

\* What Seed, Learn and WriteCorrection write, and to which row; the other steps write none.
LEMMA RowsAreWritten ==
  ASSUME IInv, Next
  PROVE  \/ row' = row
         \/ \E r \in Requests, new \in Rows :
                /\ Upsert(r, req[r].to, new) /\ req[r].pc # "idle" /\ req'[r] # req[r]
                /\ \/ req[r].pc = "correcting"
                   \/ r \in stale
                   \/ row[req[r].to].expected \subseteq new.expected
<1>1. TypeOK /\ \A r \in Requests : Writable(r)
  BY DEF IInv
<1>2. ASSUME NEW r \in Requests, Learn(r) \/ WriteCorrection(r)
      PROVE  \E new \in Rows :
                /\ Upsert(r, req[r].to, new) /\ req[r].pc # "idle" /\ req'[r] # req[r]
                /\ \/ req[r].pc = "correcting"
                   \/ r \in stale
                   \/ row[req[r].to].expected \subseteq new.expected
  <2>1. req[r].row \in Rows /\ req'[r] = Idle /\ Upsert(r, req[r].to, req[r].row)
    BY <1>1, <1>2 DEF TypeOK, Calls, Learn, WriteCorrection, Finish
  <2>2. req[r].pc \in {"learning", "correcting"}
    BY <1>2 DEF Learn, WriteCorrection
  <2>3. req'[r] # req[r] /\ req[r].pc # "idle"
    BY <2>1, <2>2, IdleType
  <2>. QED
    BY <1>1, <2>1, <2>2, <2>3 DEF Writable, Scanning
<1>3. ASSUME NEW r \in Requests, Seed(r)
      PROVE  \E new \in Rows :
                /\ Upsert(r, req[r].to, new) /\ req[r].pc # "idle" /\ req'[r] # req[r]
                /\ r \in stale \/ row[req[r].to].expected \subseteq new.expected
  <2> DEFINE seeded == [Blank EXCEPT !.expected = Starter[req[r].to]]
  <2>1. seeded \in Rows
    BY <1>1, IdleType, StarterAssumption DEF TypeOK, Calls, Blank, Rows
  <2>2. /\ Upsert(r, req[r].to, seeded) /\ req[r].pc = "seeding"
        /\ req' = [req EXCEPT ![r].pc = "looking", ![r].row = seeded]
    BY <1>3 DEF Seed
  <2> HIDE DEF seeded
  <2>3. req'[r].pc = "looking"
    BY <1>1, <2>2 DEF TypeOK, Calls
  <2>4. r \in stale \/ row[req[r].to].expected \subseteq {}
    BY <1>1, <2>2 DEF Writable, Scanning
  <2>. QED
    BY <2>1, <2>2, <2>3, <2>4
<1>4. ASSUME NEW r \in Requests, ~Seed(r), ~Learn(r), ~WriteCorrection(r),
             \/ \E n \in Routines : Begin(r, n)
             \/ LookBlind(r)
             \/ \E found \in SUBSET Items : RecordTrip(r, found)
             \/ Weigh(r)
             \/ \E n \in Routines, items \in SUBSET Items, time \in UserTimes \cup {Unlearned} :
                    Correct(r, n, items, time)
             \/ RequestDies(r)
      PROVE  row' = row
  BY <1>4 DEF Begin, LookBlind, RecordTrip, Weigh, Correct, RequestDies
<1>. QED
  BY <1>2, <1>3, <1>4 DEF Next

\* No write takes a routine's time away.
THEOREM TimesStay == Spec => TimeIsNeverLost
<1> DEFINE Stays == \A n \in Routines : row[n].typical # Unlearned => row'[n].typical # Unlearned
<1>1. IInv /\ [Next]_vars => [Stays]_vars
  <2> SUFFICES ASSUME IInv, Next PROVE Stays
    OBVIOUS
  <2>1. CASE row' = row
    BY <2>1
  <2>2. ASSUME NEW r \in Requests, NEW new \in Rows, Upsert(r, req[r].to, new)
        PROVE  Stays
    <3> PICK n \in Routines : n = req[r].to
      BY DEF IInv, TypeOK, Calls
    <3>. QED
      BY <2>2, UpsertEffect
  <2>. QED
    BY <2>1, <2>2, RowsAreWritten
<1>. QED
  BY <1>1, Inductive, PTL DEF Spec, TimeIsNeverLost

\* An item leaves a routine only by a correction, or by a request that wrote back a row
\* rewritten since it was read.
THEOREM ItemsLeaveByCorrectionOrRace == Spec => LossIsCorrectionOrRace
<1> DEFINE Excused(n) == \E r \in Requests : /\ Holds(r, n) /\ req'[r] # req[r]
                                             /\ req[r].pc = "correcting" \/ r \in stale
           Kept == \A n \in Routines : row[n].expected \subseteq row'[n].expected \/ Excused(n)
<1>1. IInv /\ [Next]_vars => [Kept]_vars
  <2> SUFFICES ASSUME IInv, Next PROVE Kept
    OBVIOUS
  <2>1. CASE row' = row
    BY <2>1
  <2>2. ASSUME NEW r \in Requests, NEW new \in Rows,
               Upsert(r, req[r].to, new), req[r].pc # "idle", req'[r] # req[r],
               \/ req[r].pc = "correcting"
               \/ r \in stale
               \/ row[req[r].to].expected \subseteq new.expected
        PROVE  Kept
    <3> PICK n \in Routines : n = req[r].to
      BY DEF IInv, TypeOK, Calls
    <3>1. /\ row'[n].expected = new.expected
          /\ \A m \in Routines \ {n} : row'[m] = row[m]
      BY <2>2, UpsertEffect
    <3>2. row[n].expected \subseteq row'[n].expected \/ Excused(n)
      BY <2>2, <3>1 DEF Holds
    <3>. QED
      BY <3>1, <3>2
  <2>. QED
    BY <2>1, <2>2, RowsAreWritten
<1>. QED
  BY <1>1, Inductive, PTL DEF Spec, LossIsCorrectionOrRace


===============================================================================
