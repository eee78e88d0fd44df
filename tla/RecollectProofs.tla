----------------------------- MODULE RecollectProofs -----------------------------
(***************************************************************************)
(* What is said of the log is true of the log, for any log, any calendar,   *)
(* any limits, and any frames and words that were filed in it.              *)
(*                                                                         *)
(* The library has induction as a theorem about an operator, which the      *)
(* provers cannot use; Induction says it of a set.  With it come powers and *)
(* folds: that the recursive function exists, and that it recurs.           *)
(***************************************************************************)
EXTENDS Recollect, TLAPS, FiniteSetTheorems, SequenceTheorems, WellFoundedInduction

-------------------------------------------------------------------------------
(* Induction. *)

\* Every set of numbers has a least.
LEMMA Least ==
  ASSUME NEW S \in SUBSET Nat, S # {}
  PROVE  \E m \in S : \A k \in S : m <= k
<1> DEFINE T == {0 .. m : m \in S}
<1>1. T # {} /\ T \subseteq FiniteSubsetsOf(Nat)
  <2>1. \A m \in S : IsFiniteSet(0 .. m) /\ 0 .. m \in SUBSET Nat
    BY FS_Interval
  <2>. QED
    BY <2>1 DEF FiniteSubsetsOf
<1>2. PICK x \in T : \A y \in T : ~(<<y, x>> \in StrictSubsetOrdering(Nat))
  <2>1. IsWellFoundedOn(StrictSubsetOrdering(Nat), FiniteSubsetsOf(Nat))
    BY FS_StrictSubsetOrderingWellFounded
  <2> HIDE DEF T
  <2>. QED
    BY <1>1, <2>1, WFMin
<1>3. PICK m \in S : x = 0 .. m
  OBVIOUS
<1>4. ASSUME NEW k \in S, k < m
      PROVE  FALSE
  <2>1. /\ 0 .. k \in SUBSET Nat /\ 0 .. m \in SUBSET Nat /\ 0 .. k \subseteq 0 .. m
    BY <1>4
  <2>2. m \in 0 .. m /\ m \notin 0 .. k
    BY <1>4
  <2>3. <<0 .. k, 0 .. m>> \in StrictSubsetOrdering(Nat)
    BY <2>1, <2>2 DEF StrictSubsetOrdering
  <2>. QED
    BY <1>2, <1>3, <2>3
<1>. QED
  BY <1>3, <1>4

\* From Least: a set that has 0, and k + 1 with every k, has every number up to n.
LEMMA Induction ==
  ASSUME NEW n \in Nat, NEW S, 0 \in S,
         \A k \in 0 .. n : k + 1 \in 0 .. n /\ k \in S => k + 1 \in S
  PROVE  \A k \in 0 .. n : k \in S
<1> DEFINE T == {k \in 0 .. n : k \notin S}
<1> SUFFICES ASSUME T # {} PROVE FALSE
  OBVIOUS
<1>1. PICK m \in T : \A k \in T : m <= k
  <2>1. T \in SUBSET Nat
    OBVIOUS
  <2> HIDE DEF T
  <2>. QED
    BY <2>1, Least
<1>2. m - 1 \in 0 .. n /\ m - 1 \in S
  BY <1>1
<1>. QED
  BY <1>1, <1>2

-------------------------------------------------------------------------------
(* Powers. *)

Powers(b, n, p) == p = [k \in 0 .. n |-> IF k = 0 THEN 1 ELSE b * p[k - 1]]

\* There is a function as Power chooses it.
LEMMA PowersExist ==
  ASSUME NEW b \in Nat, NEW n \in Nat
  PROVE  \E p \in [0 .. n -> Nat] : Powers(b, n, p)
<1> DEFINE S == {k \in 0 .. n : \E p \in [0 .. k -> Nat] : Powers(b, k, p)}
<1>1. 0 \in S
  <2>1. [k \in 0 .. 0 |-> 1] \in [0 .. 0 -> Nat] /\ Powers(b, 0, [k \in 0 .. 0 |-> 1])
    BY DEF Powers
  <2>. QED
    BY <2>1
<1>2. ASSUME NEW k \in 0 .. n, k + 1 \in 0 .. n, k \in S
      PROVE  k + 1 \in S
  <2>1. PICK p \in [0 .. k -> Nat] : Powers(b, k, p)
    BY <1>2
  <2> DEFINE q == [i \in 0 .. k + 1 |-> IF i = k + 1 THEN b * p[k] ELSE p[i]]
  <2>2. q \in [0 .. k + 1 -> Nat]
    BY <2>1
  <2>3. ASSUME NEW i \in 0 .. k + 1
        PROVE  q[i] = IF i = 0 THEN 1 ELSE b * q[i - 1]
    <3>1. CASE i = k + 1
      BY <3>1
    <3>2. CASE i # k + 1
      <4>1. i \in 0 .. k /\ p[i] = IF i = 0 THEN 1 ELSE b * p[i - 1]
        BY <2>1, <3>2 DEF Powers
      <4>. QED
        BY <4>1
    <3>. QED
      BY <3>1, <3>2
  <2>4. Powers(b, k + 1, q)
    BY <2>3 DEF Powers
  <2>. QED
    BY <1>2, <2>2, <2>4
<1>3. \A k \in 0 .. n : k \in S
  <2> HIDE DEF S
  <2>. QED
    BY <1>1, <1>2, Induction
<1>4. n \in S
  <2> HIDE DEF S
  <2>. QED
    BY <1>3
<1>. QED
  BY <1>4

LEMMA PowerRecurs ==
  ASSUME NEW b \in Nat, NEW n \in Nat
  PROVE  \E p : /\ p \in [0 .. n -> Nat] /\ p[n] = Power(b, n) /\ p[0] = 1
                /\ \A k \in 1 .. n : p[k] = b * p[k - 1]
<1> DEFINE p == CHOOSE q : Powers(b, n, q)
<1>1. Powers(b, n, p)
  BY PowersExist
<1>2. Power(b, n) = p[n]
  BY DEF Power, Powers
<1> HIDE DEF p
<1>3. p[0] = 1 /\ \A k \in 1 .. n : p[k] = b * p[k - 1]
  BY <1>1 DEF Powers
<1> DEFINE S == {k \in 0 .. n : p[k] \in Nat}
<1>4. \A k \in 0 .. n : k \in S
  <2>1. 0 \in S
    BY <1>3
  <2>2. ASSUME NEW k \in 0 .. n, k + 1 \in 0 .. n, k \in S
        PROVE  k + 1 \in S
    <3>1. p[k + 1] = b * p[k] /\ p[k] \in Nat
      BY <1>3, <2>2
    <3>. QED
      BY <2>2, <3>1
  <2> HIDE DEF S
  <2>. QED
    BY <2>1, <2>2, Induction
<1>5. p \in [0 .. n -> Nat]
  <2>1. p = [k \in 0 .. n |-> p[k]]
    BY <1>1 DEF Powers
  <2>. QED
    BY <1>4, <2>1
<1>. QED
  BY <1>2, <1>3, <1>5

LEMMA PowerStep ==
  ASSUME NEW b \in Nat, NEW n \in Nat
  PROVE  /\ Power(b, n) \in Nat /\ Power(b, 0) = 1
         /\ Power(b, n + 1) = b * Power(b, n)
<1>1. PICK p : /\ p \in [0 .. n -> Nat] /\ p[n] = Power(b, n) /\ p[0] = 1
               /\ \A k \in 1 .. n : p[k] = b * p[k - 1]
  BY PowerRecurs
<1>2. PICK q : /\ q \in [0 .. n + 1 -> Nat] /\ q[n + 1] = Power(b, n + 1) /\ q[0] = 1
               /\ \A k \in 1 .. n + 1 : q[k] = b * q[k - 1]
  BY PowerRecurs, n + 1 \in Nat
<1>3. Power(b, 0) = 1
  BY PowerRecurs, 0 \in Nat
<1> DEFINE S == {k \in 0 .. n : p[k] = q[k]}
<1>4. \A k \in 0 .. n : k \in S
  <2>1. 0 \in S
    BY <1>1, <1>2
  <2>2. ASSUME NEW k \in 0 .. n, k + 1 \in 0 .. n, k \in S
        PROVE  k + 1 \in S
    BY <1>1, <1>2, <2>2
  <2> HIDE DEF S
  <2>. QED
    BY <2>1, <2>2, Induction
<1>. QED
  BY <1>1, <1>2, <1>3, <1>4

LEMMA PowerIsNat == \A b, n \in Nat : Power(b, n) \in Nat
BY PowerStep

LEMMA PowerGrows ==
  ASSUME NEW a \in Nat, NEW b \in Nat, a <= b, NEW n \in Nat
  PROVE  Power(a, n) <= Power(b, n)
<1> DEFINE S == {k \in 0 .. n : Power(a, k) <= Power(b, k)}
<1>1. 0 \in S
  BY PowerStep
<1>2. ASSUME NEW k \in 0 .. n, k + 1 \in 0 .. n, k \in S
      PROVE  k + 1 \in S
  <2>1. /\ Power(a, k) \in Nat /\ Power(b, k) \in Nat /\ Power(a, k) <= Power(b, k)
        /\ Power(a, k + 1) = a * Power(a, k) /\ Power(b, k + 1) = b * Power(b, k)
    BY <1>2, PowerStep
  <2>2. \A x, y \in Nat : x <= y => a * x <= b * y
    BY SMTT(30)
  <2>. QED
    BY <1>2, <2>1, <2>2
<1>3. \A k \in 0 .. n : k \in S
  <2> HIDE DEF S
  <2>. QED
    BY <1>1, <1>2, Induction
<1>. QED
  BY <1>3

LEMMA OneIsOne ==
  ASSUME NEW n \in Nat
  PROVE  Power(1, n) = 1
<1> DEFINE S == {k \in 0 .. n : Power(1, k) = 1}
<1>1. 0 \in S
  BY PowerStep
<1>2. ASSUME NEW k \in 0 .. n, k + 1 \in 0 .. n, k \in S
      PROVE  k + 1 \in S
  BY <1>2, PowerStep
<1>3. \A k \in 0 .. n : k \in S
  <2> HIDE DEF S
  <2>. QED
    BY <1>1, <1>2, Induction
<1>. QED
  BY <1>3

LEMMA PowerGrowsStrictly ==
  ASSUME NEW a \in Nat, NEW b \in Nat, a < b, NEW n \in Nat \ {0}
  PROVE  Power(a, n) < Power(b, n)
<1>1. n - 1 \in Nat
  OBVIOUS
<1>2. /\ Power(a, n - 1) \in Nat /\ Power(b, n - 1) \in Nat
      /\ Power(a, (n - 1) + 1) = a * Power(a, n - 1)
      /\ Power(b, (n - 1) + 1) = b * Power(b, n - 1)
      /\ Power(a, n - 1) <= Power(b, n - 1)
  BY <1>1, PowerStep, PowerGrows
<1>3. Power(b, n - 1) > 0
  <2>1. 1 <= b
    OBVIOUS
  <2>2. Power(1, n - 1) = 1 /\ Power(1, n - 1) <= Power(b, n - 1)
    BY <1>1, <2>1, OneIsOne, PowerGrows
  <2>. QED
    BY <1>2, <2>2
<1>4. \A x, y \in Nat : x <= y /\ y > 0 => a * x < b * y
  <2> SUFFICES ASSUME NEW x \in Nat, NEW y \in Nat, x <= y, y > 0
               PROVE  a * x < b * y
    OBVIOUS
  <2>1. a * x <= a * y
    OBVIOUS
  <2>2. a * y < b * y
    OBVIOUS
  <2>. QED
    BY <2>1, <2>2
<1>. QED
  BY <1>1, <1>2, <1>3, <1>4

LEMMA PowerOfProduct ==
  ASSUME NEW a \in Nat, NEW b \in Nat, NEW n \in Nat
  PROVE  Power(a * b, n) = Power(a, n) * Power(b, n)
<1> DEFINE S == {k \in 0 .. n : Power(a * b, k) = Power(a, k) * Power(b, k)}
<1>0. a * b \in Nat
  OBVIOUS
<1>1. 0 \in S
  BY <1>0, PowerStep
<1>2. ASSUME NEW k \in 0 .. n, k + 1 \in 0 .. n, k \in S
      PROVE  k + 1 \in S
  <2>1. /\ Power(a, k) \in Nat /\ Power(b, k) \in Nat
        /\ Power(a * b, k) = Power(a, k) * Power(b, k)
        /\ Power(a, k + 1) = a * Power(a, k) /\ Power(b, k + 1) = b * Power(b, k)
        /\ Power(a * b, k + 1) = (a * b) * Power(a * b, k)
    BY <1>0, <1>2, PowerStep
  <2>2. \A x, y \in Nat : (a * b) * (x * y) = (a * x) * (b * y)
    OBVIOUS
  <2>. QED
    BY <1>2, <2>1, <2>2
<1>3. \A k \in 0 .. n : k \in S
  <2> HIDE DEF S
  <2>. QED
    BY <1>1, <1>2, Induction
<1>. QED
  BY <1>3

LEMMA PowerOfSum ==
  ASSUME NEW b \in Nat, NEW m \in Nat, NEW n \in Nat
  PROVE  Power(b, m + n) = Power(b, m) * Power(b, n)
<1> DEFINE S == {k \in 0 .. n : Power(b, m + k) = Power(b, m) * Power(b, k)}
<1>1. 0 \in S
  BY PowerStep
<1>2. ASSUME NEW k \in 0 .. n, k + 1 \in 0 .. n, k \in S
      PROVE  k + 1 \in S
  <2>1. /\ Power(b, m) \in Nat /\ Power(b, k) \in Nat
        /\ Power(b, m + k) = Power(b, m) * Power(b, k)
        /\ Power(b, k + 1) = b * Power(b, k)
        /\ Power(b, (m + k) + 1) = b * Power(b, m + k)
    BY <1>2, PowerStep, m + k \in Nat
  <2>2. \A x, y \in Nat : b * (x * y) = x * (b * y)
    OBVIOUS
  <2>3. (m + k) + 1 = m + (k + 1)
    OBVIOUS
  <2>. QED
    BY <1>2, <2>1, <2>2, <2>3
<1>3. \A k \in 0 .. n : k \in S
  <2> HIDE DEF S
  <2>. QED
    BY <1>1, <1>2, Induction
<1>. QED
  BY <1>3

-------------------------------------------------------------------------------
(* How long a sighting counts. *)

\* After two half-lives nothing is worth 0.4 any more.
LEMMA Fades ==
  ASSUME NEW c \in 0 .. 200, NEW h \in Nat \ {0}, NEW age \in Nat, age >= h + h
  PROVE  Power(c, h) < Power(80, h) * Power(2, age)
<1>1. /\ Power(c, h) \in Nat /\ Power(200, h) \in Nat /\ Power(320, h) \in Nat
      /\ Power(80, h) \in Nat /\ Power(4, h) \in Nat /\ Power(2, h) \in Nat
      /\ Power(2, age) \in Nat /\ Power(2, h + h) \in Nat
  BY PowerIsNat, c \in Nat, h \in Nat, h + h \in Nat
<1>2. Power(c, h) <= Power(200, h) /\ Power(200, h) < Power(320, h)
  BY PowerGrows, PowerGrowsStrictly
<1>3. Power(320, h) = Power(80, h) * Power(4, h)
  BY PowerOfProduct, 80 * 4 = 320
<1>4. Power(4, h) = Power(2, h + h)
  BY PowerOfProduct, PowerOfSum, 2 * 2 = 4
<1>5. Power(2, h + h) <= Power(2, age)
  <2> DEFINE r == age - (h + h)
  <2>1. r \in Nat /\ age = (h + h) + r
    OBVIOUS
  <2>2. Power(2, age) = Power(2, h + h) * Power(2, r) /\ Power(2, r) \in Nat
    <3> HIDE DEF r
    <3>. QED
      BY <2>1, PowerOfSum, PowerStep
  <2>3. 1 <= Power(2, r)
    <3> HIDE DEF r
    <3>1. Power(1, r) <= Power(2, r)
      BY <2>1, PowerGrows
    <3>. QED
      BY <2>1, <3>1, OneIsOne
  <2>4. \A x, y \in Nat : 1 <= y => x <= x * y
    OBVIOUS
  <2> HIDE DEF r
  <2>. QED
    BY <1>1, <2>2, <2>3, <2>4
<1>6. \A x, y, z \in Nat : y <= z => x * y <= x * z
  OBVIOUS
<1>7. Power(80, h) * Power(4, h) <= Power(80, h) * Power(2, age)
  BY <1>1, <1>4, <1>5, <1>6
<1>8. Power(80, h) * Power(4, h) \in Nat /\ Power(80, h) * Power(2, age) \in Nat
  BY <1>1
<1>. QED
  BY <1>1, <1>2, <1>3, <1>7, <1>8

\* Within half a half-life what was worth 0.7 is worth 0.4.
LEMMA Lasts ==
  ASSUME NEW c \in Nat, 140 <= c, NEW h \in Nat, NEW age \in Nat, age + age <= h
  PROVE  Power(80, h) * Power(2, age) <= Power(c, h)
<1> DEFINE r == h - (age + age)
<1>1. r \in Nat /\ h = (age + age) + r
  OBVIOUS
<1> HIDE DEF r
<1>2. /\ Power(80, h) = (Power(80, age) * Power(80, age)) * Power(80, r)
      /\ Power(140, h) = (Power(140, age) * Power(140, age)) * Power(140, r)
  BY <1>1, PowerOfSum, age + age \in Nat
<1>3. /\ Power(6400, age) = Power(80, age) * Power(80, age)
      /\ Power(12800, age) = Power(6400, age) * Power(2, age)
      /\ Power(19600, age) = Power(140, age) * Power(140, age)
  BY PowerOfProduct, 80 * 80 = 6400, 6400 * 2 = 12800, 140 * 140 = 19600
<1>4. /\ Power(12800, age) <= Power(19600, age)
      /\ Power(80, r) <= Power(140, r)
      /\ Power(140, h) <= Power(c, h)
  BY <1>1, PowerGrows
<1>5. /\ Power(80, h) \in Nat /\ Power(140, h) \in Nat /\ Power(c, h) \in Nat
      /\ Power(2, age) \in Nat /\ Power(80, r) \in Nat /\ Power(140, r) \in Nat
      /\ Power(6400, age) \in Nat /\ Power(12800, age) \in Nat /\ Power(19600, age) \in Nat
  <2>1. \A b \in Nat : Power(b, h) \in Nat /\ Power(b, age) \in Nat /\ Power(b, r) \in Nat
    BY <1>1, PowerIsNat
  <2>. QED
    BY <2>1
<1>6. Power(80, h) * Power(2, age) = Power(12800, age) * Power(80, r)
  <2>1. \A x, y, z \in Nat : (x * y) * z = (x * z) * y
    OBVIOUS
  <2>. QED
    BY <1>2, <1>3, <1>5, <2>1
<1>7. Power(140, h) = Power(19600, age) * Power(140, r)
  BY <1>2, <1>3
<1>8. \A u, v, x, y \in Nat : u <= v /\ x <= y => u * x <= v * y
  <2> SUFFICES ASSUME NEW u \in Nat, NEW v \in Nat, NEW x \in Nat, NEW y \in Nat,
                      u <= v, x <= y
               PROVE  u * x <= v * y
    OBVIOUS
  <2>1. u * x <= u * y /\ u * y <= v * y
    OBVIOUS
  <2>. QED
    BY <2>1
<1>9. Power(12800, age) * Power(80, r) <= Power(19600, age) * Power(140, r)
  BY <1>4, <1>5, <1>8
<1>. QED
  BY <1>4, <1>5, <1>6, <1>7, <1>9

Rows == ItemRows \cup OtherRows

LEMMA RowsTyped ==
  ASSUME NEW o \in Rows
  PROVE  /\ o.at \in Moments /\ o.at \in Nat
         /\ o.kind = "item" => o \in ItemRows
         /\ o.kind # "item" => o \in OtherRows
BY ClockAssumption DEF Rows, ItemRows, OtherRows, Moments

\* A set of rows has one that is dated no earlier than the others.
LEMMA LatestExists ==
  ASSUME NEW R \in SUBSET Rows, R # {}
  PROVE  \E o \in R : \A p \in R : p.at <= o.at
<1> DEFINE T == {MaxTime - o.at : o \in R}
<1>1. MaxTime \in Nat /\ \A o \in R : o.at \in Nat /\ o.at <= MaxTime
  BY RowsTyped, ClockAssumption DEF Moments
<1>2. T \in SUBSET Nat /\ T # {}
  <2>1. \A o \in R : MaxTime - o.at \in Nat
    BY <1>1
  <2>. QED
    BY <2>1
<1>3. PICK x \in T : \A y \in T : x <= y
  <2> HIDE DEF T
  <2>. QED
    BY <1>2, Least
<1>4. PICK o \in R : x = MaxTime - o.at
  OBVIOUS
<1>5. \A p \in R : MaxTime - o.at <= MaxTime - p.at
  BY <1>3, <1>4
<1>. QED
  BY <1>1, <1>4, <1>5

LEMMA CertaintyTyped ==
  ASSUME NEW o \in ItemRows
  PROVE  Certainty(o) \in 0 .. 200
<1>1. o.conf \in 0 .. 10 /\ Weight(o.method) \in {20, 17, 11}
  BY DEF ItemRows, Methods, Weight
<1>. QED
  BY <1>1 DEF Certainty

\* A recall vouches for a sighting that is still worth 0.4.
LEMMA VouchesReach ==
  ASSUME NEW o \in ItemRows, NEW t \in Moments
  PROVE  Label(o, t) \notin {"none", "low"} <=> Reaches(o, t, 80)
<1>1. Age(o, t) \in Nat
  BY RowsTyped, ClockAssumption DEF Age, Moments, Rows
<1>2. /\ Power(140, HalfLife) \in Nat /\ Power(80, HalfLife) \in Nat
      /\ Power(2, Age(o, t)) \in Nat /\ Power(Certainty(o), HalfLife) \in Nat
      /\ Power(80, HalfLife) <= Power(140, HalfLife)
  <2>1. HalfLife \in Nat /\ Certainty(o) \in Nat
    BY CertaintyTyped, ClockAssumption
  <2>. QED
    <3>1. \A b \in Nat : Power(b, HalfLife) \in Nat /\ Power(b, Age(o, t)) \in Nat
      BY <1>1, <2>1, PowerIsNat
    <3>2. Power(80, HalfLife) <= Power(140, HalfLife)
      BY <2>1, PowerGrows
    <3>. QED
      BY <2>1, <3>1, <3>2
<1>3. \A x, y, z \in Nat : x <= y => x * z <= y * z
  OBVIOUS
<1>4. /\ Power(80, HalfLife) * Power(2, Age(o, t)) <= Power(140, HalfLife) * Power(2, Age(o, t))
      /\ Power(80, HalfLife) * Power(2, Age(o, t)) \in Nat
      /\ Power(140, HalfLife) * Power(2, Age(o, t)) \in Nat
  BY <1>2, <1>3
<1>5. Reaches(o, t, 140) => Reaches(o, t, 80)
  BY <1>2, <1>4 DEF Reaches
<1>6. Reaches(o, t, 140) \in BOOLEAN /\ Reaches(o, t, 80) \in BOOLEAN
  BY DEF Reaches
<1>. QED
  BY <1>5 DEF Label

-------------------------------------------------------------------------------
(* What a leave scan says of an item. *)

LogOK ==
    /\ now \in Moments
    /\ log \subseteq Rows /\ IsFiniteSet(log)
    /\ \A o \in log : o.at <= now

\* A sighting of n among rows, no older than any in known, that did not have it surely
\* on the body.
Doubted(n, at, known, rows) ==
    \E o \in Sightings(rows, n) :
        (\A p \in known : p.at <= o.at) /\ ~SurelyOnBody(o, at)

\* What a scan holds of n, while it asks and when it tells.
Rests(v, n, seen, at, knew, rows) ==
    LET known == Sightings(knew, n)
    IN /\ v.is = "found" => n \in seen \/ Confusable(n)
       /\ v.is # "found" => n \notin seen
       /\ v.is \in {"carried", "missing"} =>
            /\ v.by = NoRow => known = {}
            /\ v.by # NoRow =>
                 /\ v.by \in rows
                 /\ \A o \in known : o.at <= v.by.at
                 /\ v.by.subject = n \/ Confusable(n)
       /\ v.is = "carried" =>
            v.by.detail \in OnPerson /\ at - v.by.at < 2 * HalfLife
       /\ v.is \in {"absent", "missing"} /\ known # {} /\ ~Confusable(n) =>
            Doubted(n, at, known, rows)

\* Rows that come later take nothing from it.
LEMMA RestsStays ==
  ASSUME NEW v, NEW n, NEW seen, NEW at, NEW knew, NEW rows, NEW more, rows \subseteq more,
         Rests(v, n, seen, at, knew, rows)
  PROVE  Rests(v, n, seen, at, knew, more)
<1>1. Sightings(rows, n) \subseteq Sightings(more, n)
  BY DEF Sightings
<1>2. \A known : Doubted(n, at, known, rows) => Doubted(n, at, known, more)
  BY <1>1 DEF Doubted
<1>. QED
  BY <1>2 DEF Rests

\* find_by_subject returns every sighting of the very item, and of others only those
\* with a name or a detail that one is part of.
LEMMA OwnRowsMatch ==
  ASSUME log \subseteq Rows, NEW n \in Names
  PROVE  /\ Sightings(log, n) \subseteq Matching(n)
         /\ Matching(n) \subseteq ItemRows
         /\ \A o \in Matching(n) : o # NoRow /\ (o.subject = n \/ Confusable(n))
<1>1. \A o \in Matching(n) : o \in ItemRows
  BY RowsTyped DEF Matching, Matches
<1>2. \A o \in ItemRows : /\ o.kind = "item" /\ o.subject \in Names /\ o.detail \in Details
                          /\ o # NoRow
  <2>1. \A o \in ItemRows : o.kind = "item"
    BY DEF ItemRows
  <2>2. NoRow.kind = "none"
    BY DEF NoRow
  <2>3. \A o \in ItemRows : o.subject \in Names /\ o.detail \in Details
    BY DEF ItemRows
  <2>. QED
    BY <2>1, <2>2, <2>3
<1>3. Sightings(log, n) \subseteq Matching(n)
  BY NamesAssumption DEF Sightings, Matching, Matches
<1>4. \A o \in Matching(n) : o.subject = n \/ Confusable(n)
  BY <1>1, <1>2 DEF Matching, Matches, Confusable
<1>. QED
  BY <1>1, <1>2, <1>3, <1>4

\* _carried_check excuses an item only by a newest sighting, on the body, less than two
\* half-lives old.
LEMMA CarriedIsRecent ==
  ASSUME log \subseteq Rows, NEW n \in Names, NEW t \in Moments, NEW o \in CarriedCheck(n, t)
  PROVE  o \in LastSeen(n) /\ o.detail \in OnPerson /\ t - o.at < 2 * HalfLife
<1>1. PICK a \in ItemRecall(n, t) : o = a.sighting /\ IsOnPerson(a.sighting.detail) /\ Vouches(a)
  BY DEF CarriedCheck
<1>2. o \in LastSeen(n) /\ o.detail \in OnPerson /\ Label(o, t) \notin {"none", "low"}
  BY <1>1 DEF ItemRecall, IsOnPerson, Vouches
<1>3. o \in ItemRows
  BY <1>2, OwnRowsMatch DEF LastSeen
<1>4. Reaches(o, t, 80)
  BY <1>2, <1>3, VouchesReach
<1>5. Age(o, t) \in Nat /\ t \in Nat /\ o.at \in Nat /\ HalfLife \in Nat \ {0}
  BY <1>3, RowsTyped, ClockAssumption DEF Age, Moments, Rows
<1>6. ~(Age(o, t) >= HalfLife + HalfLife)
  <2> SUFFICES ASSUME Age(o, t) >= HalfLife + HalfLife PROVE FALSE
    OBVIOUS
  <2>1. Power(Certainty(o), HalfLife) < Power(80, HalfLife) * Power(2, Age(o, t))
    BY <1>3, <1>5, CertaintyTyped, Fades
  <2>2. Certainty(o) \in Nat
    BY <1>3, CertaintyTyped
  <2>3. Power(Certainty(o), HalfLife) \in Nat
        /\ Power(80, HalfLife) \in Nat /\ Power(2, Age(o, t)) \in Nat
    BY <1>5, <2>2, PowerIsNat
  <2>4. Power(80, HalfLife) * Power(2, Age(o, t)) \in Nat
    BY <2>3
  <2>. QED
    BY <1>4, <2>1, <2>3, <2>4 DEF Reaches
<1>. QED
  BY <1>2, <1>5, <1>6 DEF Age

\* A newest sighting on the body that was sure and is not half a half-life old excuses it.
LEMMA SureIsCarried ==
  ASSUME log \subseteq Rows, NEW n \in Names, NEW t \in Moments, NEW o \in LastSeen(n),
         o.detail \in OnPerson, Certainty(o) >= 140, 2 * (t - o.at) <= HalfLife
  PROVE  o \in CarriedCheck(n, t)
<1>1. o \in ItemRows
  BY OwnRowsMatch DEF LastSeen
<1>2. Age(o, t) \in Nat /\ t \in Nat /\ o.at \in Nat /\ HalfLife \in Nat \ {0}
  BY <1>1, RowsTyped, ClockAssumption DEF Age, Moments, Rows
<1>3. Age(o, t) + Age(o, t) <= HalfLife
  BY <1>2 DEF Age
<1>4. Certainty(o) \in Nat
  BY <1>1, CertaintyTyped
<1>5. Power(80, HalfLife) * Power(2, Age(o, t)) <= Power(Certainty(o), HalfLife)
  BY <1>2, <1>3, <1>4, Lasts
<1>6. /\ Power(Certainty(o), HalfLife) \in Nat
      /\ Power(80, HalfLife) \in Nat /\ Power(2, Age(o, t)) \in Nat
  BY <1>2, <1>4, PowerIsNat
<1>7. Power(80, HalfLife) * Power(2, Age(o, t)) \in Nat
  BY <1>6
<1>8. Label(o, t) \notin {"none", "low"}
  BY <1>1, <1>5, <1>6, <1>7, VouchesReach DEF Reaches
<1> DEFINE a == [sighting |-> o, label |-> Label(o, t)]
<1>9. a \in ItemRecall(n, t) /\ IsOnPerson(a.sighting.detail) /\ Vouches(a)
  BY <1>8 DEF ItemRecall, IsOnPerson, Vouches
<1>. QED
  BY <1>9 DEF CarriedCheck

\* What the frame shows.
LEMMA LookedForRests ==
  ASSUME NEW n \in Names, NEW seen \in SUBSET Names, NEW at, NEW knew, NEW rows
  PROVE  /\ LookedFor(n, seen) \in Verdicts \cup Unsettled
         /\ Rests(LookedFor(n, seen), n, seen, at, knew, rows)
<1>1. IsPresent(n, seen) <=> \E got \in seen : <<n, got>> \in Within \/ <<got, n>> \in Within
  BY DEF IsPresent
<1>2. CASE IsPresent(n, seen)
  <2>1. n \in seen \/ Confusable(n)
    BY <1>1, <1>2 DEF Confusable
  <2>2. LookedFor(n, seen) = [is |-> "found", by |-> NoRow]
    BY <1>2 DEF LookedFor, Verdict
  <2>. QED
    BY <2>1, <2>2 DEF Rests, Verdicts
<1>3. CASE ~IsPresent(n, seen)
  <2>1. n \notin seen
    BY <1>1, <1>3, NamesAssumption
  <2>2. LookedFor(n, seen) = [is |-> "open", by |-> NoRow]
    BY <1>3 DEF LookedFor, Verdict
  <2>. QED
    BY <2>1, <2>2 DEF Rests, Unsettled
<1>. QED
  BY <1>2, <1>3

\* A newest row of what find_by_subject returns is as new as any that was known.
LEMMA NewestIsNew ==
  ASSUME log \subseteq Rows, NEW n \in Names, NEW knew \in SUBSET log, NEW o \in LastSeen(n)
  PROVE  /\ o \in log /\ o \in ItemRows /\ o # NoRow /\ (o.subject = n \/ Confusable(n))
         /\ \A p \in Sightings(knew, n) : p.at <= o.at
         /\ ~Confusable(n) => o \in Sightings(log, n)
<1>1. o \in Matching(n) /\ \A p \in Matching(n) : p.at <= o.at
  BY DEF LastSeen
<1>2. o \in log /\ o.kind = "item"
  BY <1>1 DEF Matching, Matches
<1>3. o \in ItemRows /\ o # NoRow /\ (o.subject = n \/ Confusable(n))
  BY <1>1, OwnRowsMatch
<1>4. Sightings(knew, n) \subseteq Matching(n)
  BY OwnRowsMatch DEF Sightings
<1>. QED
  BY <1>1, <1>2, <1>3, <1>4 DEF Sightings

\* What is known has a newest row.
LEMMA KnownIsMatched ==
  ASSUME log \subseteq Rows, NEW n \in Names, NEW knew \in SUBSET log,
         Sightings(knew, n) # {}
  PROVE  LastSeen(n) # {}
<1>1. Matching(n) # {} /\ Matching(n) \in SUBSET Rows
  BY OwnRowsMatch DEF Sightings, Rows
<1>2. \E o \in Matching(n) : \A p \in Matching(n) : p.at <= o.at
  BY <1>1, LatestExists
<1>. QED
  BY <1>2 DEF LastSeen

\* _carried_check, whatever was logged since the scan began.
LEMMA CheckedRests ==
  ASSUME LogOK, NEW n \in Names, NEW seen, n \notin seen, NEW at \in Moments,
         NEW knew \in SUBSET log, NEW v \in Checked(n, at)
  PROVE  v \in Verdicts \cup Unsettled /\ Rests(v, n, seen, at, knew, log)
<1>0. log \subseteq Rows
  BY DEF LogOK
<1>1. CASE \E o \in CarriedCheck(n, at) : v = [is |-> "carried", by |-> o]
  <2>1. PICK o \in CarriedCheck(n, at) : v = [is |-> "carried", by |-> o]
    BY <1>1
  <2>2. o \in LastSeen(n) /\ o.detail \in OnPerson /\ at - o.at < 2 * HalfLife
    BY <1>0, CarriedIsRecent
  <2>3. /\ o \in log /\ o \in ItemRows /\ o # NoRow /\ (o.subject = n \/ Confusable(n))
        /\ \A p \in Sightings(knew, n) : p.at <= o.at
    BY <1>0, <2>2, NewestIsNew
  <2>4. v.is = "carried" /\ v.by = o
    BY <2>1
  <2>5. v \in Verdicts
    BY <2>1, <2>3 DEF Verdicts
  <2>. QED
    BY <2>2, <2>3, <2>4, <2>5 DEF Rests
<1>2. CASE /\ v = [is |-> "absent", by |-> NoRow]
           /\ ~(LastSeen(n) \subseteq CarriedCheck(n, at) /\ CarriedCheck(n, at) # {})
  <2>1. ASSUME Sightings(knew, n) # {}, ~Confusable(n)
        PROVE  Doubted(n, at, Sightings(knew, n), log)
    <3>1. PICK o \in LastSeen(n) : o \notin CarriedCheck(n, at)
      <4>1. LastSeen(n) # {}
        BY <1>0, <2>1, KnownIsMatched
      <4>. QED
        BY <1>2, <4>1
    <3>2. ~SurelyOnBody(o, at)
      BY <1>0, <3>1, SureIsCarried DEF SurelyOnBody
    <3>3. o \in Sightings(log, n) /\ \A p \in Sightings(knew, n) : p.at <= o.at
      BY <1>0, <2>1, NewestIsNew
    <3>. QED
      BY <3>2, <3>3 DEF Doubted
  <2>2. v.is = "absent" /\ v \in Unsettled
    BY <1>2 DEF Unsettled
  <2>. QED
    BY <2>1, <2>2 DEF Rests
<1>3. \/ \E o \in CarriedCheck(n, at) : v = [is |-> "carried", by |-> o]
      \/ /\ v = [is |-> "absent", by |-> NoRow]
         /\ ~(LastSeen(n) \subseteq CarriedCheck(n, at) /\ CarriedCheck(n, at) # {})
  BY DEF Checked, Verdict
<1>. QED
  BY <1>1, <1>2, <1>3

\* _last_seen_hint, whatever was logged since the item was found absent.
LEMMA HintedRests ==
  ASSUME LogOK, NEW n \in Names, NEW seen, n \notin seen, NEW at, NEW knew \in SUBSET log,
         Sightings(knew, n) # {} /\ ~Confusable(n) => Doubted(n, at, Sightings(knew, n), log),
         NEW v \in Hinted(n)
  PROVE  v \in Verdicts \cup Unsettled /\ Rests(v, n, seen, at, knew, log)
<1>0. log \subseteq Rows
  BY DEF LogOK
<1>1. PICK o \in LastSeenHint(n) : v = [is |-> "missing", by |-> o]
  BY DEF Hinted, Verdict
<1>2. v.is = "missing" /\ v.by = o
  BY <1>1
<1>3. CASE Matching(n) = {}
  <2>1. o = NoRow
    BY <1>1, <1>3 DEF LastSeenHint
  <2>2. Sightings(knew, n) = {}
    BY <1>0, <1>3, OwnRowsMatch DEF Sightings
  <2>3. v \in Verdicts
    BY <1>1, <2>1 DEF Verdicts
  <2>. QED
    BY <1>2, <2>1, <2>2, <2>3 DEF Rests
<1>4. CASE Matching(n) # {}
  <2>1. o \in LastSeen(n)
    BY <1>1, <1>4 DEF LastSeenHint
  <2>2. /\ o \in log /\ o \in ItemRows /\ o # NoRow /\ (o.subject = n \/ Confusable(n))
        /\ \A p \in Sightings(knew, n) : p.at <= o.at
    BY <1>0, <2>1, NewestIsNew
  <2>3. v \in Verdicts
    BY <1>1, <2>2 DEF Verdicts
  <2>. QED
    BY <1>2, <2>2, <2>3 DEF Rests
<1>. QED
  BY <1>3, <1>4

-------------------------------------------------------------------------------
(* Folds. *)

LEMMA MaxOfUpto ==
  ASSUME NEW k \in Nat \ {0}
  PROVE  Max(1 .. k) = k
<1>1. k \in 1 .. k /\ \A y \in 1 .. k : k >= y
  OBVIOUS
<1>2. \A x \in 1 .. k : (\A y \in 1 .. k : x >= y) => x = k
  OBVIOUS
<1>. QED
  BY <1>1, <1>2 DEF Max

LEMMA MaxIsIn ==
  ASSUME NEW n \in Nat, NEW s \in SUBSET (1 .. n + 1), n + 1 \in s
  PROVE  Max(s) = n + 1
<1>1. \A y \in s : n + 1 >= y
  OBVIOUS
<1>2. \A x \in s : (\A y \in s : x >= y) => x = n + 1
  OBVIOUS
<1>. QED
  BY <1>1, <1>2 DEF Max

LEMMA MaxExists ==
  ASSUME NEW n \in Nat, NEW s \in SUBSET (1 .. n), s # {}
  PROVE  Max(s) \in s
<1> DEFINE T == {n - k : k \in s}
<1>1. T \in SUBSET Nat /\ T # {}
  <2>1. \A k \in s : n - k \in Nat
    OBVIOUS
  <2>. QED
    BY <2>1
<1>2. PICK x \in T : \A y \in T : x <= y
  <2> HIDE DEF T
  <2>. QED
    BY <1>1, Least
<1>3. PICK m \in s : x = n - m
  OBVIOUS
<1>4. \A k \in s : n - m <= n - k
  BY <1>2, <1>3
<1>5. \A k \in s : m >= k
  BY <1>4
<1>. QED
  BY <1>5 DEF Max

\* The equation of the function that FoldLeft iterates over a sequence, with the step
\* as a function.
Folds(S, base, step, seq, D, g) ==
    \A s \in SUBSET D :
        g[s] = IF s = {} THEN base ELSE step[<<g[s \ {Max(s)}], seq[Max(s)]>>]

\* By induction on the length of the sequence.
LEMMA FoldExists ==
  ASSUME NEW n \in Nat, NEW S, NEW R, NEW base \in S, NEW step \in [S \X R -> S],
         NEW seq \in [1 .. n -> R]
  PROVE  \E g \in [SUBSET (1 .. n) -> S] : Folds(S, base, step, seq, 1 .. n, g)
<1> DEFINE P == {k \in 0 .. n : \E g \in [SUBSET (1 .. k) -> S] :
                                   Folds(S, base, step, seq, 1 .. k, g)}
<1>1. 0 \in P
  <2> DEFINE g == [s \in SUBSET (1 .. 0) |-> base]
  <2>1. g \in [SUBSET (1 .. 0) -> S] /\ Folds(S, base, step, seq, 1 .. 0, g)
    BY DEF Folds
  <2>. QED
    BY <2>1
<1>2. ASSUME NEW k \in 0 .. n, k + 1 \in 0 .. n, k \in P
      PROVE  k + 1 \in P
  <2>1. PICK g \in [SUBSET (1 .. k) -> S] : Folds(S, base, step, seq, 1 .. k, g)
    BY <1>2
  <2> DEFINE h == [s \in SUBSET (1 .. k + 1) |->
                     IF k + 1 \in s THEN step[<<g[s \ {k + 1}], seq[k + 1]>>] ELSE g[s]]
  <2>2. ASSUME NEW s \in SUBSET (1 .. k + 1), k + 1 \in s
        PROVE  h[s] \in S /\ h[s] = step[<<h[s \ {Max(s)}], seq[Max(s)]>>]
    <3>1. Max(s) = k + 1
      BY <2>2, MaxIsIn
    <3>2. s \ {k + 1} \in SUBSET (1 .. k) /\ s \ {k + 1} \in SUBSET (1 .. k + 1)
      OBVIOUS
    <3>3. seq[k + 1] \in R /\ g[s \ {k + 1}] \in S
      BY <1>2, <3>2
    <3>4. h[s \ {k + 1}] = g[s \ {k + 1}] /\ h[s] = step[<<g[s \ {k + 1}], seq[k + 1]>>]
      BY <2>2, <3>2
    <3>. QED
      BY <3>1, <3>3, <3>4
  <2>3. ASSUME NEW s \in SUBSET (1 .. k + 1), k + 1 \notin s
        PROVE  /\ h[s] \in S
               /\ h[s] = IF s = {} THEN base ELSE step[<<h[s \ {Max(s)}], seq[Max(s)]>>]
    <3>1. s \in SUBSET (1 .. k)
      BY <2>3
    <3>2. s \ {Max(s)} \in SUBSET (1 .. k) /\ k + 1 \notin s \ {Max(s)}
      BY <2>3, <3>1
    <3>3. s \ {Max(s)} \in SUBSET (1 .. k + 1)
      BY <3>2
    <3>4. h[s] = g[s] /\ h[s \ {Max(s)}] = g[s \ {Max(s)}]
      BY <2>3, <3>2, <3>3
    <3>. QED
      BY <2>1, <3>1, <3>4 DEF Folds
  <2>4. h \in [SUBSET (1 .. k + 1) -> S]
    BY <2>2, <2>3
  <2>5. Folds(S, base, step, seq, 1 .. k + 1, h)
    <3> HIDE DEF h
    <3>1. \A s \in SUBSET (1 .. k + 1) : k + 1 \in s => s # {}
      OBVIOUS
    <3>. QED
      BY <2>2, <2>3, <3>1 DEF Folds
  <2>. QED
    BY <1>2, <2>4, <2>5
<1>3. \A k \in 0 .. n : k \in P
  <2> HIDE DEF P
  <2>. QED
    BY <1>1, <1>2, Induction
<1>4. n \in P
  <2> HIDE DEF P
  <2>. QED
    BY <1>3
<1>. QED
  BY <1>4

Iterates(n, S, base, step, seq, h) ==
    /\ h[{}] = base
    /\ \A s \in SUBSET (1 .. n) : s # {} /\ h[s \ {Max(s)}] \in S =>
          h[s] = step[<<h[s \ {Max(s)}], seq[Max(s)]>>]

Steps(n, base, step, seq, last, f) ==
    /\ f[0] = base /\ f[n] = last
    /\ \A k \in 1 .. n : f[k] = step[<<f[k - 1], seq[k]>>]

\* A function that folds, where it keeps to S, says what the fold makes of each prefix.
LEMMA FoldSteps ==
  ASSUME NEW n \in Nat, NEW S, NEW R, NEW base \in S, NEW step \in [S \X R -> S],
         NEW seq \in [1 .. n -> R], NEW h,
         Iterates(n, S, base, step, seq, h)
  PROVE  \E f \in [0 .. n -> S] : Steps(n, base, step, seq, h[1 .. n], f)
<1>1. ASSUME NEW k \in 1 .. n, h[1 .. (k - 1)] \in S
      PROVE  h[1 .. k] = step[<<h[1 .. (k - 1)], seq[k]>>]
  <2>1. 1 .. k \in SUBSET (1 .. n) /\ 1 .. k # {} /\ (1 .. k) \ {k} = 1 .. (k - 1)
    OBVIOUS
  <2>2. Max(1 .. k) = k
    BY MaxOfUpto
  <2>. QED
    BY <1>1, <2>1, <2>2 DEF Iterates
<1> DEFINE P == {k \in 0 .. n : h[1 .. k] \in S}
<1>2. 0 \in P
  <2>1. 1 .. 0 = {}
    OBVIOUS
  <2>. QED
    BY <2>1 DEF Iterates
<1>3. ASSUME NEW k \in 0 .. n, k + 1 \in 0 .. n, k \in P
      PROVE  k + 1 \in P
  <2>1. k + 1 \in 1 .. n /\ (k + 1) - 1 = k /\ h[1 .. k] \in S /\ seq[k + 1] \in R
    BY <1>3
  <2>2. h[1 .. (k + 1)] = step[<<h[1 .. k], seq[k + 1]>>]
    BY <1>1, <2>1
  <2>. QED
    BY <1>3, <2>1, <2>2
<1>4. \A k \in 0 .. n : k \in P
  <2> HIDE DEF P
  <2>. QED
    BY <1>2, <1>3, Induction
<1> DEFINE f == [k \in 0 .. n |-> h[1 .. k]]
<1>5. f \in [0 .. n -> S]
  BY <1>4
<1>6. f[0] = base /\ f[n] = h[1 .. n]
  <2>1. 1 .. 0 = {} /\ 0 \in 0 .. n /\ n \in 0 .. n
    OBVIOUS
  <2>. QED
    BY <2>1 DEF Iterates
<1>7. ASSUME NEW k \in 1 .. n
      PROVE  f[k] = step[<<f[k - 1], seq[k]>>]
  <2>1. k - 1 \in 0 .. n /\ k \in 0 .. n
    OBVIOUS
  <2>2. h[1 .. (k - 1)] \in S
    BY <1>4, <2>1
  <2>. QED
    BY <1>1, <2>1, <2>2
<1>. QED
  BY <1>5, <1>6, <1>7 DEF Steps

EntriesFn(seq, g) ==
    g = [s \in SUBSET DOMAIN seq |->
           IF s = {} THEN <<>>
           ELSE IF Repeats(seq[Max(s)], g[s \ {Max(s)}]) THEN g[s \ {Max(s)}]
                ELSE Append(g[s \ {Max(s)}], seq[Max(s)])]

\* What Entries makes of the first k rows.
LEMMA EntriesRecurs ==
  ASSUME NEW R, NEW seq \in Seq(R)
  PROVE  \E f \in [0 .. Len(seq) -> Seq(R)] :
            /\ f[0] = <<>> /\ f[Len(seq)] = Entries(seq)
            /\ \A k \in 1 .. Len(seq) :
                 f[k] = IF Repeats(seq[k], f[k - 1]) THEN f[k - 1]
                        ELSE Append(f[k - 1], seq[k])
<1> DEFINE n == Len(seq)
           S == Seq(R)
           step == [x \in S \X R |-> IF Repeats(x[2], x[1]) THEN x[1]
                                     ELSE Append(x[1], x[2])]
<1>1. n \in Nat /\ seq \in [1 .. n -> R] /\ DOMAIN seq = 1 .. n /\ <<>> \in S
  BY LenProperties, EmptySeq
<1>2. step \in [S \X R -> S]
  <2>1. ASSUME NEW x \in S \X R
        PROVE  Append(x[1], x[2]) \in S
    BY AppendProperties
  <2>. QED
    BY <2>1
<1>3. PICK g \in [SUBSET (1 .. n) -> S] : Folds(S, <<>>, step, seq, 1 .. n, g)
  <2> HIDE DEF S, step, n
  <2>. QED
    BY <1>1, <1>2, FoldExists
<1>4. \A s \in SUBSET (1 .. n) : s # {} => Max(s) \in s
  <2> HIDE DEF n
  <2>. QED
    BY <1>1, MaxExists
<1>5. EntriesFn(seq, g)
  <2>1. ASSUME NEW s \in SUBSET (1 .. n), s # {}
        PROVE  g[s] = IF Repeats(seq[Max(s)], g[s \ {Max(s)}]) THEN g[s \ {Max(s)}]
                      ELSE Append(g[s \ {Max(s)}], seq[Max(s)])
    <3>1. Max(s) \in s
      BY <1>4, <2>1
    <3>2. <<g[s \ {Max(s)}], seq[Max(s)]>> \in S \X R
      BY <1>1, <1>3, <3>1
    <3>. QED
      BY <1>3, <2>1, <3>2 DEF Folds
  <2>2. g[{}] = <<>>
    BY <1>3 DEF Folds
  <2>3. g = [s \in SUBSET (1 .. n) |-> g[s]]
    BY <1>3
  <2>. QED
    BY <1>1, <2>1, <2>2, <2>3 DEF EntriesFn
<1> DEFINE h == CHOOSE q : EntriesFn(seq, q)
<1>6. EntriesFn(seq, h)
  BY <1>5
<1>7. h[1 .. n] = Entries(seq)
  BY <1>1 DEF Entries, FoldLeft, MapThenFoldSet, EntriesFn
<1> HIDE DEF h
<1>8. h[{}] = <<>>
  BY <1>6 DEF EntriesFn
<1>9. ASSUME NEW s \in SUBSET (1 .. n), s # {}, h[s \ {Max(s)}] \in S
      PROVE  h[s] = step[<<h[s \ {Max(s)}], seq[Max(s)]>>]
  <2>1. <<h[s \ {Max(s)}], seq[Max(s)]>> \in S \X R
    BY <1>1, <1>4, <1>9
  <2>2. h[s] = IF Repeats(seq[Max(s)], h[s \ {Max(s)}]) THEN h[s \ {Max(s)}]
              ELSE Append(h[s \ {Max(s)}], seq[Max(s)])
    BY <1>1, <1>6, <1>9 DEF EntriesFn
  <2>. QED
    BY <2>1, <2>2
<1>10. Iterates(n, S, <<>>, step, seq, h)
  BY <1>8, <1>9 DEF Iterates
<1>11. PICK f \in [0 .. n -> S] : Steps(n, <<>>, step, seq, h[1 .. n], f)
  <2> HIDE DEF S, step, n
  <2>. QED
    BY <1>1, <1>2, <1>10, FoldSteps
<1>12. ASSUME NEW k \in 1 .. n
       PROVE  f[k] = IF Repeats(seq[k], f[k - 1]) THEN f[k - 1]
                     ELSE Append(f[k - 1], seq[k])
  <2>1. <<f[k - 1], seq[k]>> \in S \X R
    <3> HIDE DEF S, step, n
    <3>1. k - 1 \in 0 .. n
      BY <1>1
    <3>. QED
      BY <1>1, <1>11, <3>1
  <2>2. f[k] = step[<<f[k - 1], seq[k]>>]
    BY <1>11 DEF Steps
  <2>. QED
    BY <2>1, <2>2
<1>. QED
  BY <1>7, <1>11, <1>12 DEF Steps

UniqueFn(seq, g) ==
    g = [s \in SUBSET DOMAIN seq |->
           IF s = {} THEN <<>>
           ELSE IF Contains(g[s \ {Max(s)}], seq[Max(s)]) THEN g[s \ {Max(s)}]
                ELSE Append(g[s \ {Max(s)}], seq[Max(s)])]

\* What Unique makes of the first k elements.
LEMMA UniqueRecurs ==
  ASSUME NEW R, NEW seq \in Seq(R)
  PROVE  \E f \in [0 .. Len(seq) -> Seq(R)] :
            /\ f[0] = <<>> /\ f[Len(seq)] = Unique(seq)
            /\ \A k \in 1 .. Len(seq) :
                 f[k] = IF Contains(f[k - 1], seq[k]) THEN f[k - 1]
                        ELSE Append(f[k - 1], seq[k])
<1> DEFINE n == Len(seq)
           S == Seq(R)
           step == [x \in S \X R |-> IF Contains(x[1], x[2]) THEN x[1]
                                     ELSE Append(x[1], x[2])]
<1>1. n \in Nat /\ seq \in [1 .. n -> R] /\ DOMAIN seq = 1 .. n /\ <<>> \in S
  BY LenProperties, EmptySeq
<1>2. step \in [S \X R -> S]
  <2>1. ASSUME NEW x \in S \X R
        PROVE  Append(x[1], x[2]) \in S
    BY AppendProperties
  <2>. QED
    BY <2>1
<1>3. PICK g \in [SUBSET (1 .. n) -> S] : Folds(S, <<>>, step, seq, 1 .. n, g)
  <2> HIDE DEF S, step, n
  <2>. QED
    BY <1>1, <1>2, FoldExists
<1>4. \A s \in SUBSET (1 .. n) : s # {} => Max(s) \in s
  <2> HIDE DEF n
  <2>. QED
    BY <1>1, MaxExists
<1>5. UniqueFn(seq, g)
  <2>1. ASSUME NEW s \in SUBSET (1 .. n), s # {}
        PROVE  g[s] = IF Contains(g[s \ {Max(s)}], seq[Max(s)]) THEN g[s \ {Max(s)}]
                      ELSE Append(g[s \ {Max(s)}], seq[Max(s)])
    <3>1. Max(s) \in s
      BY <1>4, <2>1
    <3>2. <<g[s \ {Max(s)}], seq[Max(s)]>> \in S \X R
      BY <1>1, <1>3, <3>1
    <3>. QED
      BY <1>3, <2>1, <3>2 DEF Folds
  <2>2. g[{}] = <<>>
    BY <1>3 DEF Folds
  <2>3. g = [s \in SUBSET (1 .. n) |-> g[s]]
    BY <1>3
  <2>. QED
    BY <1>1, <2>1, <2>2, <2>3 DEF UniqueFn
<1> DEFINE h == CHOOSE q : UniqueFn(seq, q)
<1>6. UniqueFn(seq, h)
  BY <1>5
<1>7. h[1 .. n] = Unique(seq)
  BY <1>1 DEF Unique, FoldLeft, MapThenFoldSet, UniqueFn
<1> HIDE DEF h
<1>8. h[{}] = <<>>
  BY <1>6 DEF UniqueFn
<1>9. ASSUME NEW s \in SUBSET (1 .. n), s # {}, h[s \ {Max(s)}] \in S
      PROVE  h[s] = step[<<h[s \ {Max(s)}], seq[Max(s)]>>]
  <2>1. <<h[s \ {Max(s)}], seq[Max(s)]>> \in S \X R
    BY <1>1, <1>4, <1>9
  <2>2. h[s] = IF Contains(h[s \ {Max(s)}], seq[Max(s)]) THEN h[s \ {Max(s)}]
              ELSE Append(h[s \ {Max(s)}], seq[Max(s)])
    BY <1>1, <1>6, <1>9 DEF UniqueFn
  <2>. QED
    BY <2>1, <2>2
<1>10. Iterates(n, S, <<>>, step, seq, h)
  BY <1>8, <1>9 DEF Iterates
<1>11. PICK f \in [0 .. n -> S] : Steps(n, <<>>, step, seq, h[1 .. n], f)
  <2> HIDE DEF S, step, n
  <2>. QED
    BY <1>1, <1>2, <1>10, FoldSteps
<1>12. ASSUME NEW k \in 1 .. n
       PROVE  f[k] = IF Contains(f[k - 1], seq[k]) THEN f[k - 1]
                     ELSE Append(f[k - 1], seq[k])
  <2>1. <<f[k - 1], seq[k]>> \in S \X R
    <3> HIDE DEF S, step, n
    <3>1. k - 1 \in 0 .. n
      BY <1>1
    <3>. QED
      BY <1>1, <1>11, <3>1
  <2>2. f[k] = step[<<f[k - 1], seq[k]>>]
    BY <1>11 DEF Steps
  <2>. QED
    BY <2>1, <2>2
<1>. QED
  BY <1>7, <1>11, <1>12 DEF Steps

SubjectsFn(group, seq, g) ==
    g = [s \in SUBSET DOMAIN seq |->
           IF s = {} THEN <<>>
           ELSE IF Group(seq[Max(s)]) = group THEN Append(g[s \ {Max(s)}], seq[Max(s)].subject)
                ELSE g[s \ {Max(s)}]]

\* What Subjects makes of the first k entries.
SubjectsFold(group, seq, f) ==
    /\ f[0] = <<>> /\ f[Len(seq)] = Subjects(group, seq)
    /\ \A k \in 1 .. Len(seq) :
         f[k] = IF Group(seq[k]) = group THEN Append(f[k - 1], seq[k].subject)
                ELSE f[k - 1]

LEMMA SubjectsRecurs ==
  ASSUME NEW R, NEW T, NEW group, \A o \in R : o.subject \in T,
         NEW seq \in Seq(R)
  PROVE  \E f \in [0 .. Len(seq) -> Seq(T)] : SubjectsFold(group, seq, f)
<1> DEFINE n == Len(seq)
           S == Seq(T)
           step == [x \in S \X R |-> IF Group(x[2]) = group THEN Append(x[1], x[2].subject)
                                     ELSE x[1]]
<1>1. n \in Nat /\ seq \in [1 .. n -> R] /\ DOMAIN seq = 1 .. n /\ <<>> \in S
  BY LenProperties, EmptySeq
<1>2. step \in [S \X R -> S]
  <2>1. ASSUME NEW x \in S \X R
        PROVE  Append(x[1], x[2].subject) \in S
    BY AppendProperties
  <2>. QED
    BY <2>1
<1>3. PICK g \in [SUBSET (1 .. n) -> S] : Folds(S, <<>>, step, seq, 1 .. n, g)
  <2> HIDE DEF S, step, n
  <2>. QED
    BY <1>1, <1>2, FoldExists
<1>4. \A s \in SUBSET (1 .. n) : s # {} => Max(s) \in s
  <2> HIDE DEF n
  <2>. QED
    BY <1>1, MaxExists
<1>5. SubjectsFn(group, seq, g)
  <2>1. ASSUME NEW s \in SUBSET (1 .. n), s # {}
        PROVE  g[s] = IF Group(seq[Max(s)]) = group THEN Append(g[s \ {Max(s)}], seq[Max(s)].subject)
                      ELSE g[s \ {Max(s)}]
    <3>1. Max(s) \in s
      BY <1>4, <2>1
    <3>2. <<g[s \ {Max(s)}], seq[Max(s)]>> \in S \X R
      BY <1>1, <1>3, <3>1
    <3>. QED
      BY <1>3, <2>1, <3>2 DEF Folds
  <2>2. g[{}] = <<>>
    BY <1>3 DEF Folds
  <2>3. g = [s \in SUBSET (1 .. n) |-> g[s]]
    BY <1>3
  <2>. QED
    BY <1>1, <2>1, <2>2, <2>3 DEF SubjectsFn
<1> DEFINE h == CHOOSE q : SubjectsFn(group, seq, q)
<1>6. SubjectsFn(group, seq, h)
  BY <1>5
<1>7. h[1 .. n] = Subjects(group, seq)
  BY <1>1 DEF Subjects, FoldLeft, MapThenFoldSet, SubjectsFn
<1> HIDE DEF h
<1>8. h[{}] = <<>>
  BY <1>6 DEF SubjectsFn
<1>9. ASSUME NEW s \in SUBSET (1 .. n), s # {}, h[s \ {Max(s)}] \in S
      PROVE  h[s] = step[<<h[s \ {Max(s)}], seq[Max(s)]>>]
  <2>1. <<h[s \ {Max(s)}], seq[Max(s)]>> \in S \X R
    BY <1>1, <1>4, <1>9
  <2>2. h[s] = IF Group(seq[Max(s)]) = group THEN Append(h[s \ {Max(s)}], seq[Max(s)].subject)
              ELSE h[s \ {Max(s)}]
    BY <1>1, <1>6, <1>9 DEF SubjectsFn
  <2>. QED
    BY <2>1, <2>2
<1>10. Iterates(n, S, <<>>, step, seq, h)
  BY <1>8, <1>9 DEF Iterates
<1>11. PICK f \in [0 .. n -> S] : Steps(n, <<>>, step, seq, h[1 .. n], f)
  <2> HIDE DEF S, step, n
  <2>. QED
    BY <1>1, <1>2, <1>10, FoldSteps
<1>12. ASSUME NEW k \in 1 .. n
       PROVE  f[k] = IF Group(seq[k]) = group THEN Append(f[k - 1], seq[k].subject)
                     ELSE f[k - 1]
  <2>1. <<f[k - 1], seq[k]>> \in S \X R
    <3> HIDE DEF S, step, n
    <3>1. k - 1 \in 0 .. n
      BY <1>1
    <3>. QED
      BY <1>1, <1>11, <3>1
  <2>2. f[k] = step[<<f[k - 1], seq[k]>>]
    BY <1>11 DEF Steps
  <2>. QED
    BY <2>1, <2>2
<1>. QED
  BY <1>7, <1>11, <1>12 DEF Steps, SubjectsFold

-------------------------------------------------------------------------------
(* What the folds of a day come to. *)

\* A row that is not told again was told less than Window before by an item's entry;
\* all else is told.
Tells(seq, k, t) ==
    /\ \A i \in 1 .. Len(t) : \E j \in 1 .. k : t[i] = seq[j]
    /\ \A j \in 1 .. k : \E i \in 1 .. Len(t) :
         ToldBy(seq[j], t[i]) /\ (seq[j].kind # "item" => t[i] = seq[j])

LEMMA TellsOneMore ==
  ASSUME NEW seq \in Seq(Rows),
         \A i, j \in 1 .. Len(seq) : i < j => seq[i].at <= seq[j].at,
         NEW k \in Nat, k + 1 \in 1 .. Len(seq), NEW t \in Seq(Rows), Tells(seq, k, t)
  PROVE  Tells(seq, k + 1, IF Repeats(seq[k + 1], t) THEN t ELSE Append(t, seq[k + 1]))
<1> DEFINE o == seq[k + 1]
<1>1. Len(t) \in Nat /\ DOMAIN t = 1 .. Len(t) /\ Len(seq) \in Nat /\ o \in Rows
  BY LenProperties
<1>2. /\ \A j \in 1 .. k + 1 : j \in 1 .. k \/ j = k + 1
      /\ 1 .. k \subseteq 1 .. k + 1 /\ k + 1 \in 1 .. k + 1
  OBVIOUS
<1>3. CASE Repeats(o, t)
  <2>1. PICK i \in 1 .. Len(t) : /\ t[i].kind = "item" /\ t[i].subject = o.subject
                                 /\ o.at - t[i].at < Window
    BY <1>1, <1>3 DEF Repeats
  <2>2. PICK j \in 1 .. k : t[i] = seq[j]
    BY <2>1 DEF Tells
  <2>3. j \in 1 .. Len(seq) /\ j < k + 1
    BY <1>1, <2>2
  <2>4. t[i].at <= o.at
    BY <2>2, <2>3
  <2>5. ToldBy(o, t[i]) /\ o.kind = "item"
    BY <1>3, <2>1, <2>4 DEF ToldBy, Repeats
  <2>6. Tells(seq, k + 1, t)
    BY <1>2, <2>1, <2>5 DEF Tells
  <2>. QED
    BY <1>3, <2>6
<1>4. CASE ~Repeats(o, t)
  <2> DEFINE u == Append(t, o)
  <2>1. /\ Len(u) = Len(t) + 1 /\ u[Len(t) + 1] = o
        /\ \A i \in 1 .. Len(t) : u[i] = t[i]
    BY <1>1, AppendProperties
  <2> HIDE DEF u
  <2>2. /\ \A i \in 1 .. Len(u) : i \in 1 .. Len(t) \/ i = Len(t) + 1
        /\ 1 .. Len(t) \subseteq 1 .. Len(u) /\ Len(t) + 1 \in 1 .. Len(u)
    BY <1>1, <2>1
  <2>3. ASSUME NEW i \in 1 .. Len(u)
        PROVE  \E j \in 1 .. k + 1 : u[i] = seq[j]
    <3>1. CASE i \in 1 .. Len(t)
      BY <1>2, <2>1, <3>1 DEF Tells
    <3>2. CASE i = Len(t) + 1
      BY <1>2, <2>1, <3>2
    <3>. QED
      BY <2>2, <3>1, <3>2
  <2>4. \A j \in 1 .. k + 1 : \E i \in 1 .. Len(u) :
           ToldBy(seq[j], u[i]) /\ (seq[j].kind # "item" => u[i] = seq[j])
    <3>1. ToldBy(o, o)
      BY DEF ToldBy
    <3>. QED
      BY <1>2, <2>1, <2>2, <3>1 DEF Tells
  <2>5. Tells(seq, k + 1, u)
    BY <2>3, <2>4 DEF Tells
  <2>. QED
    BY <1>4, <2>5 DEF u
<1>. QED
  BY <1>3, <1>4

\* daily_timeline: of the rows that were read, each is an entry or follows one closely.
LEMMA EntriesTell ==
  ASSUME NEW seq \in Seq(Rows),
         \A i, j \in 1 .. Len(seq) : i < j => seq[i].at <= seq[j].at
  PROVE  Entries(seq) \in Seq(Rows) /\ Tells(seq, Len(seq), Entries(seq))
<1> DEFINE n == Len(seq)
<1>1. PICK f \in [0 .. n -> Seq(Rows)] :
         /\ f[0] = <<>> /\ f[n] = Entries(seq)
         /\ \A k \in 1 .. n : f[k] = IF Repeats(seq[k], f[k - 1]) THEN f[k - 1]
                                     ELSE Append(f[k - 1], seq[k])
  BY EntriesRecurs
<1>2. n \in Nat
  BY LenProperties
<1> DEFINE P == {k \in 0 .. n : Tells(seq, k, f[k])}
<1>3. 0 \in P
  <2>1. Tells(seq, 0, <<>>)
    BY DEF Tells
  <2>. QED
    BY <1>1, <1>2, <2>1
<1>4. ASSUME NEW k \in 0 .. n, k + 1 \in 0 .. n, k \in P
      PROVE  k + 1 \in P
  <2>1. k \in Nat /\ k + 1 \in 1 .. n /\ (k + 1) - 1 = k
    BY <1>2, <1>4
  <2>2. f[k] \in Seq(Rows) /\ Tells(seq, k, f[k])
    BY <1>4
  <2>3. f[k + 1] = IF Repeats(seq[k + 1], f[k]) THEN f[k] ELSE Append(f[k], seq[k + 1])
    BY <1>1, <2>1
  <2>4. Tells(seq, k + 1, f[k + 1])
    <3> HIDE DEF P
    <3>. QED
      BY <2>1, <2>2, <2>3, TellsOneMore
  <2>. QED
    BY <1>4, <2>4
<1>5. \A k \in 0 .. n : k \in P
  <2> HIDE DEF P
  <2>. QED
    BY <1>2, <1>3, <1>4, Induction
<1>6. n \in 0 .. n
  BY <1>2
<1>. QED
  BY <1>1, <1>5, <1>6

\* Unique keeps each element once.
Keeps(seq, k, t) ==
    /\ \A i, j \in 1 .. Len(t) : t[i] = t[j] => i = j
    /\ \A i \in 1 .. Len(t) : \E j \in 1 .. k : t[i] = seq[j]
    /\ \A j \in 1 .. k : \E i \in 1 .. Len(t) : t[i] = seq[j]

LEMMA KeepsOneMore ==
  ASSUME NEW R, NEW seq \in Seq(R), NEW k \in Nat, k + 1 \in 1 .. Len(seq),
         NEW t \in Seq(R), Keeps(seq, k, t)
  PROVE  Keeps(seq, k + 1, IF Contains(t, seq[k + 1]) THEN t ELSE Append(t, seq[k + 1]))
<1> DEFINE o == seq[k + 1]
<1>1. Len(t) \in Nat /\ Len(seq) \in Nat /\ o \in R
  BY LenProperties
<1>2. /\ \A j \in 1 .. k + 1 : j \in 1 .. k \/ j = k + 1
      /\ 1 .. k \subseteq 1 .. k + 1 /\ k + 1 \in 1 .. k + 1
  OBVIOUS
<1>3. CASE Contains(t, o)
  <2>1. PICK i \in 1 .. Len(t) : t[i] = o
    BY <1>3 DEF Contains
  <2>2. Keeps(seq, k + 1, t)
    BY <1>2, <2>1 DEF Keeps
  <2>. QED
    BY <1>3, <2>2
<1>4. CASE ~Contains(t, o)
  <2> DEFINE u == Append(t, o)
  <2>1. /\ Len(u) = Len(t) + 1 /\ u[Len(t) + 1] = o
        /\ \A i \in 1 .. Len(t) : u[i] = t[i]
    BY <1>1, AppendProperties
  <2> HIDE DEF u
  <2>2. /\ \A i \in 1 .. Len(u) : i \in 1 .. Len(t) \/ i = Len(t) + 1
        /\ 1 .. Len(t) \subseteq 1 .. Len(u) /\ Len(t) + 1 \in 1 .. Len(u)
    BY <1>1, <2>1
  <2>3. \A i \in 1 .. Len(t) : t[i] # o
    BY <1>4 DEF Contains
  <2>4. \A i, j \in 1 .. Len(u) : u[i] = u[j] => i = j
    BY <2>1, <2>2, <2>3 DEF Keeps
  <2>5. ASSUME NEW i \in 1 .. Len(u)
        PROVE  \E j \in 1 .. k + 1 : u[i] = seq[j]
    <3>1. CASE i \in 1 .. Len(t)
      BY <1>2, <2>1, <3>1 DEF Keeps
    <3>2. CASE i = Len(t) + 1
      BY <1>2, <2>1, <3>2
    <3>. QED
      BY <2>2, <3>1, <3>2
  <2>6. \A j \in 1 .. k + 1 : \E i \in 1 .. Len(u) : u[i] = seq[j]
    BY <1>2, <2>1, <2>2 DEF Keeps
  <2>7. Keeps(seq, k + 1, u)
    BY <2>4, <2>5, <2>6 DEF Keeps
  <2>. QED
    BY <1>4, <2>7 DEF u
<1>. QED
  BY <1>3, <1>4

LEMMA UniqueIs ==
  ASSUME NEW R, NEW seq \in Seq(R)
  PROVE  Unique(seq) \in Seq(R) /\ Keeps(seq, Len(seq), Unique(seq))
<1> DEFINE n == Len(seq)
<1>1. PICK f \in [0 .. n -> Seq(R)] :
         /\ f[0] = <<>> /\ f[n] = Unique(seq)
         /\ \A k \in 1 .. n : f[k] = IF Contains(f[k - 1], seq[k]) THEN f[k - 1]
                                     ELSE Append(f[k - 1], seq[k])
  BY UniqueRecurs
<1>2. n \in Nat
  BY LenProperties
<1> DEFINE P == {k \in 0 .. n : Keeps(seq, k, f[k])}
<1>3. 0 \in P
  <2>1. Keeps(seq, 0, <<>>)
    BY DEF Keeps
  <2>. QED
    BY <1>1, <1>2, <2>1
<1>4. ASSUME NEW k \in 0 .. n, k + 1 \in 0 .. n, k \in P
      PROVE  k + 1 \in P
  <2>1. k \in Nat /\ k + 1 \in 1 .. n /\ (k + 1) - 1 = k
    BY <1>2, <1>4
  <2>2. f[k] \in Seq(R) /\ Keeps(seq, k, f[k])
    BY <1>4
  <2>3. f[k + 1] = IF Contains(f[k], seq[k + 1]) THEN f[k] ELSE Append(f[k], seq[k + 1])
    BY <1>1, <2>1
  <2>4. Keeps(seq, k + 1, f[k + 1])
    <3> HIDE DEF P
    <3>. QED
      BY <2>1, <2>2, <2>3, KeepsOneMore
  <2>. QED
    BY <1>4, <2>4
<1>5. \A k \in 0 .. n : k \in P
  <2> HIDE DEF P
  <2>. QED
    BY <1>2, <1>3, <1>4, Induction
<1>6. n \in 0 .. n
  BY <1>2
<1>. QED
  BY <1>1, <1>5, <1>6

\* The subjects of a group are those of its entries.
Lists(group, seq, k, t) ==
    /\ \A i \in 1 .. Len(t) : \E j \in 1 .. k :
         t[i] = seq[j].subject /\ Group(seq[j]) = group
    /\ \A j \in 1 .. k : Group(seq[j]) = group =>
         \E i \in 1 .. Len(t) : t[i] = seq[j].subject

LEMMA ListsOneMore ==
  ASSUME NEW R, NEW T, NEW group, \A x \in R : x.subject \in T, NEW seq \in Seq(R),
         NEW k \in Nat, k + 1 \in 1 .. Len(seq), NEW t \in Seq(T), Lists(group, seq, k, t)
  PROVE  Lists(group, seq, k + 1, IF Group(seq[k + 1]) = group
                                  THEN Append(t, seq[k + 1].subject) ELSE t)
<1> DEFINE o == seq[k + 1]
<1>1. Len(t) \in Nat /\ Len(seq) \in Nat /\ o.subject \in T
  BY LenProperties
<1>2. /\ \A j \in 1 .. k + 1 : j \in 1 .. k \/ j = k + 1
      /\ 1 .. k \subseteq 1 .. k + 1 /\ k + 1 \in 1 .. k + 1
  OBVIOUS
<1>3. CASE Group(o) # group
  <2>1. Lists(group, seq, k + 1, t)
    BY <1>2, <1>3 DEF Lists
  <2>. QED
    BY <1>3, <2>1
<1>4. CASE Group(o) = group
  <2> DEFINE u == Append(t, o.subject)
  <2>1. /\ Len(u) = Len(t) + 1 /\ u[Len(t) + 1] = o.subject
        /\ \A i \in 1 .. Len(t) : u[i] = t[i]
    BY <1>1, AppendProperties
  <2> HIDE DEF u
  <2>2. /\ \A i \in 1 .. Len(u) : i \in 1 .. Len(t) \/ i = Len(t) + 1
        /\ 1 .. Len(t) \subseteq 1 .. Len(u) /\ Len(t) + 1 \in 1 .. Len(u)
    BY <1>1, <2>1
  <2>3. ASSUME NEW i \in 1 .. Len(u)
        PROVE  \E j \in 1 .. k + 1 : u[i] = seq[j].subject /\ Group(seq[j]) = group
    <3>1. CASE i \in 1 .. Len(t)
      BY <1>2, <2>1, <3>1 DEF Lists
    <3>2. CASE i = Len(t) + 1
      BY <1>2, <1>4, <2>1, <3>2
    <3>. QED
      BY <2>2, <3>1, <3>2
  <2>4. \A j \in 1 .. k + 1 : Group(seq[j]) = group =>
           \E i \in 1 .. Len(u) : u[i] = seq[j].subject
    BY <1>2, <2>1, <2>2 DEF Lists
  <2>5. Lists(group, seq, k + 1, u)
    BY <2>3, <2>4 DEF Lists
  <2>. QED
    BY <1>4, <2>5 DEF u
<1>. QED
  BY <1>3, <1>4

LEMMA SubjectsAre ==
  ASSUME NEW R, NEW T, NEW group, \A x \in R : x.subject \in T, NEW seq \in Seq(R)
  PROVE  /\ Subjects(group, seq) \in Seq(T)
         /\ Lists(group, seq, Len(seq), Subjects(group, seq))
<1> DEFINE n == Len(seq)
<1>1. PICK f \in [0 .. n -> Seq(T)] : SubjectsFold(group, seq, f)
  BY SubjectsRecurs
<1>2. n \in Nat
  BY LenProperties
<1>3. /\ f[0] = <<>> /\ f[n] = Subjects(group, seq)
      /\ \A k \in 1 .. n : f[k] = IF Group(seq[k]) = group
                                  THEN Append(f[k - 1], seq[k].subject) ELSE f[k - 1]
  BY <1>1 DEF SubjectsFold
<1> DEFINE P == {k \in 0 .. n : Lists(group, seq, k, f[k])}
<1>4. 0 \in P
  <2>1. Lists(group, seq, 0, <<>>)
    BY DEF Lists
  <2>. QED
    BY <1>2, <1>3, <2>1
<1>5. ASSUME NEW k \in 0 .. n, k + 1 \in 0 .. n, k \in P
      PROVE  k + 1 \in P
  <2>1. k \in Nat /\ k + 1 \in 1 .. n /\ (k + 1) - 1 = k
    BY <1>2, <1>5
  <2>2. f[k] \in Seq(T) /\ Lists(group, seq, k, f[k])
    BY <1>5
  <2>3. f[k + 1] = IF Group(seq[k + 1]) = group
                   THEN Append(f[k], seq[k + 1].subject) ELSE f[k]
    BY <1>3, <2>1
  <2>4. Lists(group, seq, k + 1, f[k + 1])
    <3> HIDE DEF P
    <3>. QED
      BY <2>1, <2>2, <2>3, ListsOneMore
  <2>. QED
    BY <1>5, <2>4
<1>6. \A k \in 0 .. n : k \in P
  <2> HIDE DEF P
  <2>. QED
    BY <1>2, <1>4, <1>5, Induction
<1>7. n \in 0 .. n
  BY <1>2
<1>. QED
  BY <1>3, <1>6, <1>7

LEMMA FirstNIs ==
  ASSUME NEW R, NEW s \in Seq(R), NEW n \in Nat
  PROVE  /\ FirstN(s, n) \in Seq(R)
         /\ Len(FirstN(s, n)) = IF Len(s) < n THEN Len(s) ELSE n
         /\ \A i \in 1 .. Len(FirstN(s, n)) : i \in 1 .. Len(s) /\ FirstN(s, n)[i] = s[i]
<1> DEFINE m == IF Len(s) < n THEN Len(s) ELSE n
<1>1. Len(s) \in Nat /\ \A i \in 1 .. Len(s) : s[i] \in R
  BY LenProperties
<1>2. m \in Nat /\ m <= Len(s) /\ \A i \in 1 .. m : s[i] \in R /\ i \in 1 .. Len(s)
  BY <1>1
<1> HIDE DEF m
<1>3. /\ SubSeq(s, 1, m) \in Seq(R)
      /\ Len(SubSeq(s, 1, m)) = IF 1 <= m THEN m - 1 + 1 ELSE 0
      /\ \A i \in 1 .. m - 1 + 1 : SubSeq(s, 1, m)[i] = s[1 + i - 1]
  BY <1>2, SubSeqProperties
<1>4. Len(SubSeq(s, 1, m)) = m /\ \A i \in 1 .. m : SubSeq(s, 1, m)[i] = s[i]
  BY <1>2, <1>3
<1>. QED
  BY <1>2, <1>3, <1>4 DEF FirstN, m

\* As many things as places, when no thing has two.
LEMMA OnceCounts ==
  ASSUME NEW R, NEW s \in Seq(R), \A i, j \in 1 .. Len(s) : s[i] = s[j] => i = j
  PROVE  IsFiniteSet(ToSet(s)) /\ Cardinality(ToSet(s)) = Len(s)
<1>1. Len(s) \in Nat /\ DOMAIN s = 1 .. Len(s) /\ s \in [1 .. Len(s) -> R]
  BY LenProperties
<1>2. s \in [1 .. Len(s) -> ToSet(s)]
  BY <1>1 DEF ToSet
<1>3. s \in Injection(1 .. Len(s), ToSet(s)) /\ s \in Surjection(1 .. Len(s), ToSet(s))
  <2>1. \A y \in ToSet(s) : \E i \in 1 .. Len(s) : s[i] = y
    BY <1>1 DEF ToSet
  <2>2. s \in Surjection(1 .. Len(s), ToSet(s))
    BY <1>2, <2>1 DEF Surjection
  <2>3. s \in Injection(1 .. Len(s), ToSet(s))
    BY <1>2 DEF Injection, IsInjective
  <2>. QED
    BY <2>2, <2>3
<1>4. ExistsBijection(1 .. Len(s), ToSet(s))
  BY <1>3 DEF ExistsBijection, Bijection
<1>. QED
  BY <1>1, <1>4, FS_CountingElements, FS_NatBijection

-------------------------------------------------------------------------------
(* Days. *)

Midnights(n, m) == m = [d \in 1 .. n |-> IF d = 1 THEN 0 ELSE m[d - 1] + DayLengths[d - 1]]

LEMMA DaysAreNumbered ==
  /\ Len(DayLengths) \in Nat \ {0} /\ Days = 1 .. Len(DayLengths)
  /\ \A d \in Days : DayLengths[d] \in Nat \ {0}
BY DaysAssumption, LenProperties, EmptySeq DEF Days

LEMMA MidnightsExist ==
  ASSUME NEW n \in 0 .. Len(DayLengths)
  PROVE  \E m \in [1 .. n -> Nat] : Midnights(n, m)
<1>0. n \in Nat /\ Len(DayLengths) \in Nat
  BY DaysAreNumbered
<1> DEFINE S == {k \in 0 .. n : \E m \in [1 .. k -> Nat] : Midnights(k, m)}
<1>1. 0 \in S
  <2> DEFINE m == [d \in 1 .. 0 |-> 0]
  <2>1. m \in [1 .. 0 -> Nat] /\ Midnights(0, m)
    BY DEF Midnights
  <2> HIDE DEF m
  <2>2. 0 \in 0 .. n
    BY <1>0
  <2>. QED
    BY <2>1, <2>2
<1>2. ASSUME NEW k \in 0 .. n, k + 1 \in 0 .. n, k \in S
      PROVE  k + 1 \in S
  <2>1. PICK m \in [1 .. k -> Nat] : Midnights(k, m)
    BY <1>2
  <2>2. k \in Nat /\ (k >= 1 => k \in Days)
    BY <1>0, <1>2, DaysAreNumbered
  <2> DEFINE next == IF k = 0 THEN 0 ELSE m[k] + DayLengths[k]
             q == [d \in 1 .. k + 1 |-> IF d = k + 1 THEN next ELSE m[d]]
  <2>3. next \in Nat
    BY <2>1, <2>2, DaysAreNumbered
  <2>4. q \in [1 .. k + 1 -> Nat]
    <3> HIDE DEF next
    <3>. QED
      BY <2>1, <2>2, <2>3
  <2>5. ASSUME NEW d \in 1 .. k + 1
        PROVE  q[d] = IF d = 1 THEN 0 ELSE q[d - 1] + DayLengths[d - 1]
    <3>1. CASE d = k + 1
      <4>1. d - 1 = k /\ (d = 1 <=> k = 0) /\ (k # 0 => k \in 1 .. k + 1 /\ k # k + 1)
        BY <2>2, <3>1
      <4>. QED
        BY <2>2, <3>1, <4>1
    <3>2. CASE d # k + 1
      <4>1. d \in 1 .. k /\ (d # 1 => d - 1 \in 1 .. k /\ d - 1 # k + 1 /\ d - 1 \in 1 .. k + 1)
        BY <2>2, <3>2
      <4>2. m[d] = IF d = 1 THEN 0 ELSE m[d - 1] + DayLengths[d - 1]
        BY <2>1, <4>1 DEF Midnights
      <4>. QED
        BY <3>2, <4>1, <4>2
    <3>. QED
      BY <3>1, <3>2
  <2>6. Midnights(k + 1, q)
    <3>1. q = [d \in 1 .. k + 1 |-> q[d]]
      OBVIOUS
    <3> HIDE DEF q
    <3>. QED
      BY <2>5, <3>1 DEF Midnights
  <2> HIDE DEF q
  <2>. QED
    BY <1>2, <2>4, <2>6
<1>3. \A k \in 0 .. n : k \in S
  <2> HIDE DEF S
  <2>. QED
    BY <1>0, <1>1, <1>2, Induction
<1>4. n \in S
  <2> HIDE DEF S
  <2>. QED
    BY <1>0, <1>3
<1>. QED
  BY <1>4

\* A day begins where the day before ends.
LEMMA MidnightRecurs ==
  /\ Midnight \in [Days -> Nat] /\ Midnight[1] = 0
  /\ \A d \in Days : /\ DayEnd(d) \in Nat /\ Midnight[d] < DayEnd(d)
                     /\ d + 1 \in Days => Midnight[d + 1] = DayEnd(d)
<1> DEFINE n == Len(DayLengths)
<1>1. n \in Nat \ {0} /\ Days = 1 .. n /\ \A d \in Days : DayLengths[d] \in Nat \ {0}
  BY DaysAreNumbered
<1>2. PICK m \in [1 .. n -> Nat] : Midnights(n, m)
  <2>1. n \in 0 .. n
    BY <1>1
  <2>. QED
    BY <2>1, MidnightsExist
<1>3. Midnights(n, Midnight)
  BY <1>1, <1>2 DEF Midnight, Midnights
<1>4. /\ DOMAIN Midnight = 1 .. n /\ Midnight[1] = 0
      /\ \A d \in 1 .. n : d # 1 => Midnight[d] = Midnight[d - 1] + DayLengths[d - 1]
  <2> HIDE DEF n
  <2>. QED
    BY <1>1, <1>3 DEF Midnights
<1> DEFINE S == {k \in 0 .. n : k = 0 \/ Midnight[k] \in Nat}
<1>5. \A k \in 0 .. n : k \in S
  <2>1. 0 \in S
    BY <1>1
  <2>2. ASSUME NEW k \in 0 .. n, k + 1 \in 0 .. n, k \in S
        PROVE  k + 1 \in S
    <3>1. CASE k = 0
      BY <1>1, <1>4, <3>1
    <3>2. CASE k # 0
      <4>1. k + 1 \in 1 .. n /\ k + 1 # 1 /\ (k + 1) - 1 = k /\ k \in 1 .. n
        BY <1>1, <2>2, <3>2
      <4>2. Midnight[k + 1] = Midnight[k] + DayLengths[k]
        BY <1>4, <4>1
      <4>3. Midnight[k] \in Nat /\ DayLengths[k] \in Nat
        BY <1>1, <2>2, <3>2, <4>1
      <4>. QED
        BY <2>2, <4>2, <4>3
    <3>. QED
      BY <3>1, <3>2
  <2> HIDE DEF S, n
  <2>. QED
    BY <1>1, <2>1, <2>2, Induction
<1>6. \A d \in 1 .. n : Midnight[d] \in Nat
  <2>1. \A d \in 1 .. n : d \in 0 .. n /\ d # 0
    BY <1>1
  <2>. QED
    BY <1>5, <2>1
<1>7. Midnight \in [Days -> Nat]
  <2>1. Midnight = [d \in 1 .. n |-> Midnight[d]]
    BY <1>3 DEF Midnights
  <2>. QED
    BY <1>1, <1>6, <2>1
<1>8. ASSUME NEW d \in Days
      PROVE  /\ DayEnd(d) \in Nat /\ Midnight[d] < DayEnd(d)
             /\ d + 1 \in Days => Midnight[d + 1] = DayEnd(d)
  <2>1. d + 1 \in Days => d + 1 # 1 /\ (d + 1) - 1 = d
    BY <1>1
  <2>2. d + 1 \in Days => Midnight[d + 1] = Midnight[d] + DayLengths[d]
    BY <1>1, <1>4, <2>1
  <2>. QED
    BY <1>1, <1>6, <2>2 DEF DayEnd
<1>. QED
  BY <1>4, <1>7, <1>8

LEMMA LaterDaysBeginLater ==
  ASSUME NEW d \in Days, NEW e \in Days, d < e
  PROVE  DayEnd(d) <= Midnight[e]
<1> DEFINE n == Len(DayLengths)
           S == {k \in 0 .. n : d < k => DayEnd(d) <= Midnight[k]}
<1>1. n \in Nat \ {0} /\ Days = 1 .. n
  BY DaysAreNumbered
<1>2. \A k \in 0 .. n : k \in S
  <2>1. 0 \in S
    BY <1>1
  <2>2. ASSUME NEW k \in 0 .. n, k + 1 \in 0 .. n, k \in S
        PROVE  k + 1 \in S
    <3>1. CASE d < k
      <4>1. k \in Days /\ k + 1 \in Days
        BY <1>1, <2>2, <3>1
      <4>2. DayEnd(d) <= Midnight[k] /\ DayEnd(d) \in Nat
        BY <2>2, <3>1, MidnightRecurs
      <4>3. Midnight[k] \in Nat /\ Midnight[k + 1] = DayEnd(k) /\ Midnight[k] < DayEnd(k) /\ DayEnd(k) \in Nat
        BY <4>1, MidnightRecurs
      <4>. QED
        BY <2>2, <4>2, <4>3
    <3>2. CASE d = k
      <4>1. Midnight[k + 1] = DayEnd(d) /\ DayEnd(d) \in Nat
        BY <1>1, <2>2, <3>2, MidnightRecurs
      <4>. QED
        BY <2>2, <4>1
    <3>3. CASE ~(d < k) /\ d # k
      <4>1. ~(d < k + 1)
        BY <1>1, <2>2, <3>3
      <4>. QED
        BY <2>2, <4>1
    <3>. QED
      BY <3>1, <3>2, <3>3
  <2> HIDE DEF S, n
  <2>. QED
    BY <1>1, <2>1, <2>2, Induction
<1>3. e \in 0 .. n
  BY <1>1
<1>. QED
  BY <1>2, <1>3

\* Every moment is in one day, between its midnight and the next.
LEMMA DayOfIs ==
  ASSUME NEW t \in Moments
  PROVE  /\ DayOf(t) \in Days
         /\ Midnight[DayOf(t)] <= t /\ t < DayEnd(DayOf(t))
         /\ \A d \in Days : Midnight[d] <= t /\ t < DayEnd(d) => d = DayOf(t)
<1> DEFINE n == Len(DayLengths)
           B == {d \in Days : Midnight[d] <= t}
<1>1. n \in Nat \ {0} /\ Days = 1 .. n /\ t \in Nat /\ t < DayEnd(n)
  BY DaysAreNumbered, CalendarAssumption, ClockAssumption, MidnightRecurs DEF Moments
<1>2. PICK m \in B : \A k \in B : k <= m
  <2> DEFINE T == {n - k : k \in B}
  <2>1. 1 \in B
    BY <1>1, MidnightRecurs
  <2>2. T \in SUBSET Nat /\ T # {}
    <3>1. \A k \in B : n - k \in Nat
      BY <1>1
    <3>. QED
      BY <2>1, <3>1
  <2>3. PICK x \in T : \A y \in T : x <= y
    <3> HIDE DEF T
    <3>. QED
      BY <2>2, Least
  <2>4. PICK m \in B : x = n - m
    OBVIOUS
  <2>5. \A k \in B : n - m <= n - k
    BY <2>3, <2>4
  <2>6. \A k \in B : k \in Int /\ m \in Int /\ n \in Int
    BY <1>1
  <2>7. \A k \in B : k <= m
    BY <2>5, <2>6
  <2>. QED
    BY <2>4, <2>7
<1>3. m \in Days /\ Midnight[m] <= t /\ \A e \in Days : Midnight[e] <= t => e <= m
  BY <1>2
<1>4. ASSUME NEW d \in Days, Midnight[d] <= t, \A e \in Days : Midnight[e] <= t => e <= d
      PROVE  d = m
  <2>1. d <= m /\ m <= d /\ d \in Int /\ m \in Int
    BY <1>1, <1>3, <1>4
  <2>. QED
    BY <2>1
<1>5. DayOf(t) = m
  BY <1>3, <1>4 DEF DayOf
<1>6. t < DayEnd(m)
  <2>1. CASE m = n
    BY <1>1, <2>1
  <2>2. CASE m # n
    <3>1. m + 1 \in Days /\ ~(m + 1 <= m)
      BY <1>1, <1>3, <2>2
    <3>2. ~(Midnight[m + 1] <= t) /\ Midnight[m + 1] = DayEnd(m) /\ DayEnd(m) \in Nat
      BY <1>3, <3>1, MidnightRecurs
    <3>. QED
      BY <1>1, <3>2
  <2>. QED
    BY <2>1, <2>2
<1>7. ASSUME NEW d \in Days, Midnight[d] <= t, t < DayEnd(d)
      PROVE  d = m
  <2>1. d <= m /\ d \in Int /\ m \in Int
    BY <1>1, <1>3, <1>7
  <2>2. ~(d < m)
    <3> SUFFICES ASSUME d < m PROVE FALSE
      OBVIOUS
    <3>1. DayEnd(d) <= Midnight[m] /\ DayEnd(d) \in Nat /\ Midnight[m] \in Nat
      BY <1>3, LaterDaysBeginLater, MidnightRecurs
    <3>. QED
      BY <1>1, <1>3, <1>7, <3>1
  <2>. QED
    BY <2>1, <2>2
<1>. QED
  BY <1>3, <1>5, <1>6, <1>7

-------------------------------------------------------------------------------
(* What is read of a day. *)

LEMMA RowsOfTyped ==
  ASSUME LogOK, NEW d \in Days
  PROVE  /\ RowsOf(d) \subseteq Rows /\ IsFiniteSet(RowsOf(d))
         /\ Cardinality(RowsOf(d)) \in Nat
         /\ {o \in log : Midnight[d] <= o.at /\ o.at < DayEnd(d)} = RowsOf(d)
<1>1. RowsOf(d) \in SUBSET log /\ log \subseteq Rows /\ IsFiniteSet(log)
  BY DEF LogOK, RowsOf
<1>2. IsFiniteSet(RowsOf(d))
  BY <1>1, FS_Subset
<1>3. Cardinality(RowsOf(d)) \in Nat
  BY <1>2, FS_CardinalityType
<1>4. \A o \in log : Midnight[d] <= o.at /\ o.at < DayEnd(d) <=> DayOf(o.at) = d
  <2> TAKE o \in log
  <2>1. o.at \in Moments
    BY <1>1, RowsTyped
  <2>. QED
    BY <2>1, DayOfIs
<1>. QED
  BY <1>1, <1>2, <1>3, <1>4 DEF RowsOf

\* The rows that come no later than the k-th.
LEMMA RowsUpto ==
  ASSUME NEW R, IsFiniteSet(R), NEW n \in Nat, NEW s \in [1 .. n -> R],
         \A i, j \in 1 .. n : i # j => s[i] # s[j],
         NEW k \in 0 .. n, NEW X \in SUBSET R, \A i \in 1 .. k : s[i] \in X
  PROVE  k <= Cardinality(X)
<1> DEFINE f == [i \in 1 .. k |-> s[i]]
<1>1. IsFiniteSet(X) /\ Cardinality(X) \in Nat
  BY FS_Subset, FS_CardinalityType
<1>2. f \in Injection(1 .. k, X)
  <2>1. f \in [1 .. k -> X]
    OBVIOUS
  <2>2. \A i, j \in 1 .. k : f[i] = f[j] => i = j
    OBVIOUS
  <2> HIDE DEF f
  <2>. QED
    BY <2>1, <2>2 DEF Injection, IsInjective
<1>3. Cardinality(1 .. k) <= Cardinality(X)
  <2> HIDE DEF f
  <2>. QED
    BY <1>1, <1>2, FS_Injection
<1>4. Cardinality(1 .. k) = k
  <2>1. k \in Int /\ 1 \in Int /\ (1 > k => k = 0)
    OBVIOUS
  <2>. QED
    BY <2>1, FS_Interval
<1>. QED
  BY <1>3, <1>4

\* observations_between, of a local day: its rows by date, all of them or the oldest.
LEMMA ObservedRows ==
  ASSUME LogOK, NEW d \in Days, NEW seq \in ObservationsBetween(Midnight[d], DayEnd(d))
  PROVE  /\ seq \in Seq(Rows)
         /\ \A k \in 1 .. Len(seq) : seq[k] \in RowsOf(d)
         /\ \A i, j \in 1 .. Len(seq) : i < j => seq[i].at <= seq[j].at
         /\ \A o \in RowsOf(d) : Crowded(o) \/ \E k \in 1 .. Len(seq) : seq[k] = o
         /\ Cardinality(RowsOf(d)) <= Limit =>
              \A o \in RowsOf(d) : \E k \in 1 .. Len(seq) : seq[k] = o
<1> DEFINE n == Cardinality(RowsOf(d))
<1>1. /\ RowsOf(d) \subseteq Rows /\ IsFiniteSet(RowsOf(d)) /\ n \in Nat
      /\ {o \in log : Midnight[d] <= o.at /\ o.at < DayEnd(d)} = RowsOf(d)
  BY RowsOfTyped
<1>2. PICK s \in SetToSeqs(RowsOf(d)) :
         /\ IsSorted(s, LAMBDA o, p : o.at <= p.at)
         /\ seq = FirstN(s, Limit)
  BY <1>1 DEF ObservationsBetween
<1>3. s \in [1 .. n -> RowsOf(d)] /\ \A i, j \in 1 .. n : i # j => s[i] # s[j]
  BY <1>2 DEF SetToSeqs
<1> HIDE DEF n
<1>4. s \in Seq(RowsOf(d)) /\ Len(s) = n
  BY <1>1, <1>3
<1>5. \A i, j \in 1 .. n : i < j => s[i].at <= s[j].at
  BY <1>2, <1>4 DEF IsSorted
<1>6. \A o \in RowsOf(d) : \E k \in 1 .. n : s[k] = o
  <2>1. s \in Injection(1 .. n, RowsOf(d))
    BY <1>3 DEF Injection, IsInjective
  <2>2. Cardinality(1 .. n) = n
    <3>1. n \in Int /\ 1 \in Int /\ (1 > n => n = 0)
      BY <1>1
    <3>. QED
      BY <3>1, FS_Interval
  <2>3. s \in Surjection(1 .. n, RowsOf(d))
    BY <1>1, <2>1, <2>2, FS_Injection DEF n
  <2>. QED
    BY <2>3 DEF Surjection
<1>7. /\ seq \in Seq(RowsOf(d)) /\ Len(seq) = IF n < Limit THEN n ELSE Limit
      /\ \A i \in 1 .. Len(seq) : i \in 1 .. n /\ seq[i] = s[i]
  BY <1>2, <1>4, FirstNIs, LimitsAssumption
<1>8. \A k \in 1 .. Len(seq) : seq[k] \in RowsOf(d)
  BY <1>3, <1>7
<1>9. \A i, j \in 1 .. Len(seq) : i < j => seq[i].at <= seq[j].at
  BY <1>5, <1>7
<1>10. seq \in Seq(Rows)
  BY <1>1, <1>7, <1>8
<1>11. ASSUME NEW o \in RowsOf(d)
       PROVE  Crowded(o) \/ \E k \in 1 .. Len(seq) : seq[k] = o
  <2>1. PICK k \in 1 .. n : s[k] = o
    BY <1>6
  <2>2. CASE k \in 1 .. Len(seq)
    BY <1>7, <2>1, <2>2
  <2>3. CASE k \notin 1 .. Len(seq)
    <3>1. k > Limit /\ k \in 0 .. n /\ Limit \in Nat
      BY <1>1, <1>7, <2>3, LimitsAssumption
    <3> DEFINE X == {p \in log : Midnight[d] <= p.at /\ p.at <= o.at}
    <3>2. IsFiniteSet(log) /\ X \in SUBSET log
      BY DEF LogOK
    <3>3. \A i \in 1 .. k : s[i] \in X
      <4> TAKE i \in 1 .. k
      <4>1. i \in 1 .. n /\ s[i] \in RowsOf(d)
        BY <1>1, <1>3
      <4>2. s[i] \in log /\ Midnight[d] <= s[i].at
        BY <1>1, <4>1
      <4>3. i < k \/ i = k
        OBVIOUS
      <4>4. s[i].at \in Nat /\ s[k].at \in Nat
        BY <1>1, <1>3, <4>1, RowsTyped
      <4>5. s[i].at <= s[k].at
        BY <1>5, <4>1, <4>3, <4>4
      <4>. QED
        BY <2>1, <4>2, <4>5
    <3>4. k <= Cardinality(X)
      <4>1. s \in [1 .. n -> log]
        BY <1>1, <1>3
      <4> HIDE DEF X
      <4>. QED
        BY <1>1, <1>3, <3>1, <3>2, <3>3, <4>1, RowsUpto
    <3>5. Cardinality(X) \in Nat
      <4> HIDE DEF X
      <4>. QED
        BY <3>2, FS_Subset, FS_CardinalityType
    <3>6. DayOf(o.at) = d
      BY DEF RowsOf
    <3>7. Cardinality(X) > Limit
      <4> HIDE DEF X
      <4>. QED
        BY <3>1, <3>4, <3>5
    <3>. QED
      BY <3>6, <3>7 DEF Crowded
  <2>. QED
    BY <2>2, <2>3
<1>12. ASSUME n <= Limit, NEW o \in RowsOf(d)
       PROVE  \E k \in 1 .. Len(seq) : seq[k] = o
  <2>1. Len(seq) = n
    BY <1>1, <1>7, <1>12, LimitsAssumption
  <2>. QED
    BY <1>6, <1>7, <2>1
<1>. QED
  BY <1>8, <1>9, <1>10, <1>11, <1>12 DEF n

\* The rows of R, each once, by date.
InOrder(R, n) ==
    {s \in [1 .. n -> R] :
       /\ \A i, j \in 1 .. n : i # j => s[i] # s[j]
       /\ \A i, j \in 1 .. n : i < j => s[i].at <= s[j].at}

LEMMA InOrderExists ==
  ASSUME NEW A \in SUBSET Rows, NEW n \in Nat
  PROVE  \A R \in SUBSET A : IsFiniteSet(R) /\ Cardinality(R) = n => InOrder(R, n) # {}
<1> DEFINE P == {k \in 0 .. n : \A R \in SUBSET A :
                   IsFiniteSet(R) /\ Cardinality(R) = k => InOrder(R, k) # {}}
<1>1. 0 \in P
  <2>1. \A R : <<>> \in InOrder(R, 0)
    BY DEF InOrder
  <2>. QED
    BY <2>1
<1>2. ASSUME NEW k \in 0 .. n, k + 1 \in 0 .. n, k \in P
      PROVE  k + 1 \in P
  <2>1. ASSUME NEW R \in SUBSET A, IsFiniteSet(R), Cardinality(R) = k + 1
        PROVE  InOrder(R, k + 1) # {}
    <3>1. R # {}
      BY <2>1, FS_EmptySet
    <3>2. PICK o \in R : \A p \in R : p.at <= o.at
      BY <3>1, LatestExists
    <3> DEFINE Q == R \ {o}
    <3>3. IsFiniteSet(Q) /\ Cardinality(Q) = k /\ Q \in SUBSET A
      BY <2>1, FS_RemoveElement
    <3>4. PICK s \in InOrder(Q, k) : TRUE
      <4> HIDE DEF Q
      <4>. QED
        BY <1>2, <3>3
    <3>5. /\ s \in [1 .. k -> Q]
          /\ \A i, j \in 1 .. k : i # j => s[i] # s[j]
          /\ \A i, j \in 1 .. k : i < j => s[i].at <= s[j].at
      BY <3>4 DEF InOrder
    <3> DEFINE t == [i \in 1 .. k + 1 |-> IF i = k + 1 THEN o ELSE s[i]]
    <3>6. \A i \in 1 .. k + 1 : i \in 1 .. k \/ i = k + 1
      OBVIOUS
    <3>7. /\ t[k + 1] = o /\ \A i \in 1 .. k : t[i] = s[i] /\ s[i] \in R /\ s[i] # o
          /\ t \in [1 .. k + 1 -> R]
      BY <3>5, <3>6
    <3> HIDE DEF t
    <3>8. ASSUME NEW i \in 1 .. k + 1, NEW j \in 1 .. k + 1, i # j
          PROVE  t[i] # t[j]
      BY <3>5, <3>6, <3>7, <3>8
    <3>9. ASSUME NEW i \in 1 .. k + 1, NEW j \in 1 .. k + 1, i < j
          PROVE  t[i].at <= t[j].at
      <4>1. i \in 1 .. k
        BY <3>9
      <4>2. CASE j \in 1 .. k
        BY <3>5, <3>7, <3>9, <4>1, <4>2
      <4>3. CASE j = k + 1
        BY <3>2, <3>7, <4>1, <4>3
      <4>. QED
        BY <3>6, <4>2, <4>3
    <3>10. t \in InOrder(R, k + 1)
      BY <3>7, <3>8, <3>9 DEF InOrder
    <3>. QED
      BY <3>10
  <2>. QED
    BY <1>2, <2>1
<1>3. \A k \in 0 .. n : k \in P
  <2> HIDE DEF P
  <2>. QED
    BY <1>1, <1>2, Induction
<1>4. n \in 0 .. n
  OBVIOUS
<1>. QED
  BY <1>3, <1>4

\* So that a day may always be read back.
LEMMA DayIsRead ==
  LogOK => \A d \in Days : DailyTimeline(d) # {}
<1> SUFFICES ASSUME LogOK, NEW d \in Days
             PROVE  DailyTimeline(d) # {}
  OBVIOUS
<1> DEFINE n == Cardinality(RowsOf(d))
<1>1. /\ RowsOf(d) \subseteq Rows /\ IsFiniteSet(RowsOf(d)) /\ n \in Nat
      /\ {o \in log : Midnight[d] <= o.at /\ o.at < DayEnd(d)} = RowsOf(d)
  BY RowsOfTyped
<1>2. PICK s \in InOrder(RowsOf(d), n) : TRUE
  BY <1>1, InOrderExists
<1>3. /\ s \in [1 .. n -> RowsOf(d)]
      /\ \A i, j \in 1 .. n : i # j => s[i] # s[j]
      /\ \A i, j \in 1 .. n : i < j => s[i].at <= s[j].at
  BY <1>2 DEF InOrder
<1>4. s \in SetToSeqs(RowsOf(d))
  BY <1>3 DEF SetToSeqs
<1>5. Len(s) = n
  <2> HIDE DEF n
  <2>. QED
    BY <1>1, <1>3
<1>6. IsSorted(s, LAMBDA o, p : o.at <= p.at)
  <2> HIDE DEF n
  <2>. QED
    BY <1>3, <1>5 DEF IsSorted
<1>7. FirstN(s, Limit) \in ObservationsBetween(Midnight[d], DayEnd(d))
  BY <1>1, <1>4, <1>6 DEF ObservationsBetween
<1>. QED
  BY <1>7 DEF DailyTimeline

\* What daily_timeline makes of them.
LEMMA TimelineIs ==
  ASSUME LogOK, NEW d \in Days, NEW entries \in DailyTimeline(d)
  PROVE  /\ entries \in Seq(Rows)
         /\ \A i \in 1 .. Len(entries) : entries[i] \in RowsOf(d)
         /\ \A o \in RowsOf(d) :
              Crowded(o) \/ \E i \in 1 .. Len(entries) : ToldBy(o, entries[i])
         /\ Cardinality(RowsOf(d)) <= Limit => \A o \in RowsOf(d) :
              \E i \in 1 .. Len(entries) :
                ToldBy(o, entries[i]) /\ (o.kind # "item" => entries[i] = o)
<1>1. PICK seq \in ObservationsBetween(Midnight[d], DayEnd(d)) : entries = Entries(seq)
  BY DEF DailyTimeline
<1>2. /\ seq \in Seq(Rows)
      /\ \A k \in 1 .. Len(seq) : seq[k] \in RowsOf(d)
      /\ \A i, j \in 1 .. Len(seq) : i < j => seq[i].at <= seq[j].at
      /\ \A o \in RowsOf(d) : Crowded(o) \/ \E k \in 1 .. Len(seq) : seq[k] = o
      /\ Cardinality(RowsOf(d)) <= Limit =>
           \A o \in RowsOf(d) : \E k \in 1 .. Len(seq) : seq[k] = o
  BY ObservedRows
<1>3. entries \in Seq(Rows) /\ Tells(seq, Len(seq), entries)
  BY <1>1, <1>2, EntriesTell
<1>4. \A i \in 1 .. Len(entries) : entries[i] \in RowsOf(d)
  BY <1>2, <1>3 DEF Tells
<1>5. \A k \in 1 .. Len(seq) : \E i \in 1 .. Len(entries) :
         ToldBy(seq[k], entries[i]) /\ (seq[k].kind # "item" => entries[i] = seq[k])
  BY <1>3 DEF Tells
<1>. QED
  BY <1>2, <1>3, <1>4, <1>5

LEMMA DaysTold ==
  LogOK => ToldOnItsDay
<1> SUFFICES ASSUME LogOK, NEW d \in Days, NEW entries \in DailyTimeline(d), NEW o \in log
             PROVE  IF d = DayOf(o.at)
                      THEN Crowded(o) \/ \E i \in DOMAIN entries : ToldBy(o, entries[i])
                      ELSE o \notin ToSet(entries)
  BY DEF ToldOnItsDay
<1>1. /\ entries \in Seq(Rows) /\ DOMAIN entries = 1 .. Len(entries)
      /\ \A i \in 1 .. Len(entries) : entries[i] \in RowsOf(d)
      /\ \A p \in RowsOf(d) :
           Crowded(p) \/ \E i \in 1 .. Len(entries) : ToldBy(p, entries[i])
  BY TimelineIs, LenProperties
<1>2. CASE d = DayOf(o.at)
  BY <1>1, <1>2 DEF RowsOf
<1>3. CASE d # DayOf(o.at)
  <2>1. o \notin RowsOf(d)
    BY <1>3 DEF RowsOf
  <2>. QED
    BY <1>1, <1>3, <2>1 DEF ToSet
<1>. QED
  BY <1>2, <1>3

-------------------------------------------------------------------------------
(* What is posted of a day. *)

Groups == {<<WallClock[t], b>> : t \in Moments, b \in {"seen", "gone", "did"}}

Things == Names \cup Doings

LEMMA GroupTyped ==
  ASSUME NEW o \in Rows
  PROVE  /\ Group(o) \in Groups /\ o.subject \in Things
         /\ Group(o)[2] # "seen" => o.kind # "item"
<1>1. o.at \in Moments
  BY RowsTyped
<1>2. Bucket(o) \in {"seen", "gone", "did"} /\ (o.kind = "item" => Bucket(o) = "seen")
  BY DEF Bucket
<1>3. Group(o) \in Groups
  BY <1>1, <1>2 DEF Group, Groups
<1>4. Group(o)[2] = Bucket(o)
  BY DEF Group
<1>5. o.subject \in Things
  BY DEF Rows, ItemRows, OtherRows, Things
<1>. QED
  BY <1>2, <1>3, <1>4, <1>5

LEMMA ToSetIs ==
  ASSUME NEW R, NEW s \in Seq(R)
  PROVE  /\ \A i \in 1 .. Len(s) : s[i] \in ToSet(s)
         /\ \A x \in ToSet(s) : \E i \in 1 .. Len(s) : x = s[i]
BY LenProperties DEF ToSet

\* What the entries of a group are about.
About(group, entries) ==
    {x \in Things : \E i \in 1 .. Len(entries) :
       Group(entries[i]) = group /\ x = entries[i].subject}

\* A bullet names some of that, each once, and counts the rest.
BulletTrue(b, group, entries) ==
    /\ b \in Bullets /\ b.group = group
    /\ Len(b.names) = Cardinality(ToSet(b.names))
    /\ ToSet(b.names) \subseteq About(group, entries)
    /\ Cardinality(ToSet(b.names)) + b.more = Cardinality(About(group, entries))
    /\ About(group, entries) # {} => b.names # <<>>
    /\ \A x \in About(group, entries) : x \in ToSet(b.names) \/ b.more > 0

\* _names
LEMMA BulletIs ==
  ASSUME NEW entries \in Seq(Rows), NEW group \in Groups
  PROVE  BulletTrue(Bullet(group, entries), group, entries)
<1> DEFINE subjects == Subjects(group, entries)
           unique == Unique(subjects)
           shown == FirstN(unique, MaxNames)
           b == Bullet(group, entries)
<1>1. b.group = group /\ b.names = shown /\ b.more = Len(unique) - Len(shown)
       /\ b = [group |-> b.group, names |-> b.names, more |-> b.more]
  BY DEF Bullet, NamesShown
<1>2. subjects \in Seq(Things) /\ Lists(group, entries, Len(entries), subjects)
  BY GroupTyped, SubjectsAre
<1>3. unique \in Seq(Things) /\ Keeps(subjects, Len(subjects), unique)
  <2> HIDE DEF subjects
  <2>. QED
    BY <1>2, UniqueIs
<1> HIDE DEF subjects, unique, b
<1>4. ToSet(unique) = About(group, entries)
  <2>1. ASSUME NEW x \in ToSet(unique)
        PROVE  x \in About(group, entries)
    <3>1. PICK i \in 1 .. Len(unique) : x = unique[i]
      BY <1>3, ToSetIs
    <3>2. PICK j \in 1 .. Len(subjects) : x = subjects[j]
      BY <1>3, <3>1 DEF Keeps
    <3>3. x \in Things
      BY <1>2, <3>2, LenProperties
    <3>. QED
      BY <1>2, <3>2, <3>3 DEF Lists, About
  <2>2. ASSUME NEW x \in About(group, entries)
        PROVE  x \in ToSet(unique)
    <3>1. PICK k \in 1 .. Len(entries) : Group(entries[k]) = group /\ x = entries[k].subject
      BY <2>2 DEF About
    <3>2. PICK j \in 1 .. Len(subjects) : x = subjects[j]
      BY <1>2, <3>1 DEF Lists
    <3>3. PICK i \in 1 .. Len(unique) : x = unique[i]
      BY <1>3, <3>2 DEF Keeps
    <3>. QED
      BY <1>3, <3>3, ToSetIs
  <2>. QED
    BY <2>1, <2>2
<1>5. IsFiniteSet(ToSet(unique)) /\ Cardinality(ToSet(unique)) = Len(unique)
  BY <1>3, OnceCounts DEF Keeps
<1>6. /\ shown \in Seq(Things)
      /\ Len(shown) = IF Len(unique) < MaxNames THEN Len(unique) ELSE MaxNames
      /\ \A i \in 1 .. Len(shown) : i \in 1 .. Len(unique) /\ shown[i] = unique[i]
  BY <1>3, FirstNIs, LimitsAssumption
<1> HIDE DEF shown
<1>7. Len(unique) \in Nat /\ MaxNames \in Nat \ {0}
  BY <1>3, LenProperties, LimitsAssumption
<1>8. \A i, j \in 1 .. Len(shown) : shown[i] = shown[j] => i = j
  BY <1>3, <1>6 DEF Keeps
<1>9. Cardinality(ToSet(shown)) = Len(shown)
  BY <1>6, <1>8, OnceCounts
<1>10. ToSet(shown) \subseteq ToSet(unique)
  BY <1>3, <1>6, ToSetIs
<1>11. Len(unique) - Len(shown) \in Nat /\ Len(shown) \in Nat
  BY <1>6, <1>7
<1>12. b \in Bullets
  BY <1>1, <1>6, <1>11 DEF Bullets, Groups, Things
<1>13. ASSUME About(group, entries) # {}
       PROVE  shown # <<>>
  <2>1. Len(unique) # 0
    BY <1>3, <1>4, <1>7, <1>13, ToSetIs
  <2>2. Len(shown) # 0
    BY <1>6, <1>7, <2>1
  <2>. QED
    BY <2>2
<1>14. ASSUME NEW x \in About(group, entries), ~(b.more > 0)
       PROVE  x \in ToSet(shown)
  <2>1. Len(shown) = Len(unique)
    BY <1>1, <1>6, <1>7, <1>14
  <2>2. PICK i \in 1 .. Len(unique) : x = unique[i]
    BY <1>3, <1>4, ToSetIs
  <2>. QED
    BY <1>6, <2>1, <2>2, ToSetIs
<1>15. Cardinality(ToSet(shown)) + b.more = Cardinality(About(group, entries))
  BY <1>1, <1>4, <1>5, <1>7, <1>9, <1>11
<1>. QED
  BY <1>1, <1>4, <1>9, <1>10, <1>12, <1>13, <1>14, <1>15 DEF BulletTrue, b

\* One bullet for each group there is.
BulletsTrue(bullets, entries) ==
    /\ bullets \in Seq(Bullets)
    /\ \A i \in 1 .. Len(bullets) :
         /\ BulletTrue(bullets[i], bullets[i].group, entries)
         /\ \E k \in 1 .. Len(entries) : Group(entries[k]) = bullets[i].group
    /\ \A i, j \in 1 .. Len(bullets) : bullets[i].group = bullets[j].group => i = j
    /\ \A k \in 1 .. Len(entries) : \E i \in 1 .. Len(bullets) :
         bullets[i].group = Group(entries[k])

\* bullets_from_lines
LEMMA BulletsAre ==
  ASSUME NEW entries \in Seq(Rows)
  PROVE  BulletsTrue(BulletsFromLines(entries), entries)
<1> DEFINE all == [i \in DOMAIN entries |-> Group(entries[i])]
           groups == Unique(all)
           bullets == BulletsFromLines(entries)
<1>1. Len(entries) \in Nat /\ DOMAIN entries = 1 .. Len(entries)
      /\ \A i \in 1 .. Len(entries) : entries[i] \in Rows
  BY LenProperties
<1>2. /\ all \in Seq(Groups) /\ Len(all) = Len(entries)
      /\ \A i \in 1 .. Len(entries) : all[i] = Group(entries[i])
  BY <1>1, GroupTyped
<1>3. bullets = [g \in DOMAIN groups |-> Bullet(groups[g], entries)]
  BY DEF BulletsFromLines
<1> HIDE DEF all, bullets
<1>4. groups \in Seq(Groups) /\ Keeps(all, Len(entries), groups)
  BY <1>2, UniqueIs
<1> HIDE DEF groups
<1>5. Len(groups) \in Nat /\ DOMAIN groups = 1 .. Len(groups)
      /\ \A g \in 1 .. Len(groups) : groups[g] \in Groups
  BY <1>4, LenProperties
<1>6. ASSUME NEW g \in 1 .. Len(groups)
      PROVE  /\ bullets[g] = Bullet(groups[g], entries) /\ bullets[g].group = groups[g]
             /\ BulletTrue(bullets[g], bullets[g].group, entries) /\ bullets[g] \in Bullets
  <2>1. bullets[g] = Bullet(groups[g], entries)
    BY <1>3, <1>5
  <2>2. BulletTrue(bullets[g], groups[g], entries)
    BY <1>5, <2>1, BulletIs
  <2>3. bullets[g].group = groups[g] /\ bullets[g] \in Bullets
    BY <2>2 DEF BulletTrue
  <2>. QED
    BY <2>1, <2>2, <2>3
<1>7. bullets \in Seq(Bullets) /\ Len(bullets) = Len(groups)
  <2>1. bullets \in [1 .. Len(groups) -> Bullets]
    BY <1>3, <1>5, <1>6
  <2>. QED
    BY <1>5, <2>1
<1>8. \A i, j \in 1 .. Len(groups) : groups[i] = groups[j] => i = j
  BY <1>4 DEF Keeps
<1>9. \A i \in 1 .. Len(groups) : \E k \in 1 .. Len(entries) : Group(entries[k]) = groups[i]
  BY <1>2, <1>4 DEF Keeps
<1>10. \A k \in 1 .. Len(entries) : \E i \in 1 .. Len(groups) : groups[i] = Group(entries[k])
  BY <1>2, <1>4 DEF Keeps
<1>. QED
  BY <1>6, <1>7, <1>8, <1>9, <1>10 DEF BulletsTrue, bullets

\* The entries of a group are about what was logged in it, and, of what is not seen but
\* left or done, about all of that.
LEMMA AboutIsNews ==
  ASSUME LogOK, NEW d \in Days, NEW entries \in DailyTimeline(d), NEW g
  PROVE  /\ About(g, entries) \subseteq News(RowsOf(d), g)
         /\ Cardinality(About(g, entries)) <= Cardinality(News(RowsOf(d), g))
         /\ Cardinality(About(g, entries)) \in Nat
         /\ Cardinality(News(RowsOf(d), g)) \in Nat
         /\ g[2] # "seen" /\ Cardinality(RowsOf(d)) <= Limit =>
              Cardinality(About(g, entries)) = Cardinality(News(RowsOf(d), g))
<1> DEFINE rows == {p \in RowsOf(d) : Group(p) = g}
           f == [o \in rows |-> o.subject]
           news == News(RowsOf(d), g)
<1>1. RowsOf(d) \subseteq Rows /\ IsFiniteSet(RowsOf(d))
  BY RowsOfTyped
<1>2. IsFiniteSet(rows)
  BY <1>1, FS_Subset
<1>3. f \in Surjection(rows, news)
  <2>1. news = {o.subject : o \in rows}
    BY DEF News
  <2>2. f \in [rows -> news]
    BY <2>1
  <2>3. \A x \in news : \E o \in rows : f[o] = x
    BY <2>1
  <2> HIDE DEF f, rows, news
  <2>. QED
    BY <2>2, <2>3 DEF Surjection
<1>4. IsFiniteSet(news)
  <2> HIDE DEF f, rows, news
  <2>. QED
    BY <1>2, <1>3, FS_Surjection
<1>5. /\ entries \in Seq(Rows)
      /\ \A i \in 1 .. Len(entries) : entries[i] \in RowsOf(d)
      /\ Cardinality(RowsOf(d)) <= Limit => \A o \in RowsOf(d) :
           \E i \in 1 .. Len(entries) :
             ToldBy(o, entries[i]) /\ (o.kind # "item" => entries[i] = o)
  BY TimelineIs
<1>6. About(g, entries) \subseteq news
  BY <1>5 DEF About, News
<1>7. /\ Cardinality(About(g, entries)) <= Cardinality(news)
      /\ Cardinality(About(g, entries)) \in Nat /\ Cardinality(news) \in Nat
  <2> HIDE DEF news
  <2>. QED
    BY <1>4, <1>6, FS_Subset, FS_CardinalityType
<1>8. ASSUME g[2] # "seen", Cardinality(RowsOf(d)) <= Limit, NEW x \in news
      PROVE  x \in About(g, entries)
  <2>1. PICK o \in RowsOf(d) : Group(o) = g /\ x = o.subject
    BY DEF News
  <2>2. o.kind # "item" /\ x \in Things
    BY <1>1, <1>8, <2>1, GroupTyped
  <2>3. PICK i \in 1 .. Len(entries) : entries[i] = o
    BY <1>5, <1>8, <2>2
  <2>. QED
    BY <2>1, <2>2, <2>3 DEF About
<1>9. g[2] # "seen" /\ Cardinality(RowsOf(d)) <= Limit => About(g, entries) = news
  BY <1>6, <1>8
<1>. QED
  BY <1>6, <1>7, <1>9

LEMMA BulletTellsOf ==
  ASSUME LogOK, NEW d \in Days, NEW entries \in DailyTimeline(d), NEW o \in RowsOf(d),
         NEW i \in 1 .. Len(entries), ToldBy(o, entries[i]),
         NEW b, b.group = Group(entries[i]), BulletTrue(b, b.group, entries)
  PROVE  BulletTells(b, o)
<1>1. /\ entries[i] \in RowsOf(d) /\ entries[i] \in Rows /\ DayOf(o.at) = d
      /\ o.subject = entries[i].subject
  BY TimelineIs, RowsOfTyped DEF RowsOf, ToldBy
<1>2. o.subject \in About(b.group, entries)
  BY <1>1, GroupTyped DEF About
<1>3. o.subject \in ToSet(b.names) \/ b.more > 0
  BY <1>2 DEF BulletTrue
<1>. QED
  BY <1>1, <1>3 DEF BulletTells

\* Things are no more than their places.
LEMMA PlacesSuffice ==
  ASSUME NEW R, NEW s \in Seq(R)
  PROVE  Cardinality(ToSet(s)) \in Nat /\ Cardinality(ToSet(s)) <= Len(s)
<1>1. Len(s) \in Nat /\ DOMAIN s = 1 .. Len(s) /\ s \in [1 .. Len(s) -> R]
  BY LenProperties
<1>2. s \in [1 .. Len(s) -> ToSet(s)] /\ \A y \in ToSet(s) : \E i \in 1 .. Len(s) : s[i] = y
  BY <1>1 DEF ToSet
<1>3. s \in Surjection(1 .. Len(s), ToSet(s))
  BY <1>2 DEF Surjection
<1>4. IsFiniteSet(1 .. Len(s)) /\ Cardinality(1 .. Len(s)) = Len(s)
  BY <1>1, FS_Interval
<1>5. IsFiniteSet(ToSet(s)) /\ Cardinality(ToSet(s)) <= Cardinality(1 .. Len(s))
  BY <1>3, <1>4, FS_Surjection
<1>. QED
  BY <1>4, <1>5, FS_CardinalityType

\* A bullet, cut short or not, counts no more than there is and names it or a part of it.
CutTrue(c, group, entries) ==
    /\ c \in Bullets /\ c.group = group
    /\ Told(c) <= Cardinality(About(group, entries))
    /\ \A n \in ToSet(c.names) : \E m \in About(group, entries) :
         n = m \/ <<n, m>> \in Within

LEMMA WholeIsTrue ==
  ASSUME NEW entries, NEW group, NEW b, BulletTrue(b, group, entries)
  PROVE  CutTrue(b, group, entries)
<1>1. b.names \in Seq(Things) /\ b.more \in Nat
  BY DEF BulletTrue, Bullets, Things
<1>2. Cardinality(ToSet(b.names)) \in Nat
  BY <1>1, PlacesSuffice
<1>. QED
  BY <1>1, <1>2 DEF BulletTrue, CutTrue, Told

LEMMA CutIsTrue ==
  ASSUME NEW entries, NEW group, NEW b, BulletTrue(b, group, entries), NEW c \in CutShort(b)
  PROVE  CutTrue(c, group, entries)
<1> DEFINE names == b.names
           cut(ns, k) == [group |-> b.group, names |-> ns, more |-> k]
<1>1. /\ b \in Bullets /\ b.group = group /\ names \in Seq(Things) /\ b.more \in Nat
      /\ b = [group |-> b.group, names |-> names, more |-> b.more]
  BY DEF BulletTrue, Bullets, Things
<1>2. /\ Len(names) = Cardinality(ToSet(names)) /\ ToSet(names) \subseteq About(group, entries)
      /\ Cardinality(ToSet(names)) + b.more = Cardinality(About(group, entries))
  BY DEF BulletTrue
<1>3. Len(names) \in Nat /\ DOMAIN names = 1 .. Len(names)
  BY <1>1, LenProperties
<1>4. ASSUME NEW m \in 0 .. b.more, c = cut(names, m)
      PROVE  CutTrue(c, group, entries)
  <2>1. c.group = group /\ c.names = names /\ c.more = m /\ m \in Nat /\ c \in Bullets
    BY <1>1, <1>4 DEF Bullets
  <2>2. Told(c) <= Cardinality(About(group, entries))
    BY <1>1, <1>2, <1>3, <2>1 DEF Told
  <2>. QED
    BY <1>2, <2>1, <2>2 DEF CutTrue
\* Of the names, the first ones, and a part of one more.
<1>5. ASSUME NEW i \in 1 .. Len(names), NEW part \in Seq(Things),
             Len(part) <= i,
             \A j \in 1 .. Len(part) :
               part[j] = names[j] \/ (j = i /\ <<part[j], names[i]>> \in Within),
             c = cut(part, 0)
      PROVE  CutTrue(c, group, entries)
  <2>1. c.group = group /\ c.names = part /\ c.more = 0 /\ c \in Bullets
    BY <1>1, <1>5 DEF Bullets, Things
  <2>2. Cardinality(ToSet(part)) \in Nat /\ Cardinality(ToSet(part)) <= Len(part)
        /\ Len(part) \in Nat
    BY PlacesSuffice, LenProperties
  <2>3. Told(c) <= Cardinality(About(group, entries))
    BY <1>1, <1>2, <1>3, <1>5, <2>1, <2>2 DEF Told
  <2>4. ASSUME NEW n \in ToSet(part)
        PROVE  \E m \in About(group, entries) : n = m \/ <<n, m>> \in Within
    <3>1. PICK j \in 1 .. Len(part) : n = part[j]
      BY ToSetIs
    <3>2. j \in 1 .. Len(names)
      BY <1>3, <1>5, <2>2
    <3>3. names[j] \in About(group, entries) /\ names[i] \in About(group, entries)
      BY <1>1, <1>2, <3>2, ToSetIs
    <3>. QED
      BY <1>5, <3>1, <3>3
  <2>. QED
    BY <2>1, <2>3, <2>4 DEF CutTrue
<1>6. ASSUME NEW i \in 1 .. Len(names),
             c = cut(FirstN(names, i - 1), 0)
      PROVE  CutTrue(c, group, entries)
  <2> DEFINE before == FirstN(names, i - 1)
  <2>1. /\ before \in Seq(Things) /\ Len(before) = i - 1
        /\ \A j \in 1 .. Len(before) : before[j] = names[j]
    <3>1. i - 1 \in Nat /\ ~(Len(names) < i - 1)
      BY <1>3
    <3>. QED
      BY <1>1, <3>1, FirstNIs
  <2> HIDE DEF before
  <2>. QED
    BY <1>3, <1>5, <1>6, <2>1 DEF before
<1>7. ASSUME NEW i \in 1 .. Len(names), NEW n \in Names, <<n, names[i]>> \in Within,
             c = cut(Append(FirstN(names, i - 1), n), 0)
      PROVE  CutTrue(c, group, entries)
  <2> DEFINE before == FirstN(names, i - 1)
             part == Append(before, n)
  <2>1. /\ before \in Seq(Things) /\ Len(before) = i - 1
        /\ \A j \in 1 .. Len(before) : before[j] = names[j]
    <3>1. i - 1 \in Nat /\ ~(Len(names) < i - 1)
      BY <1>3
    <3>. QED
      BY <1>1, <3>1, FirstNIs
  <2> HIDE DEF before
  <2>2. n \in Things
    BY DEF Things
  <2>3. /\ part \in Seq(Things) /\ Len(part) = i /\ part[i] = n
        /\ \A j \in 1 .. i - 1 : part[j] = before[j]
    BY <1>3, <2>1, <2>2, AppendProperties
  <2>4. c = cut(part, 0)
    BY <1>7 DEF before
  <2> HIDE DEF part
  <2>5. \A j \in 1 .. Len(part) :
          part[j] = names[j] \/ (j = i /\ <<part[j], names[i]>> \in Within)
    <3> TAKE j \in 1 .. Len(part)
    <3>1. CASE j = i
      BY <1>7, <2>3, <3>1
    <3>2. CASE j # i
      <4>1. j \in 1 .. i - 1 /\ j \in 1 .. Len(before)
        BY <1>3, <2>1, <2>3, <3>2
      <4>. QED
        BY <2>1, <2>3, <4>1
    <3>. QED
      BY <3>1, <3>2
  <2>. QED
    BY <1>3, <1>5, <2>3, <2>4, <2>5
<1>8. \/ \E m \in 0 .. b.more : c = cut(names, m)
      \/ \E i \in 1 .. Len(names) :
           \/ c = cut(FirstN(names, i - 1), 0)
           \/ \E n \in Names : /\ <<n, names[i]>> \in Within
                /\ c = cut(Append(FirstN(names, i - 1), n), 0)
  <2>1. c \in {cut(names, m) : m \in 0 .. b.more}
             \cup {cut(FirstN(names, i - 1), 0) : i \in 1 .. Len(names)}
             \cup UNION {{cut(Append(FirstN(names, i - 1), n), 0) :
                             n \in {m \in Names : <<m, names[i]>> \in Within}} :
                           i \in 1 .. Len(names)}
    BY <1>3 DEF CutShort
  <2>. QED
    BY <2>1
<1>. QED
  BY <1>4, <1>6, <1>7, <1>8

\* What arrives of a message: its bullets, the last of them cut short if the footer is.
ArrivesTrue(recap, day, all, count, entries) ==
    /\ recap.what = "recap" /\ recap.day = day
    /\ recap.bullets \in Seq(Bullets) \ {<<>>} /\ recap.footer \in {NoFooter, count}
    /\ Len(recap.bullets) <= Len(all)
    /\ recap.footer # NoFooter => Len(recap.bullets) = Len(all)
    /\ \A i \in 1 .. Len(recap.bullets) :
         /\ CutTrue(recap.bullets[i], all[i].group, entries)
         /\ recap.footer # NoFooter \/ i < Len(recap.bullets) => recap.bullets[i] = all[i]

LEMMA ArrivesIs ==
  ASSUME NEW day, NEW entries, NEW all, BulletsTrue(all, entries), all # <<>>,
         NEW count, NEW recap \in Arrives(day, all, count)
  PROVE  ArrivesTrue(recap, day, all, count, entries)
<1> DEFINE whole == FirstN(all, MaxBullets)
<1>1. /\ all \in Seq(Bullets) /\ Len(all) \in Nat /\ MaxBullets \in Nat \ {0}
      /\ \A i \in 1 .. Len(all) : CutTrue(all[i], all[i].group, entries)
  BY LenProperties, LimitsAssumption, WholeIsTrue DEF BulletsTrue
<1>2. Len(all) # 0
  BY <1>1, EmptySeq
<1>3. /\ whole \in Seq(Bullets)
      /\ Len(whole) = IF Len(all) < MaxBullets THEN Len(all) ELSE MaxBullets
      /\ \A i \in 1 .. Len(whole) : i \in 1 .. Len(all) /\ whole[i] = all[i]
  BY <1>1, FirstNIs
<1> HIDE DEF whole
<1>4. CASE /\ Len(all) <= MaxBullets
           /\ recap = Recap(day, all, count) \/ recap = Recap(day, all, NoFooter)
  <2>1. recap.what = "recap" /\ recap.day = day /\ recap.bullets = all
        /\ recap.footer \in {count, NoFooter}
    BY <1>4 DEF Recap
  <2>. QED
    BY <1>1, <2>1 DEF ArrivesTrue
<1>5. CASE Len(all) > MaxBullets /\ recap = Recap(day, whole, NoFooter)
  <2>1. recap.what = "recap" /\ recap.day = day /\ recap.bullets = whole
        /\ recap.footer = NoFooter
    BY <1>5 DEF Recap
  <2>2. whole # <<>> /\ Len(whole) = MaxBullets
    BY <1>1, <1>3, <1>5, EmptySeq
  <2>. QED
    BY <1>1, <1>3, <1>5, <2>1, <2>2 DEF ArrivesTrue
<1>6. ASSUME Len(all) > MaxBullets, NEW b \in CutShort(all[MaxBullets + 1]),
             recap = Recap(day, Append(whole, b), NoFooter)
      PROVE  ArrivesTrue(recap, day, all, count, entries)
  <2> DEFINE m == MaxBullets + 1
             bullets == Append(whole, b)
  <2>1. m \in 1 .. Len(all) /\ Len(whole) = MaxBullets
    BY <1>1, <1>3, <1>6
  <2>2. CutTrue(b, all[m].group, entries)
    BY <1>6, <2>1, CutIsTrue DEF BulletsTrue
  <2>3. b \in Bullets
    BY <2>2 DEF CutTrue
  <2>4. /\ bullets \in Seq(Bullets) /\ Len(bullets) = m /\ bullets[m] = b
        /\ \A i \in 1 .. MaxBullets : bullets[i] = whole[i]
    BY <1>3, <2>1, <2>3, AppendProperties
  <2>5. recap.what = "recap" /\ recap.day = day /\ recap.bullets = bullets
        /\ recap.footer = NoFooter
    BY <1>6 DEF Recap
  <2> HIDE DEF bullets
  <2>6. bullets # <<>>
    BY <1>1, <2>4, EmptySeq
  <2>7. ASSUME NEW i \in 1 .. Len(bullets)
        PROVE  /\ CutTrue(bullets[i], all[i].group, entries)
               /\ i < Len(bullets) => bullets[i] = all[i]
    <3>1. CASE i = m
      BY <1>1, <2>2, <2>4, <3>1
    <3>2. CASE i # m
      <4>1. i \in 1 .. MaxBullets /\ i \in 1 .. Len(all)
        BY <1>1, <2>1, <2>4, <3>2
      <4>. QED
        BY <1>1, <1>3, <2>1, <2>4, <4>1
    <3>. QED
      BY <3>1, <3>2
  <2>8. Len(bullets) <= Len(all)
    BY <1>1, <1>6, <2>4
  <2>. QED
    BY <2>4, <2>5, <2>6, <2>7, <2>8 DEF ArrivesTrue
<1>7. CASE Len(all) < MaxBullets
  <2>1. recap = Recap(day, all, count)
    BY <1>7 DEF Arrives
  <2>. QED
    BY <1>1, <1>4, <1>7, <2>1
<1>8. CASE Len(all) = MaxBullets
  <2>1. recap = Recap(day, all, count) \/ recap = Recap(day, all, NoFooter)
    BY <1>1, <1>8 DEF Arrives
  <2>. QED
    BY <1>1, <1>4, <1>8, <2>1
<1>9. CASE Len(all) > MaxBullets
  <2>1. ~(Len(all) < MaxBullets) /\ Len(all) # MaxBullets
    BY <1>1, <1>9
  <2>2. \/ recap = Recap(day, whole, NoFooter)
        \/ \E b \in CutShort(all[MaxBullets + 1]) :
             recap = Recap(day, Append(whole, b), NoFooter)
    BY <2>1 DEF Arrives, whole
  <2>. QED
    BY <1>5, <1>6, <1>9, <2>2
<1>. QED
  BY <1>1, <1>7, <1>8, <1>9

\* daily_recap, as it is posted.
LEMMA RecapIs ==
  ASSUME LogOK, NEW d \in Days, NEW entries \in DailyTimeline(d), entries # <<>>,
         said \in DailyRecap(d, entries)
  PROVE  /\ said.what = "recap" /\ said.day = d /\ said.bullets \in Seq(Bullets) \ {<<>>}
         /\ said.footer \in {NoFooter} \cup (Nat \ {0})
         /\ RecapAccountsForAll
<1> DEFINE all == BulletsFromLines(entries)
           rows == RowsOf(d)
           whole(i) == said.footer # NoFooter \/ i < Len(said.bullets)
<1>1. said \in Arrives(d, all, Len(entries))
  BY DEF DailyRecap
<1>2. /\ entries \in Seq(Rows)
      /\ \A o \in rows : Crowded(o) \/ \E i \in 1 .. Len(entries) : ToldBy(o, entries[i])
      /\ Cardinality(rows) <= Limit => \A o \in rows : \E i \in 1 .. Len(entries) :
           ToldBy(o, entries[i]) /\ (o.kind # "item" => entries[i] = o)
  BY TimelineIs
<1>3. BulletsTrue(all, entries)
  BY <1>2, BulletsAre
<1> HIDE DEF all
<1>4. /\ Len(all) \in Nat /\ Len(entries) \in Nat \ {0}
      /\ Cardinality(rows) \in Nat /\ Limit \in Nat
  BY <1>2, <1>3, LenProperties, EmptySeq, LimitsAssumption, RowsOfTyped DEF BulletsTrue
<1>5. all # <<>>
  <2>1. 1 \in 1 .. Len(entries)
    BY <1>4
  <2>2. Len(all) # 0
    BY <1>3, <1>4, <2>1 DEF BulletsTrue
  <2>. QED
    BY <2>2
<1>6. ArrivesTrue(said, d, all, Len(entries), entries)
  BY <1>1, <1>3, <1>5, ArrivesIs
<1>7. /\ said.what = "recap" /\ said.day = d /\ said.bullets \in Seq(Bullets) \ {<<>>}
      /\ said.footer \in {NoFooter} \cup (Nat \ {0})
      /\ Len(said.bullets) \in Nat /\ Len(said.bullets) <= Len(all)
      /\ DOMAIN said.bullets = 1 .. Len(said.bullets)
  BY <1>4, <1>6, LenProperties DEF ArrivesTrue
<1>8. ASSUME NEW i \in DOMAIN said.bullets
      PROVE  /\ i \in 1 .. Len(all)
             /\ CutTrue(said.bullets[i], all[i].group, entries)
             /\ said.bullets[i].group = all[i].group
             /\ whole(i) => said.bullets[i] = all[i]
  <2>1. i \in 1 .. Len(said.bullets) /\ i \in 1 .. Len(all)
    BY <1>4, <1>7
  <2>2. /\ CutTrue(said.bullets[i], all[i].group, entries)
        /\ whole(i) => said.bullets[i] = all[i]
    BY <1>6, <2>1 DEF ArrivesTrue
  <2>. QED
    BY <2>1, <2>2 DEF CutTrue
<1>9. \A i, j \in DOMAIN said.bullets :
         said.bullets[i].group = said.bullets[j].group => i = j
  BY <1>3, <1>8 DEF BulletsTrue
<1>10. ASSUME NEW i \in DOMAIN said.bullets
       PROVE  /\ BulletIsPart(said.bullets[i], rows)
              /\ whole(i) => BulletAccounts(said.bullets[i], rows)
  <2>0. PICK b : b = said.bullets[i]
    OBVIOUS
  <2>1. /\ i \in 1 .. Len(all) /\ b.group = all[i].group /\ CutTrue(b, b.group, entries)
        /\ whole(i) => b = all[i]
    BY <1>8, <2>0
  <2> HIDE DEF whole
  <2>2. BulletTrue(all[i], b.group, entries)
        /\ \E k \in 1 .. Len(entries) : Group(entries[k]) = b.group
    BY <1>3, <2>1 DEF BulletsTrue
  <2>3. About(b.group, entries) # {}
    BY <1>2, <2>2, LenProperties, GroupTyped DEF About
  <2>4. /\ About(b.group, entries) \subseteq News(rows, b.group)
        /\ Cardinality(About(b.group, entries)) <= Cardinality(News(rows, b.group))
        /\ Cardinality(About(b.group, entries)) \in Nat
        /\ Cardinality(News(rows, b.group)) \in Nat
        /\ b.group[2] # "seen" /\ Cardinality(rows) <= Limit =>
             Cardinality(About(b.group, entries)) = Cardinality(News(rows, b.group))
    BY AboutIsNews
  <2>5. Told(b) \in Nat
    <3>1. b.names \in Seq(Things) /\ b.more \in Nat
      BY <2>1 DEF CutTrue, Bullets, Things
    <3>2. Cardinality(ToSet(b.names)) \in Nat
      BY <3>1, PlacesSuffice
    <3>. QED
      BY <3>1, <3>2 DEF Told
  <2>6. Told(b) <= Cardinality(News(rows, b.group))
    BY <2>1, <2>4, <2>5 DEF CutTrue
  <2>7. BulletIsPart(b, rows)
    BY <2>1, <2>4, <2>6 DEF CutTrue, BulletIsPart
  <2>8. ASSUME whole(i)
        PROVE  BulletAccounts(b, rows)
    <3>1. BulletTrue(b, b.group, entries)
      BY <2>1, <2>2, <2>8
    <3>. QED
      BY <2>3, <2>4, <3>1 DEF BulletTrue, BulletAccounts, Told
  <2>. QED
    BY <2>0, <2>7, <2>8
<1>11. ASSUME Cardinality(rows) <= Limit, said.footer # NoFooter, NEW o \in rows
       PROVE  \E i \in DOMAIN said.bullets : BulletTells(said.bullets[i], o)
  <2>1. PICK k \in 1 .. Len(entries) : ToldBy(o, entries[k])
    BY <1>2, <1>11
  <2>2. PICK i \in 1 .. Len(all) : all[i].group = Group(entries[k])
    BY <1>3 DEF BulletsTrue
  <2>3. i \in DOMAIN said.bullets /\ said.bullets[i] = all[i]
    BY <1>6, <1>7, <1>8, <1>11 DEF ArrivesTrue
  <2>4. BulletTrue(all[i], all[i].group, entries)
    BY <1>3 DEF BulletsTrue
  <2>5. BulletTells(all[i], o)
    BY <2>1, <2>2, <2>4, BulletTellsOf
  <2>. QED
    BY <2>3, <2>5
<1>12. Cardinality(rows) > Limit \/ Cardinality(rows) <= Limit
  BY <1>4
<1>13. RecapAccountsForAll
  BY <1>7, <1>9, <1>10, <1>11, <1>12 DEF RecapAccountsForAll
<1>. QED
  BY <1>7, <1>13

-------------------------------------------------------------------------------
(* The inductive invariant: the log is well formed, what a scan holds so far rests on *)
(* the log as it is, and what was last said was said of it.                         *)

NamesIn(kept) == {r.name : r \in kept}

ScanOK(c, rows, t) ==
    /\ c \in ScanStates /\ IsFiniteSet(c.kept) /\ c.knew \subseteq rows /\ c.at <= t
    /\ \A n \in Expected : Rests(c.verdict[n], n, NamesIn(c.kept), c.at, c.knew, rows)

ScansOK ==
    /\ scan \in [Scans -> {NoScan} \cup ScanStates]
    /\ \A s \in Scans : scan[s] = NoScan \/ ScanOK(scan[s], log, now)

ScanSaid(seen, at, knew, verdict) ==
    /\ said = [what |-> "scan", seen |-> seen, at |-> at, knew |-> knew, verdict |-> verdict]
    /\ knew \subseteq log
    /\ \A n \in Expected : Rests(verdict[n], n, seen, at, knew, log)

SaidOK ==
    \/ said = Nothing
    \/ \E seen \in SUBSET Names, at \in Moments, knew \in SUBSET Rows,
          verdict \in [Expected -> Verdicts] : ScanSaid(seen, at, knew, verdict)
    \/ \E d \in Days : \E entries \in DailyTimeline(d) :
         entries # <<>> /\ said \in DailyRecap(d, entries)

LEMMA SaidIsTrue ==
  LogOK /\ ScansOK /\ SaidOK => TypeOK /\ VerdictOnEvidence /\ RecapAccountsForAll
<1> SUFFICES ASSUME LogOK, ScansOK, SaidOK
             PROVE  TypeOK /\ VerdictOnEvidence /\ RecapAccountsForAll
  OBVIOUS
<1>1. /\ now \in Moments /\ log \subseteq ItemRows \cup OtherRows
      /\ \A o \in log : o.at <= now
      /\ \A s \in Scans : scan[s] = NoScan \/ scan[s] \in ScanStates
  BY DEF LogOK, Rows, ScansOK
<1>2. CASE said = Nothing
  <2>1. said.what = "nothing"
    BY <1>2 DEF Nothing
  <2>2. VerdictOnEvidence /\ RecapAccountsForAll
    BY <2>1 DEF VerdictOnEvidence, RecapAccountsForAll
  <2>. QED
    BY <1>1, <1>2, <2>2 DEF TypeOK
<1>3. ASSUME NEW seen \in SUBSET Names, NEW at \in Moments, NEW knew \in SUBSET Rows,
             NEW verdict \in [Expected -> Verdicts], ScanSaid(seen, at, knew, verdict)
      PROVE  TypeOK /\ VerdictOnEvidence /\ RecapAccountsForAll
  <2>1. /\ said.what = "scan" /\ said.seen = seen /\ said.at = at /\ said.verdict = verdict
        /\ said.knew = knew /\ knew \subseteq log
        /\ \A n \in Expected : Rests(verdict[n], n, seen, at, knew, log)
    BY <1>3 DEF ScanSaid
  <2>2. \A n \in Expected : verdict[n].is \in {"found", "carried", "missing"}
    BY DEF Verdicts
  <2>3. VerdictOnEvidence
    BY <2>1, <2>2 DEF VerdictOnEvidence, Rests, Doubted
  <2>4. RecapAccountsForAll
    BY <2>1 DEF RecapAccountsForAll
  <2>. QED
    BY <1>1, <2>1, <2>3, <2>4 DEF TypeOK
<1>4. ASSUME NEW d \in Days, NEW entries \in DailyTimeline(d), entries # <<>>,
             said \in DailyRecap(d, entries)
      PROVE  TypeOK /\ VerdictOnEvidence /\ RecapAccountsForAll
  <2>1. /\ said.what = "recap" /\ said.day = d /\ said.bullets \in Seq(Bullets) \ {<<>>}
        /\ said.footer \in {NoFooter} \cup (Nat \ {0})
        /\ RecapAccountsForAll
    BY <1>4, RecapIs
  <2>2. VerdictOnEvidence
    BY <2>1 DEF VerdictOnEvidence
  <2>. QED
    BY <1>1, <2>1, <2>2 DEF TypeOK
<1>. QED
  BY <1>2, <1>3, <1>4 DEF SaidOK

LEMMA ScanStays ==
  ASSUME NEW c, NEW rows, NEW more, rows \subseteq more, NEW t \in Nat, NEW u \in Nat,
         t <= u, ScanOK(c, rows, t)
  PROVE  ScanOK(c, more, u)
<1>1. c.at \in Nat
  BY ClockAssumption DEF ScanOK, ScanStates, Moments
<1>2. \A n \in Expected : Rests(c.verdict[n], n, NamesIn(c.kept), c.at, c.knew, more)
  BY RestsStays DEF ScanOK
<1>. QED
  BY <1>1, <1>2 DEF ScanOK

\* A step of another: the log has no less, and it is no earlier.
LEMMA ScansStay ==
  ASSUME ScansOK, scan' = scan, log \subseteq log', now \in Nat, now' \in Nat, now <= now'
  PROVE  ScansOK'
<1>1. ASSUME NEW s \in Scans, scan[s] # NoScan
      PROVE  ScanOK(scan[s], log', now')
  <2>1. ScanOK(scan[s], log, now)
    BY <1>1 DEF ScansOK
  <2>. QED
    BY <2>1, ScanStays
<1>. QED
  BY <1>1 DEF ScansOK, ScanOK

\* A step of one: the others hold what they did.
LEMMA ScansChange ==
  ASSUME ScansOK, NEW s \in Scans, log \subseteq log', now \in Nat, now' = now,
         NEW d, scan' = [scan EXCEPT ![s] = d], d = NoScan \/ ScanOK(d, log', now)
  PROVE  ScansOK'
<1>1. /\ scan \in [Scans -> {NoScan} \cup ScanStates]
      /\ \A r \in Scans : scan[r] = NoScan \/ ScanOK(scan[r], log, now)
  BY DEF ScansOK
<1>2. d \in {NoScan} \cup ScanStates
  BY DEF ScanOK
<1>3. scan' \in [Scans -> {NoScan} \cup ScanStates]
  BY <1>1, <1>2
<1>4. ASSUME NEW r \in Scans, scan'[r] # NoScan
      PROVE  ScanOK(scan'[r], log', now')
  <2>1. CASE r = s
    BY <1>1, <1>4, <2>1
  <2>2. CASE r # s
    <3>1. scan'[r] = scan[r]
      BY <1>1, <2>2
    <3>2. ScanOK(scan[r], log, now)
      BY <1>1, <1>4, <3>1
    <3>3. ScanOK(scan[r], log', now)
      BY <3>2, ScanStays
    <3>. QED
      BY <3>1, <3>3
  <2>. QED
    BY <2>1, <2>2
<1>. QED
  BY <1>3, <1>4 DEF ScansOK, ScanOK

\* What a handler commits.
LEMMA CommitKeeps ==
  ASSUME LogOK, NEW rows, rows \subseteq Rows, IsFiniteSet(rows),
         \A o \in rows : o.at <= now, Commit(rows)
  PROVE  LogOK' /\ log \subseteq log' /\ now' = now /\ now \in Nat
<1>1. log' = log \cup rows /\ now' = now
  BY DEF Commit
<1>2. IsFiniteSet(log \cup rows)
  BY FS_Union DEF LogOK
<1>. QED
  BY <1>1, <1>2, ClockAssumption DEF LogOK, Moments

LEMMA FrameRowsOK ==
  ASSUME NEW kept \in SUBSET Reports, IsFiniteSet(kept), NEW t \in Moments, t <= now
  PROVE  /\ FrameRows(kept, t) \subseteq Rows /\ IsFiniteSet(FrameRows(kept, t))
         /\ \A o \in FrameRows(kept, t) : o.at <= now
<1> DEFINE f == [r \in kept |-> ItemRow(r.name, r.detail, r.conf, "visual", t)]
<1>1. \A r \in kept : r.name \in Names /\ r.detail \in Details /\ r.conf \in 0 .. 10
  BY DEF Reports
<1>2. f \in Surjection(kept, FrameRows(kept, t))
  BY DEF Surjection, FrameRows
<1>3. IsFiniteSet(FrameRows(kept, t))
  <2> HIDE DEF f
  <2>. QED
    BY <1>2, FS_Surjection
<1>4. ASSUME NEW r \in kept, NEW o, o = ItemRow(r.name, r.detail, r.conf, "visual", t)
      PROVE  o \in Rows /\ o.at <= now
  <2>1. r.name \in Names /\ r.detail \in Details /\ r.conf \in 0 .. 10 /\ t \in Moments
    BY <1>1
  <2>2. o \in ItemRows
    BY <1>4, <2>1 DEF ItemRows, ItemRow, Methods
  <2>. QED
    BY <1>4, <2>2 DEF Rows, ItemRow
<1>5. FrameRows(kept, t) \subseteq Rows /\ \A o \in FrameRows(kept, t) : o.at <= now
  BY <1>4 DEF FrameRows
<1>. QED
  BY <1>3, <1>5

\* What vision kept of a frame.
LEMMA SeenTyped ==
  ASSUME NEW frame \in Frames, NEW kept \in Seen(frame)
  PROVE  kept \in SUBSET Reports /\ IsFiniteSet(kept) /\ NamesIn(kept) \in SUBSET Names
<1>1. frame \in SUBSET Reports /\ IsFiniteSet(frame) /\ kept \in SUBSET frame
  BY ReportsAssumption DEF Seen
<1>2. IsFiniteSet(kept)
  BY <1>1, FS_Subset
<1>. QED
  BY <1>1, <1>2 DEF Reports, NamesIn

LEMMA OtherRowOK ==
  ASSUME NEW t \in Moments, t <= now
  PROVE  /\ \A n \in Names : OtherRow("left", n, t) \in Rows /\ OtherRow("left", n, t).at <= now
         /\ \A n \in Doings : OtherRow("did", n, t) \in Rows /\ OtherRow("did", n, t).at <= now
BY DEF Rows, OtherRows, OtherRow

\* What a writer that is not a scan leaves true.
Kept == LogOK' /\ ScansOK' /\ SaidOK'

LEMMA WatchLogsKeeps ==
  ASSUME LogOK, ScansOK, NEW frame \in Frames, WatchLogs(frame)
  PROVE  Kept
<1>1. PICK kept \in Seen(frame) : \E due \in SUBSET kept, t \in Dates :
         \E gone \in SUBSET (Names \ {r.name : r \in kept}) :
           /\ due # {} \/ gone # {}
           /\ Commit(FrameRows(due, t) \cup {OtherRow("left", n, t) : n \in gone})
           /\ said' = Nothing /\ UNCHANGED scan
  BY DEF WatchLogs
<1>2. PICK due \in SUBSET kept, t \in Dates :
         \E gone \in SUBSET (Names \ {r.name : r \in kept}) :
           /\ due # {} \/ gone # {}
           /\ Commit(FrameRows(due, t) \cup {OtherRow("left", n, t) : n \in gone})
           /\ said' = Nothing /\ UNCHANGED scan
  BY <1>1
<1>3. PICK gone \in SUBSET Names :
         /\ Commit(FrameRows(due, t) \cup {OtherRow("left", n, t) : n \in gone})
         /\ said' = Nothing /\ scan' = scan
  BY <1>2
<1> DEFINE left == {OtherRow("left", n, t) : n \in gone}
           f == [n \in gone |-> OtherRow("left", n, t)]
<1>4. t \in Moments /\ t <= now /\ due \in SUBSET Reports /\ IsFiniteSet(due)
  BY SeenTyped, FS_Subset DEF Dates
<1>5. /\ FrameRows(due, t) \subseteq Rows /\ IsFiniteSet(FrameRows(due, t))
      /\ \A o \in FrameRows(due, t) : o.at <= now
  BY <1>4, FrameRowsOK
<1>6. left \subseteq Rows /\ \A o \in left : o.at <= now
  BY <1>4, OtherRowOK
<1>7. IsFiniteSet(left)
  <2>1. IsFiniteSet(gone)
    BY NamesAssumption, FS_Subset
  <2>2. f \in Surjection(gone, left)
    BY DEF Surjection
  <2> HIDE DEF f, left
  <2>. QED
    BY <2>1, <2>2, FS_Surjection
<1>8. IsFiniteSet(FrameRows(due, t) \cup left)
  <2> HIDE DEF left
  <2>. QED
    BY <1>5, <1>7, FS_Union
<1>9. LogOK' /\ log \subseteq log' /\ now' = now /\ now \in Nat
  <2>1. Commit(FrameRows(due, t) \cup left)
    BY <1>3
  <2> HIDE DEF left
  <2>. QED
    BY <1>5, <1>6, <1>8, <2>1, CommitKeeps
<1>10. ScansOK'
  BY <1>3, <1>9, ScansStay
<1>. QED
  BY <1>3, <1>9, <1>10 DEF Kept, SaidOK

-------------------------------------------------------------------------------
(* The steps of a leave scan. *)

LEMMA BeginScanKeeps ==
  ASSUME LogOK, ScansOK, NEW s \in Scans, NEW frame \in Frames, BeginScan(s, frame)
  PROVE  Kept
<1>1. PICK kept \in Seen(frame) :
         scan' = [scan EXCEPT ![s] =
            [kept |-> kept, at |-> now, knew |-> log,
             verdict |-> [n \in Expected |-> LookedFor(n, {r.name : r \in kept})]]]
  BY DEF BeginScan
<1>2. said' = Nothing /\ now' = now /\ log' = log
  BY DEF BeginScan
<1>3. PICK c : c = [kept |-> kept, at |-> now, knew |-> log,
                    verdict |-> [n \in Expected |-> LookedFor(n, NamesIn(kept))]]
  OBVIOUS
<1>4. scan' = [scan EXCEPT ![s] = c]
  BY <1>1, <1>3 DEF NamesIn
<1>5. kept \in SUBSET Reports /\ IsFiniteSet(kept) /\ NamesIn(kept) \in SUBSET Names
  BY SeenTyped
<1>6. now \in Moments /\ now \in Nat /\ log \subseteq ItemRows \cup OtherRows
  BY ClockAssumption DEF LogOK, Moments, Rows
<1>7. \A n \in Expected :
         /\ LookedFor(n, NamesIn(kept)) \in Verdicts \cup Unsettled
         /\ Rests(LookedFor(n, NamesIn(kept)), n, NamesIn(kept), now, log, log)
  <2> TAKE n \in Expected
  <2>1. n \in Names
    BY ReportsAssumption
  <2>. QED
    BY <1>5, <2>1, LookedForRests
<1>8. c \in ScanStates
  BY <1>3, <1>5, <1>6, <1>7 DEF ScanStates
<1>9. ScanOK(c, log, now)
  BY <1>3, <1>5, <1>6, <1>7, <1>8 DEF ScanOK
<1>10. ScansOK'
  BY <1>2, <1>4, <1>6, <1>9, ScansChange
<1>11. LogOK'
  BY <1>2 DEF LogOK
<1>. QED
  BY <1>2, <1>10, <1>11 DEF Kept, SaidOK

\* One more answer.
LEMMA AnswerKeeps ==
  ASSUME LogOK, ScansOK, NEW s \in Scans, scan[s] # NoScan, NEW n \in Expected,
         NEW v \in Verdicts \cup Unsettled,
         Rests(v, n, NamesIn(scan[s].kept), scan[s].at, scan[s].knew, log),
         scan' = [scan EXCEPT ![s].verdict[n] = v],
         said' = Nothing, now' = now, log' = log
  PROVE  Kept
<1>1. PICK c : c = scan[s]
  OBVIOUS
<1>2. PICK d : d = [c EXCEPT !.verdict = [c.verdict EXCEPT ![n] = v]]
  OBVIOUS
<1>3. ScanOK(c, log, now) /\ now \in Nat
  BY <1>1, ClockAssumption DEF ScansOK, LogOK, Moments
<1>4. scan' = [scan EXCEPT ![s] = d]
  BY <1>1, <1>2
<1>5. /\ c \in ScanStates /\ c.verdict \in [Expected -> Verdicts \cup Unsettled]
      /\ \A m \in Expected : Rests(c.verdict[m], m, NamesIn(c.kept), c.at, c.knew, log)
  BY <1>3 DEF ScanOK, ScanStates
<1>6. /\ d \in ScanStates /\ d.kept = c.kept /\ d.at = c.at /\ d.knew = c.knew
      /\ \A m \in Expected : d.verdict[m] = IF m = n THEN v ELSE c.verdict[m]
  BY <1>2, <1>5 DEF ScanStates
<1>7. \A m \in Expected : Rests(d.verdict[m], m, NamesIn(d.kept), d.at, d.knew, log)
  BY <1>1, <1>5, <1>6
<1>8. ScanOK(d, log, now)
  BY <1>3, <1>6, <1>7 DEF ScanOK
<1>9. ScansOK'
  BY <1>3, <1>4, <1>8, ScansChange
<1>10. LogOK'
  BY DEF LogOK
<1>. QED
  BY <1>9, <1>10 DEF Kept, SaidOK

LEMMA AskCarriedKeeps ==
  ASSUME LogOK, ScansOK, NEW s \in Scans, NEW n \in Expected, AskCarried(s, n)
  PROVE  Kept
<1>1. PICK v \in Checked(n, scan[s].at) : scan' = [scan EXCEPT ![s].verdict[n] = v]
  BY DEF AskCarried
<1>2. /\ scan[s] # NoScan /\ scan[s].verdict[n].is = "open"
      /\ said' = Nothing /\ now' = now /\ log' = log
  BY DEF AskCarried
<1>3. ScanOK(scan[s], log, now) /\ n \in Names
  BY <1>2, ReportsAssumption DEF ScansOK
<1>4. /\ n \notin NamesIn(scan[s].kept) /\ scan[s].at \in Moments
      /\ scan[s].knew \in SUBSET log
  BY <1>2, <1>3 DEF ScanOK, Rests, ScanStates
<1>5. v \in Verdicts \cup Unsettled
      /\ Rests(v, n, NamesIn(scan[s].kept), scan[s].at, scan[s].knew, log)
  BY <1>3, <1>4, CheckedRests
<1>. QED
  BY <1>1, <1>2, <1>5, AnswerKeeps

LEMMA AskHintKeeps ==
  ASSUME LogOK, ScansOK, NEW s \in Scans, NEW n \in Expected, AskHint(s, n)
  PROVE  Kept
<1>1. PICK v \in Hinted(n) : scan' = [scan EXCEPT ![s].verdict[n] = v]
  BY DEF AskHint
<1>2. /\ scan[s] # NoScan /\ scan[s].verdict[n].is = "absent"
      /\ said' = Nothing /\ now' = now /\ log' = log
  BY DEF AskHint
<1>3. ScanOK(scan[s], log, now) /\ n \in Names
  BY <1>2, ReportsAssumption DEF ScansOK
<1>4. /\ n \notin NamesIn(scan[s].kept) /\ scan[s].knew \in SUBSET log
      /\ Sightings(scan[s].knew, n) # {} /\ ~Confusable(n) =>
           Doubted(n, scan[s].at, Sightings(scan[s].knew, n), log)
  BY <1>2, <1>3 DEF ScanOK, Rests
<1>5. v \in Verdicts \cup Unsettled
      /\ Rests(v, n, NamesIn(scan[s].kept), scan[s].at, scan[s].knew, log)
  BY <1>3, <1>4, HintedRests
<1>. QED
  BY <1>1, <1>2, <1>5, AnswerKeeps

\* What it tells at its end rests on the log as that is now, with its own rows.
LEMMA FileScanKeeps ==
  ASSUME LogOK, ScansOK, NEW s \in Scans, NEW departure \in Doings, FileScan(s, departure)
  PROVE  Kept
<1>1. PICK c : c = scan[s]
  OBVIOUS
<1> DEFINE left == OtherRow("did", departure, c.at)
           rows == FrameRows(c.kept, c.at) \cup {left}
<1>2. /\ c # NoScan /\ \A n \in Expected : c.verdict[n].is \notin {"open", "absent"}
      /\ Commit(rows)
      /\ said' = [what |-> "scan", seen |-> NamesIn(c.kept), at |-> c.at, knew |-> c.knew,
                  verdict |-> c.verdict]
      /\ scan' = [scan EXCEPT ![s] = NoScan]
  BY <1>1 DEF FileScan, NamesIn
<1>3. ScanOK(c, log, now)
  BY <1>1, <1>2 DEF ScansOK
<1>4. /\ c.kept \in SUBSET Reports /\ IsFiniteSet(c.kept) /\ c.at \in Moments /\ c.at <= now
      /\ c.knew \subseteq log /\ c.knew \in SUBSET Rows
      /\ c.verdict \in [Expected -> Verdicts \cup Unsettled]
  BY <1>3 DEF ScanOK, ScanStates, Rows
<1>5. /\ FrameRows(c.kept, c.at) \subseteq Rows /\ IsFiniteSet(FrameRows(c.kept, c.at))
      /\ \A o \in FrameRows(c.kept, c.at) : o.at <= now
  BY <1>4, FrameRowsOK
<1>6. left \in Rows /\ left.at <= now
  BY <1>4, OtherRowOK
<1> HIDE DEF left
<1>7. IsFiniteSet(rows)
  <2>1. IsFiniteSet({left})
    BY FS_Singleton
  <2>. QED
    BY <1>5, <2>1, FS_Union
<1>8. rows \subseteq Rows /\ \A o \in rows : o.at <= now
  BY <1>5, <1>6
<1>9. LogOK' /\ log \subseteq log' /\ now' = now /\ now \in Nat
  <2> HIDE DEF rows
  <2>. QED
    BY <1>2, <1>7, <1>8, CommitKeeps
<1>10. ScansOK'
  BY <1>2, <1>9, ScansChange
<1>11. c.verdict \in [Expected -> Verdicts]
  <2>1. \A v \in Unsettled : v.is \in {"open", "absent"}
    BY DEF Unsettled
  <2>2. \A n \in Expected : c.verdict[n] \in Verdicts
    BY <1>2, <1>4, <2>1
  <2>. QED
    BY <1>4, <2>2
<1>12. \A n \in Expected : Rests(c.verdict[n], n, NamesIn(c.kept), c.at, c.knew, log')
  BY <1>3, <1>9, RestsStays DEF ScanOK
<1>13. NamesIn(c.kept) \in SUBSET Names
  BY <1>4 DEF NamesIn, Reports
<1>14. PICK seen, at, knew, verdict :
         seen = NamesIn(c.kept) /\ at = c.at /\ knew = c.knew /\ verdict = c.verdict
  OBVIOUS
<1>15. ScanSaid(seen, at, knew, verdict)'
  BY <1>2, <1>4, <1>9, <1>12, <1>14 DEF ScanSaid
<1>16. SaidOK'
  BY <1>4, <1>11, <1>13, <1>14, <1>15 DEF SaidOK
<1>. QED
  BY <1>9, <1>10, <1>16 DEF Kept

LEMMA ScanDiesKeeps ==
  ASSUME LogOK, ScansOK, NEW s \in Scans, ScanDies(s)
  PROVE  Kept
<1>1. scan' = [scan EXCEPT ![s] = NoScan] /\ said' = Nothing /\ now' = now /\ log' = log
  BY DEF ScanDies
<1>2. now \in Nat /\ LogOK'
  BY <1>1, ClockAssumption DEF LogOK, Moments
<1>3. ScansOK'
  BY <1>1, <1>2, ScansChange
<1>. QED
  BY <1>1, <1>2, <1>3 DEF Kept, SaidOK

-------------------------------------------------------------------------------
(* What is told, and the evening. *)

LEMMA TellItemKeeps ==
  ASSUME LogOK, ScansOK, NEW saying \in Sayings, TellItem(saying)
  PROVE  Kept
<1>1. PICK t \in Dates : /\ Commit({ItemRow(saying.name, saying.detail, 9, "voice", t)})
                         /\ said' = Nothing /\ scan' = scan
  BY DEF TellItem
<1> DEFINE o == ItemRow(saying.name, saying.detail, 9, "voice", t)
<1>2. o \in Rows /\ o.at <= now
  <2>1. saying.name \in Names /\ saying.detail \in Details /\ t \in Moments /\ t <= now
    BY ReportsAssumption DEF Dates
  <2>2. o \in ItemRows
    BY <2>1 DEF ItemRows, ItemRow, Methods
  <2>. QED
    BY <2>1, <2>2 DEF Rows, ItemRow
<1> HIDE DEF o
<1>3. Commit({o}) /\ said' = Nothing /\ scan' = scan
  BY <1>1 DEF o
<1>4. IsFiniteSet({o}) /\ {o} \subseteq Rows /\ \A p \in {o} : p.at <= now
  BY <1>2, FS_Singleton
<1>5. LogOK' /\ log \subseteq log' /\ now' = now /\ now \in Nat
  BY <1>3, <1>4, CommitKeeps
<1>6. ScansOK'
  BY <1>3, <1>5, ScansStay
<1>. QED
  BY <1>3, <1>5, <1>6 DEF Kept, SaidOK

LEMMA TellDoingKeeps ==
  ASSUME LogOK, ScansOK, NEW doing \in Doings, TellDoing(doing)
  PROVE  Kept
<1>1. PICK t \in Dates : /\ Commit({OtherRow("did", doing, t)})
                         /\ said' = Nothing /\ scan' = scan
  BY DEF TellDoing
<1> DEFINE o == OtherRow("did", doing, t)
<1>2. o \in Rows /\ o.at <= now
  BY OtherRowOK DEF Dates
<1> HIDE DEF o
<1>3. Commit({o}) /\ said' = Nothing /\ scan' = scan
  BY <1>1 DEF o
<1>4. IsFiniteSet({o}) /\ {o} \subseteq Rows /\ \A p \in {o} : p.at <= now
  BY <1>2, FS_Singleton
<1>5. LogOK' /\ log \subseteq log' /\ now' = now /\ now \in Nat
  BY <1>3, <1>4, CommitKeeps
<1>6. ScansOK'
  BY <1>3, <1>5, ScansStay
<1>. QED
  BY <1>3, <1>5, <1>6 DEF Kept, SaidOK

LEMMA SameTimelines ==
  ASSUME log' = log, NEW d
  PROVE  DailyTimeline(d)' = DailyTimeline(d)
BY DEF DailyTimeline, ObservationsBetween, IsSorted

LEMMA EveningRecapKeeps ==
  ASSUME LogOK, ScansOK, EveningRecap
  PROVE  Kept
<1>1. PICK entries \in DailyTimeline(DayOf(now)) :
         /\ said' \in {Nothing} \cup IF entries = <<>> THEN {}
                                    ELSE DailyRecap(DayOf(now), entries)
         /\ UNCHANGED <<now, log, scan>>
  BY DEF EveningRecap
<1>2. LogOK' /\ now \in Nat
  BY <1>1, ClockAssumption DEF LogOK, Moments
<1>3. ScansOK'
  BY <1>1, <1>2, ScansStay
<1>4. CASE entries # <<>> /\ said' \in DailyRecap(DayOf(now), entries)
  <2>1. PICK d \in Days : d = DayOf(now)
    BY DayOfIs DEF LogOK
  <2>2. said' \in DailyRecap(d, entries)
    BY <1>4, <2>1
  <2>3. entries \in DailyTimeline(d)
    BY <2>1
  <2>4. entries \in DailyTimeline(d)'
    BY <1>1, <2>3, SameTimelines
  <2>5. \E e \in DailyTimeline(d)' : e # <<>> /\ said' \in DailyRecap(d, e)
    BY <1>4, <2>2, <2>4
  <2>. QED
    BY <1>2, <1>3, <2>1, <2>5 DEF Kept, SaidOK
<1>5. CASE said' = Nothing
  BY <1>2, <1>3, <1>5 DEF Kept, SaidOK
<1>. QED
  BY <1>1, <1>4, <1>5

\* The log is well formed, and what scans hold and what was said was said of it, in
\* every reachable state.
THEOREM Inductive == Spec => [](LogOK /\ ScansOK /\ SaidOK)
<1>1. Init => LogOK /\ ScansOK /\ SaidOK
  BY ClockAssumption, FS_EmptySet DEF Init, LogOK, ScansOK, SaidOK, Moments
<1>2. ASSUME LogOK /\ ScansOK /\ SaidOK, [Next]_vars
      PROVE  (LogOK /\ ScansOK /\ SaidOK)'
  <2>1. CASE Tick
    <3>1. /\ now \in Nat /\ now' = now + 1 /\ now' \in Moments /\ log' = log
          /\ said' = Nothing /\ scan' = scan
      BY <1>2, <2>1, ClockAssumption DEF Tick, LogOK, Moments
    <3>2. \A o \in log : o.at \in Nat /\ o.at <= now
      BY <1>2, RowsTyped DEF LogOK
    <3>3. LogOK'
      BY <1>2, <3>1, <3>2 DEF LogOK
    <3>4. ScansOK'
      BY <1>2, <3>1, ScansStay
    <3>. QED
      BY <3>1, <3>3, <3>4 DEF SaidOK
  <2>2. ASSUME NEW frame \in Frames, WatchLogs(frame)
        PROVE  Kept
    BY <1>2, <2>2, WatchLogsKeeps
  <2>3. ASSUME NEW s \in Scans,
               \/ \E frame \in Frames : BeginScan(s, frame)
               \/ \E n \in Expected : AskCarried(s, n) \/ AskHint(s, n)
               \/ \E departure \in Doings : FileScan(s, departure)
               \/ ScanDies(s)
        PROVE  Kept
    BY <1>2, <2>3, BeginScanKeeps, AskCarriedKeeps, AskHintKeeps, FileScanKeeps,
       ScanDiesKeeps
  <2>4. ASSUME NEW saying \in Sayings, TellItem(saying)
        PROVE  Kept
    BY <1>2, <2>4, TellItemKeeps
  <2>5. ASSUME NEW doing \in Doings, TellDoing(doing)
        PROVE  Kept
    BY <1>2, <2>5, TellDoingKeeps
  <2>6. CASE EveningRecap
    BY <1>2, <2>6, EveningRecapKeeps DEF Kept
  <2>7. CASE UNCHANGED vars
    <3>1. now' = now /\ log' = log /\ said' = said /\ scan' = scan
      BY <2>7 DEF vars
    <3>2. LogOK' /\ now \in Nat
      BY <1>2, <3>1, ClockAssumption DEF LogOK, Moments
    <3>3. \A d : DailyTimeline(d)' = DailyTimeline(d)
      BY <3>1, SameTimelines
    <3>4. ScansOK'
      BY <1>2, <3>1, <3>2, ScansStay
    <3>5. SaidOK'
      BY <1>2, <3>1, <3>3 DEF SaidOK, ScanSaid, Rests, Doubted
    <3>. QED
      BY <3>2, <3>4, <3>5 DEF Kept
  <2>8. Kept
    BY <1>2, <2>1, <2>2, <2>3, <2>4, <2>5, <2>6, <2>7 DEF Next, Kept
  <2>. QED
    BY <2>8 DEF Kept
<1>. QED
  BY <1>1, <1>2, PTL DEF Spec

\* Every state has its type; a recap that is posted has something to say.
THEOREM TypeCorrect == Spec => []TypeOK
BY Inductive, SaidIsTrue, PTL

\* The verdict of a leave scan rests on the frame and on the newest the log has of the
\* very item (_is_present, _carried_check, _last_seen_hint), for every half-life, any
\* number of scans at once, and whatever others write between their questions.
THEOREM VerdictsRest == Spec => []VerdictOnEvidence
BY Inductive, SaidIsTrue, PTL

\* Every row is told on its own local day and on no other (daily_timeline), whatever
\* the calendar, unless the day has more rows than are read.
THEOREM DaysAreTold == Spec => []ToldOnItsDay
BY Inductive, DaysTold, PTL

\* A day may be read back in every state (daily_timeline), so the theorem before this one
\* and the one after it are of something.
THEOREM DaysAreRead == Spec => [](\A d \in Days : DailyTimeline(d) # {})
BY Inductive, DayIsRead, PTL

\* What is posted of a day (daily_recap, bullets_from_lines, _names) accounts for what
\* was logged of it, whatever the limits.
THEOREM RecapIsTrue == Spec => []RecapAccountsForAll
BY Inductive, SaidIsTrue, PTL

===============================================================================
