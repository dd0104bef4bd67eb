------------------------ MODULE SimulationTimeProofs ------------------------
(***************************************************************************)
(* For any history, speeds and start times: the clock is anchored in the   *)
(* past and the recorder holds only what was over; a panel's time moves    *)
(* with the wall clock at the rate in force unless it is set; and what it  *)
(* replays lies between values recorded around that time, a whole number   *)
(* of windows away.                                                        *)
(***************************************************************************)
EXTENDS SimulationTime, FiniteSetTheorems, WellFoundedInduction, TLAPS

\* The latest of some times that are all before a bound is one of them.
LEMMA LatestIsOne ==
    ASSUME NEW S, S \subseteq Int, S # {}, NEW bound \in Int, \A x \in S : x <= bound
    PROVE  Max(S) \in S
<1> DEFINE T == {n \in Nat : \E x \in S : x = bound - n}
           Less == OpToRel(<, Nat)
<1>1. PICK s \in S : TRUE
  OBVIOUS
<1>2. bound - s \in T
  <2>1. s \in Int /\ s <= bound
    OBVIOUS
  <2>2. bound - s \in Nat /\ s = bound - (bound - s)
    BY <2>1
  <2> QED
    BY <2>2
<1>3. PICK d \in T : \A y \in T : ~ (<<y, d>> \in Less)
  <2>1. T \subseteq Nat /\ T # {}
    BY <1>2
  <2>2. IsWellFoundedOn(Less, Nat)
    BY NatLessThanWellFounded
  <2> HIDE DEF T, Less
  <2> QED
    BY <2>1, <2>2, WFMin, Zenon
<1>4. ASSUME NEW y \in T
      PROVE  y >= d
  <2>1. y \in Nat /\ d \in Nat
    OBVIOUS
  <2>2. y < d => <<y, d>> \in Less
    BY <2>1 DEF OpToRel
  <2>3. ~ (y < d)
    <3> HIDE DEF T, Less
    <3> QED
      BY <1>3, <2>2
  <2> HIDE DEF T, Less
  <2> QED
    BY <2>1, <2>3
<1>5. PICK m \in S : m = bound - d
  OBVIOUS
<1>6. ASSUME NEW x \in S
      PROVE  m >= x
  <2>1. bound - x \in T
    <3>1. x \in Int /\ x <= bound
      OBVIOUS
    <3>2. bound - x \in Nat /\ x = bound - (bound - x)
      BY <3>1
    <3> QED
      BY <3>2
  <2>2. bound - x >= d
    BY <1>4, <2>1
  <2> QED
    BY <1>5, <2>2
<1> QED
  BY <1>6 DEF Max

\* A query's answer holds what its entity was recorded in, and is over by now.
LEMMA StatisticsAreOver ==
    ASSUME TimeAssumption, NEW e \in Entities, NEW from, NEW lookback
    PROVE  /\ Statistics(e, from, lookback) \in SUBSET Int
           /\ \A p \in Statistics(e, from, lookback) : p \in History[e] /\ p + Period <= wall
  BY DEF Statistics, TimeAssumption

\* What a load leaves in the recorder is still recorded and over.
LEMMA LoadKeepsSeries ==
    ASSUME TimeAssumption, SimTypeOK, NEW from, NEW lookback, Load(from, lookback)
    PROVE  /\ series' \in [Entities -> SUBSET Int]
           /\ \A e \in Entities : \A p \in series'[e] : p \in History[e] /\ p + Period <= wall
  BY StatisticsAreOver DEF Load, SimTypeOK

\* The end of the recorded window is a time.
LEMMA WindowEnds ==
    ASSUME TimeAssumption, SimTypeOK, IsLoaded
    PROVE  Max(Held) \in Int
<1>1. Held \in SUBSET Int /\ Held # {}
  BY DEF Held, IsLoaded, SimTypeOK
<1>2. wall \in Int /\ \A x \in Held : x <= wall
  BY <1>1 DEF Held, SimTypeOK, Walls, TimeAssumption
<1> QED
  BY <1>1, <1>2, LatestIsOne

\* The time a panel shows is a number.
LEMMA TimeIsInt ==
    ASSUME TimeAssumption, SimTypeOK
    PROVE  CurrentTime \in Int
<1>1. wall - realStart \in Int /\ accel \in Int
  BY DEF SimTypeOK, Walls, TimeAssumption
<1>2. (wall - realStart) * accel \in Int
  BY <1>1
<1> QED
  BY <1>1, <1>2 DEF SimTypeOK, Walls, CurrentTime, TimeAssumption

\* Types, the anchor in the past, and periods that are over.
THEOREM SimTypeCorrect == Spec => []SimTypeOK
<1>1. Init => SimTypeOK
  <2> SUFFICES ASSUME Init
               PROVE  SimTypeOK
    OBVIOUS
  <2>1. wall \in Walls /\ since \in Walls /\ realStart \in Int /\ realStart <= wall
    BY TimeAssumption DEF Init, Walls, TimeAssumption
  <2>2. series \in [Entities -> SUBSET Int] /\ \A e \in Entities : series[e] = {}
    BY DEF Init
  <2>3. expansions \subseteq [since: Walls, lookback: Horizons] /\ accel \in Speeds \union {1} /\ offset \in Int
    BY DEF Init
  <2>4. useSim \in BOOLEAN /\ panel \in {"stopped", "loading", "starting", "running"}
    BY DEF Init
  <2>5. \A e \in Entities : \A p \in series[e] : p \in History[e] /\ p + Period <= wall
    BY <2>2
  <2> QED
    BY <2>1, <2>2, <2>3, <2>4, <2>5 DEF SimTypeOK
<1>2. SimTypeOK /\ [Next]_vars => SimTypeOK'
  <2> SUFFICES ASSUME SimTypeOK, [Next]_vars
               PROVE  SimTypeOK'
    OBVIOUS
  <2> USE TimeAssumption
  <2>1. CASE Pass
    BY <2>1 DEF Pass, SimTypeOK, Walls, clock, TimeAssumption
  <2>2. CASE BeginStart
    BY <2>2 DEF BeginStart, SimTypeOK, clock
  <2>3. CASE StartLoaded
    <3>1. /\ series' \in [Entities -> SUBSET Int]
          /\ \A e \in Entities : \A p \in series'[e] : p \in History[e] /\ p + Period <= wall
      <4>1. CASE Load(since, Lookback)
        BY <4>1, LoadKeepsSeries
      <4>2. CASE UNCHANGED series
        BY <4>2 DEF SimTypeOK
      <4> QED
        BY <2>3, <4>1, <4>2 DEF StartLoaded
    <3>2. wall' = wall /\ wall \in Int /\ since' \in Walls
      BY <2>3 DEF StartLoaded, SimTypeOK, Walls, TimeAssumption
    <3>3. /\ realStart' \in Int /\ realStart' <= wall'
          /\ offset' \in Int /\ accel' \in Speeds \union {1}
      BY <2>3, <3>2 DEF StartLoaded
    <3>4. expansions' = expansions /\ panel' = "starting" /\ useSim' \in BOOLEAN
      BY <2>3, Zenon DEF StartLoaded
    <3> QED
      BY <3>1, <3>2, <3>3, <3>4 DEF SimTypeOK
  <2>4. ASSUME NEW p \in Params, Initialize(p)
        PROVE  SimTypeOK'
    <3>1. p.accel \in Speeds /\ p.use \in BOOLEAN
      BY DEF TimeAssumption
    <3>2. useSim' \in BOOLEAN /\ realStart' \in Int /\ realStart' <= wall /\ offset' \in Int
      <4>1. CASE IsLoaded
        BY <2>4, <4>1, WindowEnds DEF Initialize, Anchor, SimTypeOK, Walls, TimeAssumption
      <4>2. CASE ~IsLoaded
        <5>1. p.start # Never => p.start \in Int
          BY DEF TimeAssumption
        <5>2. realStart' = realStart /\ wall' = wall /\ useSim' = p.use
          BY <2>4, <4>2 DEF Initialize
        <5>3. offset' \in Int
          BY <2>4, <4>2, <5>1 DEF Initialize, SimTypeOK
        <5> QED
          BY <3>1, <5>2, <5>3 DEF SimTypeOK
      <4> QED
        BY <4>1, <4>2
    <3> QED
      BY <2>4, <3>1, <3>2 DEF Initialize, SimTypeOK
  <2>5. CASE Stop
    <3>1. wall' = wall /\ wall \in Walls /\ FirstWall \in Int /\ FirstWall <= wall
      BY <2>5 DEF Stop, SimTypeOK, Walls, TimeAssumption
    <3>2. series' \in [Entities -> SUBSET Int] /\ \A e \in Entities : series'[e] = {}
      BY <2>5 DEF Stop
    <3>3. useSim' \in BOOLEAN
      BY <2>5, Zenon DEF Stop
    <3>4. /\ panel' = "stopped" /\ since' = since /\ expansions' = {}
          /\ realStart' = FirstWall /\ offset' = 0 /\ accel' = 1
      BY <2>5 DEF Stop
    <3> QED
      BY <3>1, <3>2, <3>3, <3>4 DEF SimTypeOK
  <2>6. CASE TimeSet
    <3>1. wall \in Int
      BY DEF SimTypeOK, Walls, TimeAssumption
    <3>2. CASE SetTimeRefused
      <4>1. realStart' \in Int /\ realStart' <= wall'
        BY <3>1, <3>2 DEF SetTimeRefused
      <4>2. useSim' \in BOOLEAN
        BY <3>2, Zenon DEF SetTimeRefused
      <4>3. UNCHANGED <<wall, panel, since, series, expansions, offset, accel>>
        BY <3>2 DEF SetTimeRefused
      <4> QED
        BY <4>1, <4>2, <4>3 DEF SimTypeOK
    <3>3. ASSUME NEW t \in Times, SetTime(t)
          PROVE  SimTypeOK'
      <4>1. t \in Int
        BY DEF TimeAssumption
      <4>2. useSim' \in BOOLEAN /\ realStart' \in Int /\ realStart' <= wall' /\ offset' \in Int
        BY <3>1, <3>3, <4>1 DEF SetTime, Anchor
      <4>3. UNCHANGED <<wall, panel, since, series, expansions, accel>>
        BY <3>3 DEF SetTime
      <4> QED
        BY <4>2, <4>3 DEF SimTypeOK
    <3> QED
      BY <2>6, <3>2, <3>3 DEF TimeSet
  <2>7. ASSUME NEW a \in Speeds, SetAcceleration(a)
        PROVE  SimTypeOK'
    <3>1. wall \in Int /\ CurrentTime \in Int
      BY TimeIsInt DEF SimTypeOK, Walls, TimeAssumption
    <3>2. useSim' \in BOOLEAN /\ realStart' \in Int /\ realStart' <= wall' /\ offset' \in Int
      BY <2>7, <3>1 DEF SetAcceleration
    <3>3. UNCHANGED <<wall, panel, since, series, expansions>> /\ accel' \in Speeds
      BY <2>7 DEF SetAcceleration
    <3> QED
      BY <3>2, <3>3 DEF SimTypeOK
  <2>8. ASSUME NEW h \in Horizons, Expand(h)
        PROVE  SimTypeOK'
    BY <2>8 DEF Expand, SimTypeOK, clock
  <2>9. ASSUME NEW x \in expansions, ExpansionLoaded(x)
        PROVE  SimTypeOK'
    BY <2>9, LoadKeepsSeries DEF ExpansionLoaded, SimTypeOK, clock
  <2>10. ASSUME NEW x \in expansions, ExpansionFails(x)
         PROVE  SimTypeOK'
    BY <2>10 DEF ExpansionFails, SimTypeOK, clock
  <2>11. CASE UNCHANGED vars
    BY <2>11 DEF vars, clock, SimTypeOK
  <2> QED
    BY <2>1, <2>2, <2>3, <2>4, <2>5, <2>6, <2>7, <2>8, <2>9, <2>10, <2>11 DEF Next
<1> QED
  BY <1>1, <1>2, PTL DEF Spec

\* A number of steps of no length, and a step more, at a rate.
LEMMA StepsAtARate ==
    ASSUME NEW x \in Int, NEW a \in Int
    PROVE  0 * a = 0 /\ a * 0 = 0 /\ x * a \in Int /\ (x + 1) * a = x * a + a
  OBVIOUS

\* Nothing that leaves the clock and the wall clock alone moves a panel's time.
LEMMA ClockAloneKeepsTime ==
    ASSUME TimeAssumption, SimTypeOK, UNCHANGED <<wall, clock>>
    PROVE  CurrentTime' - CurrentTime = Rate * (wall' - wall)
<1>1. CurrentTime' = CurrentTime
  BY DEF CurrentTime, clock
<1>2. wall \in Int /\ wall' = wall
  BY DEF SimTypeOK, Walls, TimeAssumption
<1>3. Rate \in Int
  <2>1. accel \in Int
    BY DEF SimTypeOK, TimeAssumption
  <2> QED
    BY <2>1 DEF Rate
<1>4. wall' - wall = 0 /\ CurrentTime' - CurrentTime = 0
  BY <1>1, <1>2, TimeIsInt
<1> QED
  BY <1>3, <1>4, StepsAtARate

\* A running panel's time moves at the rate in force unless it is set: a change
\* of speed, a move from wall time to simulated time and a replaced series leave
\* it where it was.
THEOREM ClockRateCorrect == Spec => ClockKeepsItsRate
<1>1. TimeAssumption /\ SimTypeOK /\ [Next]_vars
        => [panel = "running" /\ panel' = "running" /\ ~TimeSet
              => CurrentTime' - CurrentTime = Rate * (wall' - wall)]_vars
  <2> SUFFICES ASSUME TimeAssumption, SimTypeOK, Next,
                      panel = "running", panel' = "running", ~TimeSet
               PROVE  CurrentTime' - CurrentTime = Rate * (wall' - wall)
    OBVIOUS
  <2>0. /\ wall \in Int /\ realStart \in Int /\ offset \in Int /\ accel \in Int
        /\ CurrentTime \in Int
    BY TimeIsInt DEF SimTypeOK, Walls, TimeAssumption
  <2>1. CASE Pass
    <3>1. wall' = wall + 1 /\ UNCHANGED clock
      BY <2>1 DEF Pass
    <3>2. CASE ~useSim
      BY <2>0, <3>1, <3>2 DEF CurrentTime, Rate, clock
    <3>3. CASE useSim
      <4>1. /\ CurrentTime = realStart + offset + (wall - realStart) * accel
            /\ CurrentTime' = realStart + offset + (wall + 1 - realStart) * accel
            /\ Rate = accel
        <5>1. useSim'
          BY <3>1, <3>3, Zenon DEF clock
        <5>2. wall' = wall + 1 /\ realStart' = realStart /\ offset' = offset /\ accel' = accel
          BY <3>1 DEF clock
        <5>3. CurrentTime = realStart + offset + (wall - realStart) * accel
          BY <3>3, Zenon DEF CurrentTime
        <5>4. CurrentTime' = realStart' + offset' + (wall' - realStart') * accel'
          BY <5>1, Zenon DEF CurrentTime
        <5>5. CurrentTime' = realStart + offset + (wall + 1 - realStart) * accel
          BY <2>0, <5>2, <5>4
        <5>6. Rate = accel
          BY <3>3, Zenon DEF Rate
        <5> QED
          BY <5>3, <5>5, <5>6, Zenon
      <4>2. wall - realStart \in Int /\ wall + 1 - realStart = (wall - realStart) + 1
        BY <2>0
      <4>3. /\ (wall - realStart) * accel \in Int
            /\ ((wall - realStart) + 1) * accel = (wall - realStart) * accel + accel
        BY <2>0, <4>2, StepsAtARate
      <4>4. CurrentTime' - CurrentTime = accel
        <5> DEFINE soFar == (wall - realStart) * accel
        <5>1. soFar \in Int /\ CurrentTime = realStart + offset + soFar
          BY <4>1, <4>3
        <5>2. CurrentTime' = realStart + offset + (soFar + accel)
          BY <4>1, <4>2, <4>3
        <5> HIDE DEF soFar
        <5> QED
          BY <2>0, <5>1, <5>2
      <4>5. Rate * (wall' - wall) = accel
        BY <2>0, <3>1, <4>1
      <4> QED
        BY <4>4, <4>5
    <3> QED
      BY <3>2, <3>3
  <2>2. CASE BeginStart \/ StartLoaded \/ (\E p \in Params : Initialize(p)) \/ Stop
    BY <2>2 DEF BeginStart, StartLoaded, Initialize, Stop
  <2>3. ASSUME NEW a \in Speeds, SetAcceleration(a)
        PROVE  CurrentTime' - CurrentTime = Rate * (wall' - wall)
    <3>1. /\ useSim' = TRUE /\ wall' = wall /\ realStart' = wall /\ accel' = a
          /\ offset' = IF useSim THEN CurrentTime - wall ELSE 0
      BY <2>3 DEF SetAcceleration
    <3>2. a \in Int /\ Rate \in Int
      BY <2>0 DEF Rate, TimeAssumption
    <3>3. CurrentTime' = wall + offset' + (wall - wall) * a
      BY <3>1 DEF CurrentTime
    <3>4. (wall - wall) * a = 0
      BY <2>0, <3>2
    <3>5. wall + offset' = CurrentTime
      BY <2>0, <3>1 DEF CurrentTime
    <3>6. CurrentTime' = CurrentTime
      BY <2>0, <3>3, <3>4, <3>5
    <3> QED
      BY <2>0, <3>1, <3>2, <3>6, StepsAtARate
  <2>4. ASSUME NEW h \in Horizons, Expand(h)
        PROVE  CurrentTime' - CurrentTime = Rate * (wall' - wall)
    BY <2>4, ClockAloneKeepsTime DEF Expand
  <2>5. ASSUME NEW x \in expansions, ExpansionLoaded(x) \/ ExpansionFails(x)
        PROVE  CurrentTime' - CurrentTime = Rate * (wall' - wall)
    BY <2>5, ClockAloneKeepsTime DEF ExpansionLoaded, ExpansionFails
  <2> QED
    BY <2>1, <2>2, <2>3, <2>4, <2>5 DEF Next
<1> QED
  BY <1>1, SimTypeCorrect, TimeAssumption, PTL DEF Spec, ClockKeepsItsRate
-----------------------------------------------------------------------------
(***************************************************************************)
(* What is replayed.                                                       *)
(***************************************************************************)

\* Its first and last element are elements of a set, and nothing is beyond them.
HasEnds(S) ==
    /\ Min(S) \in S /\ \A x \in S : Min(S) <= x
    /\ Max(S) \in S /\ \A x \in S : x <= Max(S)

\* A finite set of times has a first and a last one: by the size of a smallest
\* set that has not.
LEMMA FiniteHasEnds ==
    ASSUME NEW S, S \subseteq Int, IsFiniteSet(S), S # {}
    PROVE  HasEnds(S)
<1> DEFINE Bounded(T) == \E a, b \in T : \A x \in T : a <= x /\ x <= b
           Sizes == {n \in Nat : \E T \in SUBSET S : /\ IsFiniteSet(T) /\ T # {} /\ ~Bounded(T)
                                                    /\ Cardinality(T) = n}
           Less == OpToRel(<, Nat)
<1>1. Sizes = {}
  <2> SUFFICES ASSUME Sizes # {}
               PROVE  FALSE
    OBVIOUS
  <2>1. PICK n \in Sizes : \A m \in Sizes : ~ (<<m, n>> \in Less)
    <3>1. Sizes \subseteq Nat
      OBVIOUS
    <3>2. IsWellFoundedOn(Less, Nat)
      BY NatLessThanWellFounded
    <3> HIDE DEF Sizes, Less
    <3> QED
      BY <3>1, <3>2, WFMin, Zenon
  <2>2. PICK T \in SUBSET S : IsFiniteSet(T) /\ T # {} /\ ~Bounded(T) /\ Cardinality(T) = n
    BY <2>1
  <2>3. PICK x \in T : TRUE
    BY <2>2
  <2> DEFINE R == T \ {x}
  <2>4. IsFiniteSet(R) /\ Cardinality(R) = n - 1 /\ n \in Nat
    BY <2>1, <2>2, <2>3, FS_RemoveElement
  <2>5. R # {}
    <3> SUFFICES ASSUME R = {}
                 PROVE  FALSE
      OBVIOUS
    <3>1. T = {x} /\ x \in Int
      BY <2>2, <2>3
    <3> QED
      BY <2>2, <3>1
  <2>6. Bounded(R)
    <3> SUFFICES ASSUME ~Bounded(R)
                 PROVE  FALSE
      OBVIOUS
    <3>1. Cardinality(R) \in Nat /\ Cardinality(R) < n
      BY <2>4, FS_CardinalityType
    <3>2. R \in SUBSET S
      BY <2>2
    <3>3. Cardinality(R) \in Sizes
      <4> HIDE DEF R, Bounded
      <4> QED
        BY <2>4, <2>5, <3>1, <3>2
    <3>4. <<Cardinality(R), n>> \in Less
      BY <2>4, <3>1 DEF OpToRel
    <3> HIDE DEF Sizes, Less, R
    <3> QED
      BY <2>1, <3>3, <3>4
  <2>7. PICK a \in R, b \in R : \A y \in R : a <= y /\ y <= b
    BY <2>6
  <2>8. a \in Int /\ b \in Int /\ x \in Int /\ a \in T /\ b \in T /\ x \in T
    BY <2>2, <2>3, <2>7
  <2>9. \A y \in T : y \in Int /\ (y = x \/ (a <= y /\ y <= b))
    BY <2>2, <2>7
  <2>10. Bounded(T)
    <3> DEFINE low == IF x <= a THEN x ELSE a
               high == IF x >= b THEN x ELSE b
    <3>1. low \in T /\ high \in T
      BY <2>8
    <3>2. \A y \in T : low <= y /\ y <= high
      <4>1. a <= b
        BY <2>7
      <4> QED
        BY <2>8, <2>9, <4>1
    <3> HIDE DEF low, high
    <3> QED
      BY <3>1, <3>2
  <2> QED
    BY <2>2, <2>10
<1>2. Bounded(S)
  <2> SUFFICES ASSUME ~Bounded(S)
               PROVE  FALSE
    OBVIOUS
  <2>1. Cardinality(S) \in Sizes
    <3> HIDE DEF Bounded
    <3> QED
      BY FS_CardinalityType
  <2> HIDE DEF Sizes
  <2> QED
    BY <1>1, <2>1
<1>3. PICK a \in S, b \in S : \A x \in S : a <= x /\ x <= b
  BY <1>2
<1>4. Min(S) \in S /\ \A x \in S : Min(S) <= x
  BY <1>3 DEF Min
<1>5. Max(S) \in S /\ \A x \in S : x <= Max(S)
  <2>1. \A x \in S : b >= x
    BY <1>3
  <2>2. Max(S) \in S /\ \A x \in S : Max(S) >= x
    BY <2>1 DEF Max
  <2> QED
    BY <2>2
<1> QED
  BY <1>4, <1>5 DEF HasEnds

\* A pair has its smaller and its larger.
LEMMA PairEnds ==
    ASSUME NEW a \in Int, NEW b \in Int
    PROVE  /\ Min({a, b}) = IF a <= b THEN a ELSE b
           /\ Max({a, b}) = IF a <= b THEN b ELSE a
<1>1. HasEnds({a, b})
  <2>1. {a, b} = {a} \cup {b} /\ IsFiniteSet({a})
    BY FS_Singleton
  <2>2. IsFiniteSet({a, b})
    BY <2>1, FS_AddElement
  <2> QED
    BY <2>2, FiniteHasEnds
<1> QED
  BY <1>1 DEF HasEnds

\* What is neither beyond the one nor the other is between them.
LEMMA InBetween ==
    ASSUME NEW a \in Int, NEW b \in Int, NEW x \in Int,
           (a <= x /\ x <= b) \/ (b <= x /\ x <= a)
    PROVE  x \in Min({a, b})..Max({a, b})
<1>1. /\ Min({a, b}) = IF a <= b THEN a ELSE b
      /\ Max({a, b}) = IF a <= b THEN b ELSE a
  BY PairEnds, Zenon
<1> DEFINE low == Min({a, b})
           high == Max({a, b})
<1>2. low = (IF a <= b THEN a ELSE b) /\ high = (IF a <= b THEN b ELSE a)
  BY <1>1
<1> HIDE DEF low, high
<1>3. x \in low..high
  BY <1>2
<1> QED
  BY <1>3 DEF low, high

\* A whole number of windows lies between a time and where it is wrapped to.
LEMMA WrappedByWindows ==
    ASSUME NEW a \in Int, NEW d \in Int, d > 0
    PROVE  /\ a % d \in 0..(d - 1)
           /\ (a - (a % d)) % d = 0
           /\ 0 % d = 0
<1>1. a % d \in 0..(d - 1)
  OBVIOUS
<1>2. (a - (a % d)) % d = 0
  <2> DEFINE q == a \div d
  <2>1. q \in Int /\ a % d = a - (d * q)
    OBVIOUS
  <2>2. a - (a % d) = d * q
    <3> DEFINE r == a % d
               m == d * q
    <3>1. r \in Int /\ m \in Int /\ r = a - m
      BY <1>1, <2>1
    <3> HIDE DEF r, m
    <3>2. a - r = m
      BY <3>1
    <3> QED
      BY <3>2 DEF r, m
  <2>3. (d * q) % d = 0
    <3> HIDE DEF q
    <3> QED
      BY <2>1
  <2> QED
    BY <2>2, <2>3
<1>3. 0 % d = 0
  OBVIOUS
<1> QED
  BY <1>1, <1>2, <1>3

\* Rounding down what lies part of the way to a rise, or to a fall, stays on it.
LEMMA PartOfTheWay ==
    ASSUME NEW k \in Int, NEW n \in Int, NEW rise \in Int, 0 <= k, k < n
    PROVE  /\ rise >= 0 => (k * rise) \div n \in 0..rise
           /\ rise <= 0 => (k * rise) \div n \in rise..0
           /\ k = 0 => (k * rise) \div n = 0
<1>1. ASSUME rise >= 0
      PROVE  (k * rise) \div n \in 0..rise
  BY <1>1
<1>2. ASSUME rise <= 0
      PROVE  (k * rise) \div n \in rise..0
  BY <1>2
<1>3. ASSUME k = 0
      PROVE  (k * rise) \div n = 0
  BY <1>3
<1> QED
  BY <1>1, <1>2, <1>3

\* What an entity's recorder holds of it: some of the periods of its history.
LEMMA SeriesIsRecorded ==
    ASSUME TimeAssumption, SimTypeOK, NEW e \in Entities, series[e] # {}
    PROVE  /\ series[e] \subseteq Int /\ IsFiniteSet(series[e]) /\ HasEnds(series[e])
           /\ \A p \in series[e] : Recorded[e][p] \in Int
<1>1. series[e] \subseteq Int /\ series[e] \subseteq History[e]
  BY DEF SimTypeOK
<1>2. IsFiniteSet(series[e])
  BY <1>1, FS_Subset DEF TimeAssumption
<1>3. \A p \in series[e] : Recorded[e][p] \in Int
  BY <1>1 DEF TimeAssumption
<1> QED
  BY <1>1, <1>2, <1>3, FiniteHasEnds

\* The time that is looked up: the time asked for inside the window, its end
\* just past it, and a time windows away otherwise.
LEMMA LookedUp ==
    ASSUME TimeAssumption, SimTypeOK, NEW e \in Entities, series[e] # {},
           NEW t \in Int, Min(series[e]) < Max(series[e])
    PROVE  LET first == Min(series[e])
               last == Max(series[e])
               u == Wrap(e, Clamp(e, t))
           IN  /\ u \in first..last
               /\ t \in first..last => u = t
               /\ t - last \in 1..(Lag - 1) => u = last
               /\ t - last \in 1..(Lag - 1) \/ (t - u) % (last - first) = 0
<1> DEFINE first == Min(series[e])
           last == Max(series[e])
           u == Wrap(e, Clamp(e, t))
           d == last - first
<1>1. first \in Int /\ last \in Int /\ first < last /\ Lag \in Nat
  BY SeriesIsRecorded DEF HasEnds, TimeAssumption
<1>2. Clamp(e, t) = IF t - last \in 1..(Lag - 1) THEN last ELSE t
  BY DEF Clamp
<1>3. u = IF Clamp(e, t) < first \/ Clamp(e, t) > last
          THEN first + ((Clamp(e, t) - first) % d) ELSE Clamp(e, t)
  BY DEF Wrap, OutsideWindow
<1>4. d \in Int /\ d > 0 /\ t - first \in Int
  BY <1>1
<1>5. /\ (t - first) % d \in 0..(d - 1)
      /\ ((t - first) - ((t - first) % d)) % d = 0
      /\ 0 % d = 0
  BY <1>4, WrappedByWindows
<1> HIDE DEF u
<1>6. CASE t - last \in 1..(Lag - 1)
  <2>1. u = last /\ t > last
    <3> HIDE DEF first, last
    <3> QED
      BY <1>1, <1>2, <1>3, <1>6
  <2> HIDE DEF first, last
  <2> QED
    BY <1>1, <1>6, <2>1 DEF first, last, u
<1>7. CASE t - last \notin 1..(Lag - 1) /\ t \in first..last
  <2>1. u = t
    <3> HIDE DEF first, last
    <3> QED
      BY <1>1, <1>2, <1>3, <1>7
  <2>2. (t - u) % d = 0
    BY <1>5, <2>1
  <2> QED
    BY <1>7, <2>1, <2>2 DEF u
<1>8. CASE t - last \notin 1..(Lag - 1) /\ t \notin first..last
  <2> DEFINE w == (t - first) % d
  <2>1. w \in 0..(d - 1) /\ ((t - first) - w) % d = 0
    BY <1>5
  <2>2. u = first + w
    <3>1. t < first \/ t > last
      <4> HIDE DEF first, last
      <4> QED
        BY <1>1, <1>8
    <3> QED
      BY <1>2, <1>3, <1>8, <3>1, Zenon
  <2>3. u \in first..last /\ t - u = (t - first) - w
    <3>1. last = first + d
      <4> HIDE DEF first, last
      <4> QED
        BY <1>1 DEF d
    <3> HIDE DEF w, d, first, last
    <3> QED
      BY <1>1, <1>4, <2>1, <2>2, <3>1
  <2>4. (t - u) % d = 0
    BY <2>1, <2>3
  <2> QED
    BY <1>8, <2>3, <2>4 DEF u
<1> QED
  BY <1>6, <1>7, <1>8

\* Between two neighbouring periods, what is replayed at the time looked up is
\* between what they were recorded with; at a period it is its record.
LEMMA Interpolated ==
    ASSUME TimeAssumption, SimTypeOK, NEW e \in Entities, series[e] # {}, NEW t \in Int,
           Min(series[e]) < Max(series[e]),
           NEW u \in Min(series[e])..Max(series[e]), u = Wrap(e, Clamp(e, t))
    PROVE  \E p, q \in series[e] :
              /\ p <= u /\ u <= q /\ Adjacent(series[e], p, q)
              /\ u \in series[e] => p = q
              /\ Between(e, t, p, q)
<1> DEFINE s == series[e]
           v == Recorded[e]
           L == {x \in s : x <= u}
           R == {x \in s : x > u}
           p == Max(L)
           q == Min(R)
<1>1. /\ s \subseteq Int /\ IsFiniteSet(s) /\ HasEnds(s)
      /\ \A x \in s : v[x] \in Int
      /\ u \in Int
  <2>1. s \subseteq Int /\ IsFiniteSet(s) /\ HasEnds(s) /\ \A x \in s : v[x] \in Int
    BY SeriesIsRecorded
  <2> QED
    BY <2>1 DEF HasEnds
<1>2. GetPower(e, t) = IF Max(s) = Min(s) THEN v[Min(s)]
                       ELSE IF u = Max(s) THEN v[u]
                       ELSE v[p] + ((u - p) * (v[q] - v[p])) \div (q - p)
  BY Zenon DEF GetPower
<1>3. Max(s) # Min(s) /\ Min(s) \in Int /\ Max(s) \in Int /\ Min(s) <= u /\ u <= Max(s)
  <2>1. Min(s) \in Int /\ Max(s) \in Int
    BY <1>1 DEF HasEnds
  <2> QED
    BY <2>1
<1> HIDE DEF s, v
<1>4. ASSUME u \in s, GetPower(e, t) = v[u]
      PROVE  \E a, b \in s : /\ a <= u /\ u <= b /\ Adjacent(s, a, b)
                             /\ u \in s => a = b
                             /\ Between(e, t, a, b)
  <2>1. v[u] \in Int
    BY <1>1, <1>4
  <2>2. GetPower(e, t) \in Min({v[u], v[u]})..Max({v[u], v[u]})
    <3>1. v[u] <= v[u]
      BY <2>1
    <3>2. v[u] \in Min({v[u], v[u]})..Max({v[u], v[u]})
      BY <2>1, <3>1, InBetween, Zenon
    <3> QED
      BY <1>4, <3>2, Zenon
  <2>3. Between(e, t, u, u)
    BY <2>2 DEF Between, v
  <2>4. u <= u /\ Adjacent(s, u, u)
    BY <1>1 DEF Adjacent
  <2> QED
    BY <1>4, <2>3, <2>4
<1>5. CASE u = Max(s)
  <2>1. u \in s
    BY <1>1, <1>5 DEF HasEnds
  <2>2. GetPower(e, t) = v[u]
    BY <1>2, <1>3, <1>5
  <2> QED
    BY <1>4, <2>1, <2>2 DEF s
<1>6. CASE u # Max(s)
  <2>1. L \subseteq Int /\ IsFiniteSet(L) /\ L # {} /\ R \subseteq Int /\ IsFiniteSet(R) /\ R # {}
    <3>1. Min(s) \in L /\ Max(s) \in R
      <4>1. Min(s) \in s /\ Max(s) \in s
        BY <1>1 DEF HasEnds
      <4> QED
        BY <1>1, <1>3, <1>6, <4>1
    <3>2. IsFiniteSet(L) /\ IsFiniteSet(R)
      BY <1>1, FS_Subset
    <3> QED
      BY <1>1, <3>1, <3>2
  <2>2. HasEnds(L) /\ HasEnds(R)
    <3> HIDE DEF L, R
    <3> QED
      BY <2>1, FiniteHasEnds
  <2>3. /\ p \in s /\ q \in s /\ p <= u /\ u < q
        /\ \A x \in s : x <= p \/ x >= q
    <3>1. p \in L /\ q \in R /\ (\A x \in L : x <= p) /\ \A x \in R : q <= x
      BY <2>2, Zenon DEF HasEnds
    <3> HIDE DEF p, q
    <3>2. p \in s /\ q \in s /\ p \in Int /\ q \in Int
      BY <1>1, <3>1
    <3>3. \A x \in s : x \in Int /\ (x \in L \/ x \in R)
      BY <1>1
    <3> QED
      BY <3>1, <3>2, <3>3
  <2>4. /\ p \in Int /\ q \in Int /\ v[p] \in Int /\ v[q] \in Int
    <3> HIDE DEF p, q
    <3> QED
      BY <1>1, <2>3
  <2>5. GetPower(e, t) = v[p] + ((u - p) * (v[q] - v[p])) \div (q - p)
    BY <1>2, <1>3, <1>6, Zenon
  <2> HIDE DEF p, q, L, R
  <2> DEFINE k == u - p
             n == q - p
             rise == v[q] - v[p]
  <2>6. k \in Int /\ n \in Int /\ rise \in Int /\ 0 <= k /\ k < n
    BY <1>1, <2>3, <2>4
  <2>7. /\ rise >= 0 => (k * rise) \div n \in 0..rise
        /\ rise <= 0 => (k * rise) \div n \in rise..0
        /\ k = 0 => (k * rise) \div n = 0
    <3> HIDE DEF k, n, rise
    <3> QED
      BY <2>6, PartOfTheWay
  <2> DEFINE part == (k * rise) \div n
  <2>8. GetPower(e, t) = v[p] + part
    BY <2>5
  <2>9. CASE u \in s
    <3>1. u = p
      <4>1. u <= p \/ u >= q
        BY <2>3, <2>9
      <4>2. u \in Int /\ p <= u /\ u < q
        BY <1>1, <2>3
      <4> QED
        BY <2>4, <4>1, <4>2
    <3>2. k = 0
      BY <2>4, <3>1
    <3>3. part = 0
      BY <2>7, <3>2
    <3>4. GetPower(e, t) = v[u]
      <4> HIDE DEF part
      <4> QED
        BY <2>4, <2>8, <3>1, <3>3
    <3> QED
      BY <1>4, <2>9, <3>4 DEF s
  <2>10. CASE u \notin s
    <3>1. GetPower(e, t) \in Min({v[p], v[q]})..Max({v[p], v[q]})
      <4>1. /\ rise >= 0 => part \in 0..rise
            /\ rise <= 0 => part \in rise..0
        BY <2>7
      <4>2. rise = v[q] - v[p]
        OBVIOUS
      <4> HIDE DEF part, rise
      <4>3. /\ v[p] + part \in Int
            /\ \/ v[p] <= v[p] + part /\ v[p] + part <= v[q]
               \/ v[q] <= v[p] + part /\ v[p] + part <= v[p]
        BY <2>4, <4>1, <4>2
      <4> QED
        BY <2>4, <2>8, <4>3, InBetween
    <3>2. Between(e, t, p, q)
      BY <3>1 DEF Between, v
    <3>3. Adjacent(s, p, q) /\ u <= q
      BY <1>1, <2>3, <2>4 DEF Adjacent
    <3> QED
      BY <2>3, <2>10, <3>2, <3>3 DEF s
  <2> QED
    BY <2>9, <2>10
<1> QED
  BY <1>5, <1>6

\* Whatever time a panel's clock shows, and whatever a modelling view has replaced
\* the series with, nothing is replayed that the sensor did not show: the recorder
\* clamps, wraps and interpolates into what it holds.
THEOREM ReplaysAreRecorded == Spec => []ReplayIsRecorded
<1>1. TimeAssumption /\ SimTypeOK => ReplayIsRecorded
  <2> SUFFICES ASSUME TimeAssumption, SimTypeOK, NEW e \in Entities, series[e] # {}
               PROVE  \E p, q \in series[e], u \in Min(series[e])..Max(series[e]) :
                        /\ p <= u /\ u <= q /\ Adjacent(series[e], p, q)
                        /\ u \in series[e] => p = q
                        /\ Between(e, CurrentTime, p, q)
                        /\ CurrentTime \in Min(series[e])..Max(series[e]) => u = CurrentTime
                        /\ CurrentTime - Max(series[e]) \in 1..(Lag - 1) => u = Max(series[e])
                        /\ Min(series[e]) < Max(series[e]) =>
                              \/ CurrentTime - Max(series[e]) \in 1..(Lag - 1)
                              \/ (CurrentTime - u) % (Max(series[e]) - Min(series[e])) = 0
    BY DEF ReplayIsRecorded
  <2> DEFINE t == CurrentTime
             first == Min(series[e])
             last == Max(series[e])
  <2>1. t \in Int
    BY TimeIsInt
  <2>2. /\ first \in series[e] /\ last \in series[e] /\ first \in Int /\ last \in Int
        /\ first <= last /\ Recorded[e][first] \in Int
        /\ \A x \in series[e] : first <= x /\ x <= last
    BY SeriesIsRecorded DEF HasEnds
  <2>3. CASE first = last
    <3>1. GetPower(e, t) = Recorded[e][first]
      BY <2>3, Zenon DEF GetPower
    <3>2. Between(e, t, first, first)
      <4> DEFINE w == Recorded[e][first]
      <4>1. GetPower(e, t) \in Min({w, w})..Max({w, w})
        <5> HIDE DEF w
        <5> QED
          BY <2>2, <3>1, InBetween DEF w
      <4> QED
        BY <4>1 DEF Between
    <3>3. Adjacent(series[e], first, first)
      BY <2>2, <2>3, SeriesIsRecorded DEF Adjacent
    <3>4. (t \in first..last => first = t) /\ first \in first..last /\ first <= first
      <4> HIDE DEF t, first, last
      <4> QED
        BY <2>1, <2>2, <2>3
    <3> QED
      BY <2>2, <2>3, <3>2, <3>3, <3>4
  <2>4. CASE first < last
    <3> DEFINE u == Wrap(e, Clamp(e, t))
    <3>1. /\ u \in first..last
          /\ t \in first..last => u = t
          /\ t - last \in 1..(Lag - 1) => u = last
          /\ t - last \in 1..(Lag - 1) \/ (t - u) % (last - first) = 0
      BY <2>1, <2>4, LookedUp
    <3>2. \E p, q \in series[e] :
            /\ p <= u /\ u <= q /\ Adjacent(series[e], p, q)
            /\ u \in series[e] => p = q
            /\ Between(e, t, p, q)
      BY <2>1, <2>4, <3>1, Interpolated
    <3> HIDE DEF u
    <3> QED
      BY <3>1, <3>2
  <2> QED
    BY <2>2, <2>3, <2>4
<1> QED
  BY <1>1, SimTypeCorrect, TimeAssumption, PTL
=============================================================================
