---------------------------- MODULE Robot2018Proofs ---------------------------
(***************************************************************************)
(* Safety of the 2018 robot in a match, for every routine, layout and      *)
(* driver and for every speed of the mechanisms.                           *)
(***************************************************************************)
EXTENDS Robot2018, ButtonRulesProofs

ArmGoals == [state : States, intake : IntakeGoals, height : Int, angle : Int]
GoalMessages == [score : ScoreGoals, intake : IntakeGoals, lift : Nat, tilt : Nat]

Speeds(c) == -c.velocity .. c.velocity
ArmOK ==
  /\ lift \in Int /\ liftSpeed \in Speeds(LiftConstraints)
  /\ wrist \in Int /\ wristSpeed \in Speeds(WristConstraints)

RoutineOK ==
  /\ routine \in DOMAIN Programs \cup {"waiting"} /\ pc \in Nat \ {0}
  /\ drive \in {"stopped", "under way", "near", "complete"}

TypeOK ==
  /\ goal \in ArmGoals
  /\ calibrated \in SUBSET Mechanisms
  /\ ArmOK /\ swerves \in Nat
  /\ stuck \in 0 .. FaultTicks + 2 /\ fault \in BOOLEAN
  /\ cube \in BOOLEAN /\ hasCube \in BOOLEAN
  /\ pinch \in {"IDLE_WITH_CUBE", "IDLE_NO_CUBE", "MOVING"} /\ pinchTicks \in -1 .. PinchTicks
  /\ drill \in DOMAIN Presses /\ phase \in Phases
  /\ RoutineOK

-----------------------------------------------------------------------------
(* The operators.                                                           *)

\* Cap stays inside its bounds.
LEMMA CapType ==
  ASSUME NEW x \in Int, NEW high \in Nat
  PROVE  Cap(x, 0, high) \in 0 .. high
BY DEF Cap

\* The wrist can take every posture.
LEMMA PostureType ==
  ASSUME NEW g \in DOMAIN Posture
  PROVE  Posture[g][1] \in Nat /\ Posture[g][2] \in 0 .. MaxAngle
BY DEF Posture, MaxAngle

\* The buttons make a message, whatever is held.
LEMMA ScoreGoalType == ASSUME NEW p PROVE ScoreGoal(p) \in ScoreGoals
<1> DEFINE rules == <<
  <<{"front", "pos_0"} \subseteq p, "SCALE_LOW_FORWARD">>,
  <<{"front", "pos_1"} \subseteq p, "SCALE_MID_FORWARD">>,
  <<{"front", "pos_2"} \subseteq p, "SCALE_HIGH_FORWARD">>,
  <<{"front", "pos_3"} \subseteq p, "SCALE_SUPER_HIGH_FORWARD">>,
  <<{"back", "pos_0"} \subseteq p,  "SCALE_LOW_REVERSE">>,
  <<{"back", "pos_1"} \subseteq p,  "SCALE_MID_REVERSE">>,
  <<{"back", "pos_2"} \subseteq p,  "SCALE_HIGH_REVERSE">>,
  <<{"back", "pos_3"} \subseteq p,  "SCALE_SUPER_HIGH_REVERSE">>,
  <<"pos_0" \in p,    "EXCHANGE">>,
  <<"pos_1" \in p,    "SWITCH">>,
  <<"pos_2" \in p,    "STOW">>,
  <<"pos_3" \in p,    "SCALE_SHOOT">>,
  <<"height_0" \in p, "INTAKE_0">>,
  <<"height_1" \in p, "INTAKE_1">>,
  <<"height_2" \in p, "INTAKE_2">>,
  <<TRUE,             "SCORE_NONE">> >>
<1>1. 16 \in Nat \ {0} /\ DOMAIN rules = 1 .. 16 /\ rules[16][1]
  OBVIOUS
<1>2. \A i \in 1 .. 16 : rules[i][2] \in ScoreGoals
  BY DEF ScoreGoals, Posture
<1>3. ScoreGoal(p) = FirstOf(rules)
  BY DEF ScoreGoal
<1>4. FirstOf(rules) \in ScoreGoals
  <2> HIDE DEF rules
  <2> QED BY <1>1, <1>2, FirstOfOne
<1> QED
  BY <1>3, <1>4

\* The buttons make an intake goal, whatever is held and whatever was reported.
LEMMA IntakeGoalType == ASSUME NEW p, NEW reported PROVE IntakeGoal(p, reported) \in IntakeGoals
<1> DEFINE rules == <<
  <<"intake" \in p,       "INTAKE">>,
  <<"intake_open" \in p,  IF reported THEN "DROP" ELSE "INTAKE_OPEN">>,
  <<"intake_close" \in p, "INTAKE_CLOSE">>,
  <<"outtake_fast" \in p, "OUTTAKE_FAST">>,
  <<"outtake_slow" \in p, "OUTTAKE_SLOW">>,
  <<"settle" \in p,       "SETTLE">>,
  <<TRUE,                 "INTAKE_NONE">> >>
<1>1. 7 \in Nat \ {0} /\ DOMAIN rules = 1 .. 7 /\ rules[7][1]
  OBVIOUS
<1>2. \A i \in 1 .. 7 : rules[i][2] \in IntakeGoals
  BY DEF IntakeGoals, Intakes, Outtakes
<1>3. IntakeGoal(p, reported) = FirstOf(rules)
  BY DEF IntakeGoal
<1>4. FirstOf(rules) \in IntakeGoals
  <2> HIDE DEF rules
  <2> QED BY <1>1, <1>2, FirstOfOne
<1> QED
  BY <1>3, <1>4

\* Every message of the buttons is one that the score subsystem knows.
LEMMA MessageType ==
  ASSUME NEW p, NEW reported
  PROVE  ScoreSubsystemMessage(p, reported) \in GoalMessages
BY ScoreGoalType, IntakeGoalType, MatchAssumption
DEF ScoreSubsystemMessage, GoalMessages, GodMode

-----------------------------------------------------------------------------
(* The constants.                                                           *)

Constraints == [acceleration : Nat \ {0}, velocity : Nat \ {0}]

\* What the constants are.
LEMMA Steps ==
  /\ LiftConstraints \in Constraints /\ WristConstraints \in Constraints
  /\ PinchTicks \in Nat \ {0} /\ FaultTicks \in Nat \ {0} /\ MaxSwerves \in Nat
  /\ Offset[1] \in Nat /\ Offset[2] \in Nat
BY ScoreAssumption DEF Constraints, MaxHeight, SafeAngle

-----------------------------------------------------------------------------
(* The profiles.                                                            *)

\* The way that is braked over n ticks, doubled and not.
Triangle(n, a) == (a * n * (n + 1)) \div 2

\* Of two numbers in a row, one is even.
LEMMA TriangleTwice ==
  ASSUME NEW n \in Nat, NEW a \in Nat \ {0}
  PROVE  /\ Triangle(n, a) \in Nat
         /\ 2 * Triangle(n, a) = a * n * (n + 1)
<1>1. PICK k \in Nat : n * (n + 1) = 2 * k
  <2>1. PICK h \in Nat : n = 2 * h \/ n = 2 * h + 1
    <3>1. n \div 2 \in Nat /\ (n = 2 * (n \div 2) \/ n = 2 * (n \div 2) + 1)
      OBVIOUS
    <3> QED
      BY <3>1
  <2>2. CASE n = 2 * h
    <3>1. n * (n + 1) = 2 * (h * (n + 1)) /\ h * (n + 1) \in Nat
      BY <2>2
    <3> QED
      BY <3>1
  <2>3. CASE n = 2 * h + 1
    <3>1. n * (n + 1) = 2 * (n * (h + 1)) /\ n * (h + 1) \in Nat
      BY <2>3
    <3> QED
      BY <3>1
  <2> QED
    BY <2>1, <2>2, <2>3
<1> DEFINE m == a * k
<1>2. m \in Nat /\ a * n * (n + 1) = 2 * m
  <2>1. a * n * (n + 1) = a * (n * (n + 1)) /\ a * (2 * k) = 2 * (a * k)
    OBVIOUS
  <2> QED
    BY <1>1, <2>1
<1> HIDE DEF m
<1>3. (2 * m) \div 2 = m
  BY <1>2
<1> QED
  BY <1>2, <1>3 DEF Triangle

\* How long a profile brakes, and how far it goes.
LEMMA BrakeIs ==
  ASSUME NEW s \in Nat, NEW a \in Nat \ {0}
  PROVE  \E n \in Nat : /\ a * n <= s /\ s < a * (n + 1)
                        /\ n = s \div a
                        /\ Brake(s, a) = n * s - Triangle(n, a)
<1>1. s \div a \in Nat /\ a * (s \div a) <= s /\ s < a * ((s \div a) + 1)
  <2>1. s = a * (s \div a) + (s % a) /\ s % a \in 0 .. a - 1 /\ s \div a \in Nat
    OBVIOUS
  <2>2. a * ((s \div a) + 1) = a * (s \div a) + a /\ a * (s \div a) \in Nat
    BY <2>1
  <2> QED
    BY <2>1, <2>2
<1> QED
  BY <1>1 DEF Brake, Triangle

\* A profile that brakes is slower by its acceleration after a tick.
LEMMA BrakeByTick ==
  ASSUME NEW s \in Nat, NEW a \in Nat \ {0}, s >= a
  PROVE  Brake(s, a) = (s - a) + Brake(s - a, a)
<1>1. PICK n \in Nat : a * n <= s /\ s < a * (n + 1) /\ Brake(s, a) = n * s - Triangle(n, a)
  BY BrakeIs
<1>2. s - a \in Nat
  OBVIOUS
<1>3. PICK m \in Nat : a * m <= s - a /\ s - a < a * (m + 1)
                       /\ Brake(s - a, a) = m * (s - a) - Triangle(m, a)
  BY <1>2, BrakeIs
<1>4. m = n - 1
  <2>1. a * (m + 1) = a * m + a /\ a * (n + 1) = a * n + a /\ a * (m + 2) = a * m + 2 * a
    OBVIOUS
  <2>2. a * n < a * (m + 2) /\ a * (m + 1) < a * (n + 1)
    BY <1>1, <1>3, <2>1
  <2>3. n < m + 2 /\ m + 1 < n + 1
    BY <2>2
  <2> QED
    BY <2>3
<1>5. Triangle(n, a) = Triangle(m, a) + a * n
  <2>1. 2 * Triangle(n, a) = a * n * (n + 1) /\ 2 * Triangle(m, a) = a * m * (m + 1)
        /\ Triangle(n, a) \in Nat /\ Triangle(m, a) \in Nat
    BY TriangleTwice
  <2>2. a * m * (m + 1) = a * n * (n - 1)
    BY <1>4
  <2>3. a * n * (n + 1) = a * n * (n - 1) + 2 * (a * n)
    OBVIOUS
  <2> QED
    BY <2>1, <2>2, <2>3
<1>6. n * s = m * s + s /\ m * (s - a) = m * s - a * m /\ a * n = a * m + a
  BY <1>4
<1>7. Triangle(m, a) \in Int /\ m * s \in Int /\ a * m \in Int
  BY TriangleTwice
<1> QED
  BY <1>1, <1>3, <1>5, <1>6, <1>7

\* A profile slower than its acceleration halts at once; one that goes down halts below.
LEMMA BrakeBounds ==
  ASSUME NEW s \in Nat, NEW a \in Nat \ {0}
  PROVE  Brake(s, a) \in Nat /\ (s < a => Brake(s, a) = 0)
<1>1. PICK n \in Nat : a * n <= s /\ s < a * (n + 1) /\ Brake(s, a) = n * s - Triangle(n, a)
  BY BrakeIs
<1>2. 2 * Triangle(n, a) = a * n * (n + 1) /\ Triangle(n, a) \in Nat
  BY TriangleTwice
<1>3. 2 * (n * s) >= a * n * (n + 1)
  <2>1. n * (a * n) <= n * s
    BY <1>1
  <2>2. n = 0 \/ a * n >= a
    OBVIOUS
  <2>3. a * n * (n + 1) = n * (a * n) + a * n /\ (n = 0 \/ n * (a * n) >= a * n)
    OBVIOUS
  <2>4. a * n * (n + 1) <= 2 * (n * (a * n))
    BY <2>3
  <2> QED
    BY <2>1, <2>4
<1>4. s < a => n = 0
  <2>1. s < a => a * n < a * 1
    BY <1>1
  <2> QED
    BY <2>1
<1>5. n * s \in Nat
  OBVIOUS
<1>6. n = 0 => n * s = 0 /\ a * n * (n + 1) = 0
  OBVIOUS
<1> QED
  BY <1>1, <1>2, <1>3, <1>4, <1>5, <1>6

\* There is a number of ticks in which a profile can brake over a distance.
LEMMA TopSpeedTicks ==
  ASSUME NEW d \in Nat, NEW a \in Nat \ {0}
  PROVE  \E n \in 0 .. d : a * n * (n + 1) <= 2 * d /\ 2 * d < a * (n + 1) * (n + 2)
<1> DEFINE Enough == {n \in Nat : 2 * d < a * (n + 1) * (n + 2)}
<1>1. d \in Enough
  <2>1. (d + 1) * (d + 2) > 2 * d
    OBVIOUS
  <2>2. a * ((d + 1) * (d + 2)) >= (d + 1) * (d + 2) /\ a * ((d + 1) * (d + 2)) = a * (d + 1) * (d + 2)
    OBVIOUS
  <2> QED
    BY <2>1, <2>2
<1>2. PICK n \in Enough : \A m \in Enough : n <= m
  <2>1. Enough \in SUBSET Nat /\ Enough # {}
    BY <1>1
  <2> QED
    BY <2>1, LeastNumber
<1>3. n <= d
  BY <1>1, <1>2
<1>4. a * n * (n + 1) <= 2 * d
  <2>1. CASE n = 0
    BY <2>1
  <2>2. CASE n # 0
    <3>1. n - 1 \in Nat /\ n - 1 \notin Enough
      BY <1>2, <2>2
    <3>2. ~(2 * d < a * n * (n + 1))
      <4>1. ~(2 * d < a * ((n - 1) + 1) * ((n - 1) + 2))
        BY <3>1
      <4>2. (n - 1) + 1 = n /\ (n - 1) + 2 = n + 1
        BY <3>1
      <4> QED
        BY <4>1, <4>2
    <3> QED
      BY <3>2, <1>2
  <2> QED
    BY <2>1, <2>2
<1> QED
  BY <1>2, <1>3, <1>4

\* From the speed that a profile takes to a distance, and from any lower one, a tick and
\* the way to halt stay within the distance.
LEMMA TopSpeedHalts ==
  ASSUME NEW d \in Nat, NEW a \in Nat \ {0}
  PROVE  /\ TopSpeed(d, a) \in Nat
         /\ \A s \in 0 .. TopSpeed(d, a) : s + Brake(s, a) <= d
<1>1. PICK n \in 0 .. d : /\ a * n * (n + 1) <= 2 * d /\ 2 * d < a * (n + 1) * (n + 2)
                          /\ TopSpeed(d, a) = (d + Triangle(n, a)) \div (n + 1)
  BY TopSpeedTicks DEF TopSpeed, Triangle
<1> DEFINE T == Triangle(n, a)
           w == (d + T) \div (n + 1)
<1>2. T \in Nat /\ 2 * T = a * n * (n + 1)
  BY TriangleTwice
<1> HIDE DEF T
<1>3. w \in Nat /\ (n + 1) * w <= d + T
  BY <1>2
<1>4. (n + 1) * w > d + T - (n + 1)
  BY <1>2
<1> HIDE DEF w
<1>5. w < a * (n + 1)
  <2>1. 2 * (d + T) < a * (n + 1) * (n + 2) + a * n * (n + 1)
    BY <1>1, <1>2
  <2>2. a * (n + 1) * (n + 2) + a * n * (n + 1) = 2 * ((n + 1) * (a * (n + 1)))
    OBVIOUS
  <2>3. (n + 1) * w < (n + 1) * (a * (n + 1))
    BY <1>2, <1>3, <2>1, <2>2
  <2> QED
    BY <1>3, <2>3
<1>6. T <= d
  BY <1>1, <1>2
<1>7. ASSUME NEW s \in 0 .. w PROVE s + Brake(s, a) <= d
  <2>1. PICK m \in Nat : a * m <= s /\ s < a * (m + 1) /\ Brake(s, a) = m * s - Triangle(m, a)
    <3>1. s \in Nat
      BY <1>3
    <3> QED
      BY <3>1, BrakeIs
  <2>2. m <= n
    <3>1. a * m < a * (n + 1)
      BY <1>5, <2>1, <1>3
    <3> QED
      BY <3>1
  <2>3. Triangle(m, a) \in Nat /\ 2 * Triangle(m, a) = a * m * (m + 1)
    BY TriangleTwice
  <2>4. s + m * s = (m + 1) * s
    OBVIOUS
  <2>5. CASE m = n
    <3>1. (n + 1) * s <= (n + 1) * w
      BY <1>3
    <3> QED
      BY <1>2, <1>3, <2>1, <2>3, <2>4, <2>5, <3>1 DEF T
  <2>6. CASE m < n
    <3>1. (m + 1) * s <= (m + 1) * (a * (m + 1))
      BY <2>1
    <3>2. 2 * ((m + 1) * (a * (m + 1))) - a * m * (m + 1) = a * (m + 1) * (m + 2)
      OBVIOUS
    <3>3. a * (m + 1) * (m + 2) <= a * n * (n + 1)
      <4>1. (m + 1) * (m + 2) <= n * (n + 1)
        BY <2>6
      <4>2. a * ((m + 1) * (m + 2)) <= a * (n * (n + 1))
        BY <4>1
      <4> QED
        BY <4>2
    <3>4. 2 * ((m + 1) * s - Triangle(m, a)) <= 2 * T
      BY <1>2, <2>3, <3>1, <3>2, <3>3
    <3> QED
      BY <1>2, <1>6, <2>1, <2>3, <2>4, <3>4
  <2> QED
    BY <2>2, <2>5, <2>6
<1> QED
  BY <1>1, <1>3, <1>7 DEF w, T

\* It keeps to its constraints: it may have to slow down on its way, by no more than it
\* can, and no faster than it can halt.
LEMMA FasterIs ==
  ASSUME NEW c \in Constraints, NEW v \in Speeds(c), NEW d \in Int
  PROVE  /\ Faster(v, d, c) \in Speeds(c)
         /\ Faster(v, d, c) < 0 => Faster(v, d, c) = v + c.acceleration
         /\ d < 0 /\ v + c.acceleration <= 0 => Faster(v, d, c) = v + c.acceleration
         /\ d >= 0 => Faster(v, d, c) <= TopSpeed(d, c.acceleration)
<1>1. c.acceleration \in Nat \ {0} /\ c.velocity \in Nat \ {0} /\ v \in -c.velocity .. c.velocity
  BY DEF Constraints, Speeds
<1>2. CASE d < 0
  BY <1>1, <1>2 DEF Faster, Cap, Speeds
<1>3. CASE d >= 0
  <2>1. TopSpeed(d, c.acceleration) \in Nat
    BY <1>1, <1>3, TopSpeedHalts
  <2> QED
    BY <1>1, <1>3, <2>1 DEF Faster, Cap, Speeds
<1> QED
  BY <1>2, <1>3

\* The next tick of a profile.
LEMMA CalculateIs ==
  ASSUME NEW c \in Constraints, NEW x \in Int, NEW v \in Speeds(c), NEW to \in Int
  PROVE  \E w \in Speeds(c) :
           /\ Calculate(<<x, v>>, to, c) = <<x + w, w>>
           /\ w = IF Halt(<<x, v>>, c.acceleration) <= to THEN Faster(v, to - x, c)
                                                         ELSE -Faster(-v, x - to, c)
<1> DEFINE w == IF Halt(<<x, v>>, c.acceleration) <= to THEN Faster(v, to - x, c)
                                                         ELSE -Faster(-v, x - to, c)
<1>1. Faster(v, to - x, c) \in Speeds(c) /\ -Faster(-v, x - to, c) \in Speeds(c)
  <2>1. -v \in Speeds(c) /\ to - x \in Int /\ x - to \in Int
    BY DEF Speeds, Constraints
  <2>2. Faster(v, to - x, c) \in Speeds(c) /\ Faster(-v, x - to, c) \in Speeds(c)
    BY <2>1, FasterIs
  <2> QED
    BY <2>2 DEF Speeds, Constraints
<1>2. Calculate(<<x, v>>, to, c) = <<x + w, w>>
  BY DEF Calculate, Faster
<1> QED
  BY <1>1, <1>2

\* A profile that can halt above a place, on its way to a goal above it, stays above it
\* for a tick and still can.
LEMMA CalculateStaysAbove ==
  ASSUME NEW c \in Constraints, NEW x \in Int, NEW v \in Speeds(c), NEW to \in Int,
         NEW least \in Int, to >= least, x >= least,
         Halt(<<x, v>>, c.acceleration) >= least
  PROVE  LET next == Calculate(<<x, v>>, to, c)
         IN  next[1] >= least /\ Halt(next, c.acceleration) >= least
<1> DEFINE a == c.acceleration
<1>1. a \in Nat \ {0} /\ v \in Int /\ -v \in Speeds(c) /\ to - x \in Int /\ x - to \in Int
  BY DEF Constraints, Speeds
<1>2. PICK w \in Speeds(c) :
        /\ Calculate(<<x, v>>, to, c) = <<x + w, w>>
        /\ w = IF Halt(<<x, v>>, a) <= to THEN Faster(v, to - x, c) ELSE -Faster(-v, x - to, c)
  BY CalculateIs
<1>3. w \in Int
  BY DEF Speeds, Constraints
<1> HIDE DEF a
<1>4. x + w >= least /\ Halt(<<x + w, w>>, a) >= least
  <2>1. CASE w >= 0
    <3>1. Brake(w, a) \in Nat
      BY <1>1, <1>3, <2>1, BrakeBounds
    <3>2. Halt(<<x + w, w>>, a) = x + w + Brake(w, a)
      BY <2>1 DEF Halt
    <3> QED
      BY <1>3, <2>1, <3>1, <3>2
  <2>2. CASE w < 0
    <3> DEFINE s == -w
    <3>1. s \in Nat \ {0} /\ Brake(s, a) \in Nat
      BY <1>1, <1>3, <2>2, BrakeBounds
    <3>2. Halt(<<x + w, w>>, a) = x - s - Brake(s, a)
      BY <1>3, <2>2 DEF Halt
    <3>3. s + Brake(s, a) <= x - least
      <4>1. CASE Halt(<<x, v>>, a) <= to
        <5>1. w = v + a
          BY <1>1, <1>2, <2>2, <4>1, FasterIs DEF a
        <5> DEFINE u == -v
        <5>2. u \in Nat /\ u >= a /\ s = u - a /\ v < 0
          BY <1>1, <2>2, <5>1
        <5>3. Brake(u, a) = (u - a) + Brake(u - a, a)
          BY <1>1, <5>2, BrakeByTick
        <5>4. Halt(<<x, v>>, a) = x - Brake(u, a)
          BY <1>1, <5>2 DEF Halt
        <5>5. Brake(u, a) \in Nat
          BY <1>1, <5>2, BrakeBounds
        <5> HIDE DEF s, u
        <5> QED
          BY <3>1, <5>2, <5>3, <5>4, <5>5 DEF a
      <4>2. CASE ~(Halt(<<x, v>>, a) <= to) /\ x < to
        <5>1. v >= a
          <6>1. v >= 0 /\ Halt(<<x, v>>, a) = x + Brake(v, a)
            <7>1. CASE v < 0
              <8>1. Brake(-v, a) \in Nat
                BY <1>1, <7>1, BrakeBounds
              <8> QED
                BY <1>1, <4>2, <7>1, <8>1 DEF Halt
            <7>2. CASE v >= 0
              BY <7>2 DEF Halt
            <7> QED
              BY <1>1, <7>1, <7>2
          <6>2. v < a => Brake(v, a) = 0
            BY <1>1, <6>1, BrakeBounds
          <6> QED
            BY <1>1, <4>2, <6>1, <6>2
        <5>2. Faster(-v, x - to, c) = -v + a
          BY <1>1, <4>2, <5>1, FasterIs DEF a
        <5>3. w = -(-v + a)
          BY <1>2, <4>2, <5>2
        <5> QED
          BY <1>1, <2>2, <5>1, <5>3
      <4>3. CASE ~(Halt(<<x, v>>, a) <= to) /\ x >= to
        <5>1. w = -Faster(-v, x - to, c)
          BY <1>2, <4>3
        <5>2. Faster(-v, x - to, c) <= TopSpeed(x - to, a) /\ Faster(-v, x - to, c) \in Int
          <6>1. x - to \in Int /\ x - to >= 0 /\ -v \in Speeds(c)
            BY <1>1, <4>3
          <6>2. Faster(-v, x - to, c) <= TopSpeed(x - to, a) /\ Faster(-v, x - to, c) \in Speeds(c)
            BY <6>1, FasterIs DEF a
          <6>3. Speeds(c) \subseteq Int
            BY DEF Speeds, Constraints
          <6> QED
            BY <6>2, <6>3
        <5>3. x - to \in Nat
          BY <4>3
        <5>4. TopSpeed(x - to, a) \in Nat /\ \A y \in 0 .. TopSpeed(x - to, a) : y + Brake(y, a) <= x - to
          BY <1>1, <5>3, TopSpeedHalts
        <5>5. s \in 0 .. TopSpeed(x - to, a)
          BY <3>1, <5>1, <5>2, <5>4
        <5>6. s + Brake(s, a) <= x - to
          BY <5>4, <5>5
        <5> HIDE DEF s
        <5> QED
          BY <3>1, <5>6
      <4> QED
        BY <4>1, <4>2, <4>3
    <3> HIDE DEF s
    <3> QED
      BY <1>3, <3>1, <3>2, <3>3 DEF s
  <2> QED
    BY <1>3, <2>1, <2>2
<1> QED
  BY <1>2, <1>4 DEF a

-----------------------------------------------------------------------------
(* The routines.                                                            *)

Statements == [op : {"drive", "near", "complete", "cube", "cubeOrTimeout", "wait"}]
              \cup [op : {"goal"}, score : ScoreGoals, intake : IntakeGoals]

Routines == {RightRightSwitch, RightScale, LeftScale, SneakLeft, SneakRight, LeftSwitch,
             SwitchBack, DriveBackwards, NoneAuto, <<>>}

\* Every program is one of the routines that are written down.
LEMMA OneOfTheRoutines == ASSUME NEW r \in DOMAIN Programs PROVE Programs[r] \in Routines
<1>1. r \in {"right_right_switch", "right_left_switch", "left_right_switch", "left_left_switch",
            "right_scale", "left_scale", "sneak_left", "sneak_right", "left_switch",
            "right_switch", "switch_back", "drive", "none", "nothing"}
  BY DEF Programs
<1> QED
  BY <1>1 DEF Programs, Routines, RightLeftSwitch, LeftRightSwitch, LeftLeftSwitch, RightSwitch

\* Every routine is a sequence of statements.
LEMMA ProgramsType == \A r \in DOMAIN Programs : Programs[r] \in Seq(Statements)
<1>1. StartDrive \in Statements /\ Near \in Statements /\ DriveComplete \in Statements
      /\ WaitForCube \in Statements /\ WaitForCubeOrTimeout \in Statements /\ Wait \in Statements
  BY DEF Statements, StartDrive, Near, DriveComplete, WaitForCube, WaitForCubeOrTimeout, Wait
<1>2. ASSUME NEW s \in ScoreGoals, NEW i \in IntakeGoals PROVE Send(s, i) \in Statements
  BY DEF Statements, Send
<1>3. IntakeGround \in Statements /\ ForceIntake \in Statements /\ IntakeOpen \in Statements
      /\ IntakeClose \in Statements /\ StopIntakeGround \in Statements /\ ScoreFast \in Statements
      /\ ScoreSlow \in Statements /\ DropScore \in Statements
  BY <1>2 DEF IntakeGround, ForceIntake, IntakeOpen, IntakeClose, StopIntakeGround, ScoreFast,
              ScoreSlow, DropScore, ScoreGoals, Posture, IntakeGoals, Intakes, Outtakes
<1>4. \A s \in {"SCALE_LOW_REVERSE", "INTAKE_1", "STOW", "SCALE_SHOOT", "SCALE_HIGH_FORWARD",
                "INTAKE_0", "SWITCH"} : MoveTo(s) \in Statements
  BY <1>2 DEF MoveTo, ScoreGoals, Posture, IntakeGoals
<1> HIDE DEF Statements
<1>5. RightRightSwitch \in Seq(Statements) /\ SneakRight \in Seq(Statements)
  BY <1>1, <1>3, <1>4 DEF RightRightSwitch, SneakRight
<1>6. RightScale \in Seq(Statements)
  BY <1>1, <1>3, <1>4 DEF RightScale
<1>7. LeftScale \in Seq(Statements)
  BY <1>1, <1>3, <1>4 DEF LeftScale
<1>8. SneakLeft \in Seq(Statements)
  BY <1>1, <1>3, <1>4 DEF SneakLeft
<1>9. LeftSwitch \in Seq(Statements) /\ SwitchBack \in Seq(Statements)
  BY <1>1, <1>3, <1>4 DEF LeftSwitch, SwitchBack
<1>10. DriveBackwards \in Seq(Statements) /\ NoneAuto \in Seq(Statements) /\ <<>> \in Seq(Statements)
  BY <1>1 DEF DriveBackwards, NoneAuto
<1> QED
  BY <1>5, <1>6, <1>7, <1>8, <1>9, <1>10, OneOfTheRoutines DEF Routines

-----------------------------------------------------------------------------
(* A goal message.                                                          *)

\* A goal stays one that the mechanisms can be given.
LEMMA SetPostureKeeps ==
  ASSUME NEW s \in ArmGoals, NEW g \in GoalMessages
  PROVE  SetPosture(s, g) \in ArmGoals
<1> DEFINE to == IF g.score = "SCORE_NONE" THEN <<s.height, s.angle>> ELSE Posture[g.score]
<1>1. g.lift \in Nat /\ g.tilt \in Nat /\ g.score \in ScoreGoals
  BY DEF GoalMessages
<1>2. to[1] \in Int /\ to[2] \in Int
  BY <1>1, PostureType DEF ArmGoals, ScoreGoals, MaxAngle
<1>3. SetPosture(s, g) = [s EXCEPT !.height = Cap(to[1] + g.lift, 0, MaxHeight),
                                   !.angle = Cap(to[2] + g.tilt, 0, MaxAngle)]
  BY DEF SetPosture
<1> HIDE DEF to
<1>4. Cap(to[1] + g.lift, 0, MaxHeight) \in Int /\ Cap(to[2] + g.tilt, 0, MaxAngle) \in Int
  BY <1>1, <1>2 DEF Cap, MaxHeight, MaxAngle
<1> QED
  BY <1>3, <1>4 DEF ArmGoals

\* A transition changes the state and the intake, and not the posture.
LEMMA GoToStateKeeps ==
  ASSUME NEW s \in ArmGoals, NEW to \in States, NEW intake \in IntakeGoals
  PROVE  /\ GoToState(s, to, intake) \in ArmGoals
         /\ GoToState(s, to, intake).height = s.height
         /\ GoToState(s, to, intake).angle = s.angle
         /\ s.state # "CALIBRATING" \/ Calibrated => GoToState(s, to, intake).state = to
BY DEF GoToState, ArmGoals

\* So does a goal of the intake.
LEMMA SetIntakeKeeps ==
  ASSUME NEW s \in ArmGoals, NEW intake \in IntakeGoals
  PROVE  SetIntake(s, intake) \in ArmGoals
<1>1. {"HOLDING", "INTAKING_TO_STOW", "INTAKING_ONLY"} \subseteq States
  BY DEF States, IntakingStates
<1> QED
  BY <1>1, GoToStateKeeps DEF SetIntake

\* The goal that stows is one that the mechanisms can be given.
LEMMA StowedKeeps == ASSUME NEW s \in ArmGoals PROVE Stowed(s) \in ArmGoals
<1>1. Posture.STOW[1] \in Int /\ Posture.STOW[2] \in Int
  BY DEF Posture
<1> DEFINE h == Posture.STOW[1]
           g == Posture.STOW[2]
<1>2. Stowed(s) = [s EXCEPT !.height = h, !.angle = g]
  BY DEF Stowed
<1>3. h \in Int /\ g \in Int
  BY <1>1
<1> HIDE DEF h, g
<1> QED
  BY <1>2, <1>3 DEF ArmGoals

\* The state machine stows, or reads where the arm is, or leaves the posture.
LEMMA RunStateMachineKeeps ==
  ASSUME TypeOK, NEW s \in ArmGoals
  PROVE  RunStateMachine(s) \in ArmGoals
<1>1. "HOLDING" \in States /\ "INTAKE_NONE" \in IntakeGoals
  BY DEF States, IntakingStates, IntakeGoals
<1>2. Stowed(s) \in ArmGoals
  BY StowedKeeps
<1>3. [s EXCEPT !.height = lift, !.angle = wrist] \in ArmGoals
  BY DEF ArmGoals, TypeOK, ArmOK
<1>4. RunStateMachine(s) \in {GoToState(Stowed(s), "HOLDING", "INTAKE_NONE"),
                              GoToState(s, "HOLDING", "INTAKE_NONE"),
                              [s EXCEPT !.height = lift, !.angle = wrist], s}
  BY DEF RunStateMachine
<1> QED
  BY <1>1, <1>2, <1>3, <1>4, GoToStateKeeps

\* A message leaves a goal of the right type.
LEMMA HandleGoalKeeps ==
  ASSUME TypeOK, NEW g \in GoalMessages, HandleGoal(g)
  PROVE  goal' \in ArmGoals /\ swerves' \in Nat
<1>1. SetPosture(goal, g) \in ArmGoals /\ g.intake \in IntakeGoals
  BY SetPostureKeeps DEF TypeOK, GoalMessages
<1>2. goal' = RunStateMachine(SetIntake(SetPosture(goal, g), g.intake))
  BY DEF HandleGoal, SetGoal
<1>3. swerves' \in {swerves, swerves + 1} /\ swerves \in Nat
  BY DEF HandleGoal, TypeOK
<1> QED
  BY <1>1, <1>2, <1>3, SetIntakeKeeps, RunStateMachineKeeps

-----------------------------------------------------------------------------
(* The invariant.                                                           *)

\* A count beyond the limit has raised the fault, which ends the pushing.
StallFaults == stuck > FaultTicks => fault

IInv == TypeOK /\ StallFaults /\ StallEnds

\* The robot starts at rest, uncalibrated.
LEMMA InitInv == MatchInit => IInv
<1> SUFFICES ASSUME MatchInit PROVE IInv
  OBVIOUS
<1> USE DEF MatchInit, ScoreInit
<1>1. goal \in ArmGoals
  BY DEF ArmGoals, States, IntakeGoals
<1>2. ArmOK /\ swerves \in Nat
  <2>1. lift = 0 /\ liftSpeed = 0 /\ wrist = 0 /\ wristSpeed = 0 /\ swerves = 0
    OBVIOUS
  <2>2. \A c \in Constraints : 0 \in Speeds(c)
    BY DEF Speeds, Constraints
  <2> QED
    BY <2>1, <2>2, Steps DEF ArmOK
<1>3. stuck \in 0 .. FaultTicks + 2 /\ pinchTicks \in -1 .. PinchTicks
  BY Steps
<1>4. phase \in Phases /\ RoutineOK
  BY DEF Phases, Programs, RoutineOK
<1>5. TypeOK
  BY <1>1, <1>2, <1>3, <1>4 DEF TypeOK
<1>6. StallFaults /\ StallEnds
  BY Steps DEF StallFaults, StallEnds
<1> QED
  BY <1>5, <1>6 DEF IInv

-----------------------------------------------------------------------------
(* A tick.                                                                  *)

\* Where a tick takes a mechanism, it is still at a place and a speed.
LEMMA MoveType ==
  ASSUME NEW c \in Constraints, NEW x \in Int, NEW v \in Speeds(c), NEW to \in Int,
         NEW offset \in Nat, NEW m, NEW r, NEW p \in Move(m, <<x, v>>, to, c, offset, r)
  PROVE  p[1] \in Int /\ p[2] \in Speeds(c)
<1>1. 0 \in Speeds(c) /\ c.acceleration \in Nat \ {0} /\ Speeds(c) \subseteq Int
  BY DEF Speeds, Constraints
<1>2. PICK from \in {<<x + offset, 0>>, <<x, v>>} :
        p \in {from, Calculate(from, to, c), <<Halt(from, c.acceleration), 0>>}
  BY DEF Move
<1>3. from[1] \in Int /\ from[2] \in Speeds(c) /\ from = <<from[1], from[2]>>
  BY <1>1, <1>2
<1>4. Halt(from, c.acceleration) \in Int
  <2>1. from[2] >= 0 => Brake(from[2], c.acceleration) \in Nat
    BY <1>1, <1>3, BrakeBounds
  <2>2. from[2] < 0 => Brake(-from[2], c.acceleration) \in Nat
    BY <1>1, <1>3, BrakeBounds
  <2> QED
    BY <1>1, <1>3, <2>1, <2>2 DEF Halt
<1>5. PICK w \in Speeds(c) : Calculate(from, to, c) = <<from[1] + w, w>>
  BY <1>3, CalculateIs
<1> QED
  BY <1>1, <1>2, <1>3, <1>4, <1>5

\* With the power on, a mechanism above a place, that can halt there and has its goal
\* there, is above it after a tick and can halt there.
LEMMA MoveStaysAbove ==
  ASSUME NEW c \in Constraints, NEW x \in Int, NEW v \in Speeds(c), NEW to \in Int,
         NEW offset \in Nat, NEW m, NEW r, NEW p \in Move(m, <<x, v>>, to, c, offset, r),
         NEW least \in Int, to >= least, x >= least, Halt(<<x, v>>, c.acceleration) >= least,
         r.enabled
  PROVE  p[1] >= least /\ Halt(p, c.acceleration) >= least
<1>1. 0 \in Speeds(c) /\ c.acceleration \in Nat \ {0} /\ x + offset \in Int /\ x + offset >= least
  BY DEF Speeds, Constraints
<1>2. PICK from \in {<<x + offset, 0>>, <<x, v>>} : p \in {from, Calculate(from, to, c)}
  BY DEF Move
<1>3. Halt(<<x + offset, 0>>, c.acceleration) >= least
  <2>1. Brake(0, c.acceleration) \in Nat
    BY <1>1, BrakeBounds
  <2> QED
    BY <1>1, <2>1 DEF Halt
<1>4. CASE from = <<x, v>>
  BY <1>2, <1>4, CalculateStaysAbove
<1>5. CASE from = <<x + offset, 0>>
  BY <1>1, <1>2, <1>3, <1>5, CalculateStaysAbove
<1> QED
  BY <1>2, <1>4, <1>5

\* A tick of the arm.
LEMMA MoveArmKeeps ==
  ASSUME TypeOK, NEW r \in Readings, MoveArm(r)
  PROVE  calibrated' \in SUBSET Mechanisms /\ ArmOK' /\ swerves' \in Nat
<1>1. height \in Int /\ BoundHeight \in Int /\ angle \in Int /\ \A late : BoundAngle(late) \in Int
  BY DEF TypeOK, ArmGoals, height, angle, BoundHeight, BoundAngle, Cap, MaxHeight, SafeHeight
<1>2. calibrated' \in SUBSET Mechanisms
  BY ScoreAssumption DEF MoveArm, TypeOK
<1>3. lift' \in Int /\ liftSpeed' \in Speeds(LiftConstraints)
  <2>1. PICK l \in Move("elevator", <<lift, liftSpeed>>, BoundHeight, LiftConstraints, Offset[1], r) :
          lift' = l[1] /\ liftSpeed' = l[2]
    BY DEF MoveArm
  <2> QED
    BY <1>1, <2>1, Steps, MoveType DEF TypeOK, ArmOK
<1>4. wrist' \in Int /\ wristSpeed' \in Speeds(WristConstraints)
  <2>1. PICK to \in Int :
          \E w \in Move("wrist", <<wrist, wristSpeed>>, to, WristConstraints, Offset[2], r) :
            wrist' = w[1] /\ wristSpeed' = w[2]
    BY <1>1 DEF MoveArm
  <2> QED
    BY <1>1, <2>1, Steps, MoveType DEF TypeOK, ArmOK
<1>5. swerves' \in Nat
  <2>1. swerves \in Nat /\ MaxSwerves + 1 \in Nat
    BY Steps DEF TypeOK
  <2>2. swerves' \in {0, swerves, Cap(swerves + 1, 0, MaxSwerves + 1)}
    BY DEF MoveArm
  <2>3. Cap(swerves + 1, 0, MaxSwerves + 1) \in Nat
    BY <2>1 DEF Cap
  <2> QED
    BY <2>1, <2>2, <2>3
<1> QED
  BY <1>2, <1>3, <1>4, <1>5 DEF ArmOK

\* The fault check follows an elevator that stands still while it is driven.
LEMMA CheckEncoderKeeps ==
  ASSUME IInv, NEW r \in Readings, MoveArm(r), CheckEncoder(r)
  PROVE  stuck' \in 0 .. FaultTicks + 2 /\ fault' \in BOOLEAN /\ StallFaults' /\ StallEnds'
<1> USE Steps
<1>1. stuck \in 0 .. FaultTicks + 2 /\ fault \in BOOLEAN /\ StallFaults /\ StallEnds
  BY DEF IInv, TypeOK
<1>2. CASE ~r.frozen
  <2>1. stuck' = 0 /\ fault' = FALSE
    BY <1>2 DEF CheckEncoder
  <2>2. 0 \in 0 .. FaultTicks + 2 /\ ~(0 > FaultTicks) /\ 0 <= FaultTicks + 1
    OBVIOUS
  <2> QED
    BY <2>1, <2>2 DEF StallFaults, StallEnds
<1>3. CASE r.frozen
  <2>1. "elevator" \in calibrated' => "elevator" \in calibrated
    BY <1>3, ScoreAssumption DEF MoveArm
  <2>2. CASE ~HighVoltage(r)
    BY <1>1, <1>3, <2>1, <2>2 DEF CheckEncoder, StallFaults, StallEnds
  <2>3. CASE HighVoltage(r)
    <3>1. stuck' = Cap(stuck + 1, 0, FaultTicks + 2) /\ fault' = (fault \/ stuck' > FaultTicks)
      BY <1>3, <2>3 DEF CheckEncoder
    <3>2. stuck' \in 0 .. FaultTicks + 2 /\ stuck' <= stuck + 1
      BY <1>1, <3>1 DEF Cap
    <3>3. fault' \in BOOLEAN /\ StallFaults'
      BY <3>1 DEF StallFaults
    <3>4. "elevator" \in calibrated' => ~fault
      BY <2>3 DEF HighVoltage
    <3>5. StallEnds'
      BY <1>1, <3>2, <3>4 DEF StallFaults, StallEnds
    <3> QED
      BY <3>2, <3>3, <3>5
  <2> QED
    BY <2>2, <2>3
<1> QED
  BY <1>2, <1>3

\* The claw's timer stays inside its bound.
LEMMA PinchType ==
  ASSUME TypeOK, NEW r, Pinch(r)
  PROVE  /\ hasCube' \in BOOLEAN
         /\ pinch' \in {"IDLE_WITH_CUBE", "IDLE_NO_CUBE", "MOVING"} /\ pinchTicks' \in -1 .. PinchTicks
<1>1. hasCube' \in BOOLEAN
  BY DEF Pinch
<1>2. pinchTicks' \in -1 .. PinchTicks
  <2>1. PinchTicks \in Nat /\ pinchTicks \in -1 .. PinchTicks
    BY Steps DEF TypeOK
  <2>2. Cap(pinchTicks - 1, -1, PinchTicks) \in -1 .. PinchTicks /\ PinchTicks \in -1 .. PinchTicks
    BY <2>1 DEF Cap
  <2>3. pinchTicks' \in {pinchTicks, Cap(pinchTicks - 1, -1, PinchTicks), PinchTicks}
    BY DEF Pinch
  <2> QED
    BY <2>1, <2>2, <2>3
<1>3. pinch' \in {"IDLE_WITH_CUBE", "IDLE_NO_CUBE", "MOVING"}
  BY DEF Pinch, TypeOK
<1> QED
  BY <1>1, <1>2, <1>3

\* A tick keeps the invariant.
LEMMA TickKeepsInv ==
  ASSUME IInv, NEW r \in Readings, Tick(r), UNCHANGED <<drill, phase, autoVars, drive>>
  PROVE  IInv'
<1>1. UNCHANGED <<goal, cube>> /\ MoveArm(r) /\ CheckEncoder(r) /\ Pinch(r)
  BY DEF Tick
<1>2. calibrated' \in SUBSET Mechanisms /\ ArmOK' /\ swerves' \in Nat
  BY <1>1, MoveArmKeeps DEF IInv
<1>3. stuck' \in 0 .. FaultTicks + 2 /\ fault' \in BOOLEAN /\ StallFaults' /\ StallEnds'
  BY <1>1, CheckEncoderKeeps
<1>4. /\ hasCube' \in BOOLEAN
      /\ pinch' \in {"IDLE_WITH_CUBE", "IDLE_NO_CUBE", "MOVING"} /\ pinchTicks' \in -1 .. PinchTicks
  BY <1>1, PinchType DEF IInv
<1>5. TypeOK'
  BY <1>1, <1>2, <1>3, <1>4 DEF IInv, TypeOK, RoutineOK, autoVars
<1> QED
  BY <1>3, <1>5 DEF IInv

-----------------------------------------------------------------------------
(* The robot.                                                               *)

\* What leaves the elevator and the arm alone keeps what is said of them.
LEMMA ArmStays ==
  ASSUME IInv, UNCHANGED armVars
  PROVE  calibrated' \in SUBSET Mechanisms /\ ArmOK' /\ StallFaults' /\ StallEnds'
         /\ stuck' \in 0 .. FaultTicks + 2 /\ fault' \in BOOLEAN
<1>1. UNCHANGED <<calibrated, lift, liftSpeed, wrist, wristSpeed, stuck, fault>>
  BY DEF armVars, elevatorVars
<1> QED
  BY <1>1 DEF IInv, TypeOK, ArmOK, StallFaults, StallEnds

\* Whatever is selected and announced, there is a program for it.
LEMMA ProgramType ==
  ASSUME NEW selected, NEW layout
  PROVE  Program(selected, layout) \in DOMAIN Programs
BY DEF Program, BySide, Programs

\* A statement is one of the routine's.
LEMMA RunningType ==
  ASSUME TypeOK, NEW op, At(op)
  PROVE  routine \in DOMAIN Programs /\ pc \in 1 .. Len(Programs[routine])
<1>1. routine \in DOMAIN Programs /\ pc \in Nat \ {0} /\ ~(pc > Len(Programs[routine]))
  BY DEF At, Done, TypeOK, RoutineOK
<1>2. Len(Programs[routine]) \in Nat
  BY <1>1, ProgramsType
<1> QED
  BY <1>1, <1>2

\* A statement that sends a goal sends one that the score subsystem knows.
LEMMA StatementType ==
  ASSUME TypeOK, At("goal")
  PROVE  Goal(Programs[routine][pc].score, Programs[routine][pc].intake) \in GoalMessages
<1>1. routine \in DOMAIN Programs /\ pc \in 1 .. Len(Programs[routine])
  BY RunningType
<1>2. Programs[routine][pc] \in Statements /\ Programs[routine][pc].op = "goal"
  BY <1>1, ProgramsType DEF At
<1>3. Programs[routine][pc].score \in ScoreGoals /\ Programs[routine][pc].intake \in IntakeGoals
  BY <1>2 DEF Statements
<1> QED
  BY <1>3 DEF Goal, GoalMessages

\* What leaves the score subsystem alone keeps the invariant.
LEMMA OthersKeepInv ==
  ASSUME IInv, UNCHANGED <<scoreVars, drill>>, phase' \in Phases, RoutineOK'
  PROVE  IInv'
<1>1. UNCHANGED <<goal, armVars, cube, swerves, pinch, pinchTicks, hasCube>>
  BY DEF scoreVars, intakeVars
<1>2. TypeOK'
  BY <1>1, ArmStays DEF IInv, TypeOK
<1> QED
  BY <1>1, <1>2, ArmStays DEF IInv

\* So does a goal message.
LEMMA GoalKeepsInv ==
  ASSUME IInv, NEW g \in GoalMessages, HandleGoal(g), UNCHANGED <<drill, phase>>, RoutineOK'
  PROVE  IInv'
<1>1. goal' \in ArmGoals /\ swerves' \in Nat
  BY HandleGoalKeeps DEF IInv
<1>2. UNCHANGED <<armVars, cube, pinch, pinchTicks, hasCube>>
  BY DEF HandleGoal, intakeVars
<1>3. TypeOK'
  BY <1>1, <1>2, ArmStays DEF IInv, TypeOK
<1> QED
  BY <1>2, <1>3, ArmStays DEF IInv

\* Every step of the match keeps the invariant.
LEMMA NextKeepsInv ==
  ASSUME IInv, MatchNext
  PROVE  IInv'
<1>0. RoutineOK /\ pc + 1 \in Nat \ {0}
  <2>1. RoutineOK
    BY DEF IInv, TypeOK
  <2>2. pc \in Nat
    BY <2>1 DEF RoutineOK
  <2> QED
    BY <2>1, <2>2
<1>1. CASE MatchGoesOn
  <2>1. phase' \in Phases /\ RoutineOK' /\ UNCHANGED <<scoreVars, drill>>
    BY <1>0, <1>1 DEF MatchGoesOn, Phases, autoVars, RoutineOK
  <2> QED
    BY <2>1, OthersKeepInv
<1>2. CASE ScoreTick
  <2>1. PICK r \in Sensors[drill] : Tick(r)
    BY <1>2 DEF ScoreTick
  <2>2. r \in Readings
    BY MatchAssumption DEF IInv, TypeOK
  <2> QED
    BY <1>2, <2>1, <2>2, TickKeepsInv DEF ScoreTick
<1>3. CASE CubeMoves
  <2>1. cube' \in BOOLEAN /\ UNCHANGED <<goal, armVars, intakeVars, swerves, drill, phase, autoVars, drive>>
    BY <1>3 DEF CubeMoves, MoveCube, CubeEnters, CubeLeaves
  <2>2. UNCHANGED <<pinch, pinchTicks, hasCube, routine, pc>>
    BY <2>1 DEF intakeVars, autoVars
  <2>3. TypeOK'
    BY <2>1, <2>2, ArmStays DEF IInv, TypeOK, RoutineOK
  <2> QED
    BY <2>1, <2>3, ArmStays DEF IInv
<1>4. CASE TeleopStep
  <2>1. PICK p \in Presses[drill] : HandleGoal(ScoreSubsystemMessage(p, hasCube))
    <3>1. drill \in DOMAIN Presses /\ hasCube \in BOOLEAN
      BY DEF IInv, TypeOK
    <3>2. Messages[drill][hasCube] = {ScoreSubsystemMessage(p, hasCube) : p \in Presses[drill]}
      BY <3>1 DEF Messages
    <3> QED
      BY <1>4, <3>2 DEF TeleopStep
  <2>2. RoutineOK' /\ UNCHANGED <<drill, phase>>
    BY <1>0, <1>4 DEF TeleopStep, RoutineOK, autoVars
  <2> QED
    BY <2>1, <2>2, MessageType, GoalKeepsInv
<1>5. CASE ChooseRoutine
  <2>1. routine' \in DOMAIN Programs
    BY <1>5, ProgramType DEF ChooseRoutine
  <2>2. RoutineOK' /\ UNCHANGED <<scoreVars, drill, phase>>
    BY <1>0, <1>5, <2>1 DEF ChooseRoutine, RoutineOK
  <2> QED
    BY <2>2, OthersKeepInv DEF IInv, TypeOK
<1>6. CASE SendGoal
  <2>1. HandleGoal(Goal(Programs[routine][pc].score, Programs[routine][pc].intake))
        /\ Goal(Programs[routine][pc].score, Programs[routine][pc].intake) \in GoalMessages
    BY <1>6, StatementType DEF SendGoal, IInv
  <2>2. RoutineOK' /\ UNCHANGED <<drill, phase>>
    BY <1>0, <1>6 DEF SendGoal, RoutineOK
  <2> QED
    BY <2>1, <2>2, GoalKeepsInv
<1>7. CASE SendDrive \/ GoOn
  <2>1. pc' = pc + 1 /\ drive' \in {drive, "under way"}
        /\ UNCHANGED <<scoreVars, drill, phase, routine>>
    BY <1>7 DEF SendDrive, GoOn
  <2>2. RoutineOK'
    BY <1>0, <2>1 DEF RoutineOK
  <2> QED
    BY <2>1, <2>2, OthersKeepInv DEF IInv, TypeOK
<1>8. CASE DriveOn
  <2>1. RoutineOK' /\ UNCHANGED <<scoreVars, drill, phase>>
    BY <1>0, <1>8 DEF DriveOn, RoutineOK, autoVars
  <2> QED
    BY <2>1, OthersKeepInv DEF IInv, TypeOK
<1> QED
  BY <1>1, <1>2, <1>3, <1>4, <1>5, <1>6, <1>7, <1>8 DEF MatchNext, RunStatement

\* So does a step that leaves the robot alone.
LEMMA StutterKeepsInv == IInv /\ UNCHANGED matchVars => IInv'
<1> SUFFICES ASSUME IInv, UNCHANGED matchVars PROVE IInv'
  OBVIOUS
<1>1. UNCHANGED <<scoreVars, drill, phase, routine, pc, drive>>
  BY DEF matchVars, autoVars
<1>2. RoutineOK' /\ phase' \in Phases
  BY <1>1 DEF IInv, TypeOK, RoutineOK
<1> QED
  BY <1>1, <1>2, OthersKeepInv

\* The inductive invariant of the match: types, what is calibrated and what is not, and
\* how long a stall can have been going on.
THEOREM Invariance == MatchSpec => []IInv
<1>1. IInv /\ [MatchNext]_matchVars => IInv'
  BY NextKeepsInv, StutterKeepsInv
<1> QED
  BY <1>1, InitInv, PTL DEF MatchSpec

\* Every variable keeps to its type.
THEOREM TypeCorrect == MatchSpec => []TypeOK
BY Invariance, PTL DEF IInv

\* The fault check ends the pushing of an elevator that stands still, however its
\* calls are spaced and whatever happens in between.
THEOREM StallIsFound == MatchSpec => []StallEnds
BY Invariance, PTL DEF IInv

\* Whatever goals come and whenever, and at any speed of the two, an elevator that is
\* high for the wrist, and can still halt there, stays so while the power is on: the
\* height that it is bound to is safe, and its profile brakes in time for it.
THEOREM ElevatorStaysHigh == MatchSpec => StaysHighForWrist
<1> DEFINE Stays == Enabled /\ wrist > SafeAngle /\ High => High'
<1>1. ASSUME IInv, [MatchNext]_matchVars PROVE Stays
  <2> SUFFICES ASSUME Enabled, wrist > SafeAngle, High PROVE High'
    OBVIOUS
  <2>1. CASE ScoreTick
    <3>1. PICK r \in Sensors[drill] : r.enabled /\ MoveArm(r)
      BY <2>1 DEF ScoreTick, Tick
    <3>2. PICK l \in Move("elevator", <<lift, liftSpeed>>, BoundHeight, LiftConstraints, Offset[1], r) :
            lift' = l[1] /\ liftSpeed' = l[2]
      BY <3>1 DEF MoveArm
    <3>3. BoundHeight \in Int /\ BoundHeight >= SafeHeight /\ SafeHeight \in Int
      BY <1>1 DEF BoundHeight, Cap, MaxHeight, SafeHeight, IInv, TypeOK, ArmGoals, height
    <3>4. lift \in Int /\ liftSpeed \in Speeds(LiftConstraints)
      BY <1>1 DEF IInv, TypeOK, ArmOK
    <3>5. l[1] >= SafeHeight /\ Halt(l, LiftConstraints.acceleration) >= SafeHeight
      BY <3>1, <3>3, <3>4, Steps, MoveStaysAbove DEF High
    <3>6. Halt(<<lift', liftSpeed'>>, LiftConstraints.acceleration) = Halt(l, LiftConstraints.acceleration)
      BY <3>2 DEF Halt
    <3> QED
      BY <3>2, <3>5, <3>6 DEF High
  <2>2. CASE ~ScoreTick
    <3>1. UNCHANGED <<lift, liftSpeed>>
      BY <1>1, <2>2 DEF MatchNext, MatchGoesOn, CubeMoves, MoveCube, TeleopStep, HandleGoal, ChooseRoutine,
            RunStatement, SendGoal, SendDrive, GoOn, DriveOn, matchVars, scoreVars, armVars, elevatorVars
    <3> QED
      BY <3>1 DEF High
  <2> QED
    BY <2>1, <2>2
<1>2. IInv /\ [MatchNext]_matchVars => [Stays]_matchVars
  BY <1>1
<1> QED
  BY <1>2, Invariance, PTL DEF MatchSpec, StaysHighForWrist

-----------------------------------------------------------------------------
(* Where autonomous lets cubes go.                                          *)

\* A statement that only sends a posture to score from, one that lets a cube go, and
\* the places of a program before which the last goal sent was of the first kind.
Aims(s) == s.op = "goal" /\ s.score \in ScoringGoals /\ s.intake = "INTAKE_NONE"
LetsGo(s) == s.op = "goal" /\ s.intake \in Outtakes
Aimed(p) ==
  {i \in Nat : \E j \in 1 .. i - 1 : Aims(p[j]) /\ \A k \in j + 1 .. i - 1 : p[k].op # "goal"}

Pauses == {StartDrive, Near, DriveComplete, WaitForCube, WaitForCubeOrTimeout, Wait}
Others == {IntakeGround, ForceIntake, IntakeOpen, IntakeClose, StopIntakeGround}
Moves == {MoveTo("SWITCH"), MoveTo("SCALE_LOW_REVERSE"), MoveTo("SCALE_SHOOT"),
          MoveTo("SCALE_HIGH_FORWARD"), MoveTo("INTAKE_0"), MoveTo("INTAKE_1"), MoveTo("STOW")}

\* What each statement does.
LEMMA Kinds ==
  /\ \A g \in ScoringGoals : Aims(MoveTo(g))
  /\ \A s \in Pauses : s.op # "goal"
  /\ \A s \in Pauses \cup Others \cup Moves : ~LetsGo(s)
<1>1. \A g : MoveTo(g).op = "goal" /\ MoveTo(g).score = g /\ MoveTo(g).intake = "INTAKE_NONE"
  BY DEF MoveTo, Send
<1>2. \A s \in Pauses : s.op # "goal"
  BY DEF Pauses, StartDrive, Near, DriveComplete, WaitForCube, WaitForCubeOrTimeout, Wait
<1>3. \A s \in Others : s.intake \in Intakes \cup {"INTAKE_NONE"}
  BY DEF Others, IntakeGround, ForceIntake, IntakeOpen, IntakeClose, StopIntakeGround, Send, Intakes
<1>4. (Intakes \cup {"INTAKE_NONE"}) \cap Outtakes = {}
  BY DEF Intakes, Outtakes
<1>5. \A s \in Moves : s.intake = "INTAKE_NONE"
  BY <1>1 DEF Moves
<1> QED
  BY <1>1, <1>2, <1>3, <1>4, <1>5 DEF Aims, LetsGo

\* In RightRightSwitch a posture comes before every cube that is let go.
LEMMA RightRightSwitchAims == \A i \in 1 .. Len(RightRightSwitch) : LetsGo(RightRightSwitch[i]) => i \in Aimed(RightRightSwitch)
<1> DEFINE p == RightRightSwitch
<1>1. Len(p) = 30 /\ \A i \in 1 .. 30 : i \in {4, 14} \/ p[i] \in Pauses \cup Others \cup Moves
  BY DEF RightRightSwitch, Pauses, Others, Moves
<1>2. /\ p[2] = MoveTo("SCALE_LOW_REVERSE") /\ {p[3]} \subseteq Pauses
      /\ p[12] = MoveTo("SCALE_LOW_REVERSE") /\ {p[13]} \subseteq Pauses
  BY DEF RightRightSwitch, Pauses
<1> HIDE DEF p
<1>3. {4, 14} \subseteq Aimed(p)
  BY <1>2, Kinds DEF Aimed, ScoringGoals
<1> QED
  BY <1>1, <1>3, Kinds DEF p

\* In RightScale a posture comes before every cube that is let go.
LEMMA RightScaleAims == \A i \in 1 .. Len(RightScale) : LetsGo(RightScale[i]) => i \in Aimed(RightScale)
<1> DEFINE p == RightScale
<1>1. Len(p) = 42 /\ \A i \in 1 .. 42 : i \in {13, 26, 37} \/ p[i] \in Pauses \cup Others \cup Moves
  BY DEF RightScale, Pauses, Others, Moves
<1>2. /\ p[9] = MoveTo("SCALE_SHOOT") /\ {p[10], p[11], p[12]} \subseteq Pauses
      /\ p[23] = MoveTo("SCALE_SHOOT") /\ {p[24], p[25]} \subseteq Pauses
      /\ p[34] = MoveTo("SCALE_SHOOT") /\ {p[35], p[36]} \subseteq Pauses
  BY DEF RightScale, Pauses
<1> HIDE DEF p
<1>3. {13, 26, 37} \subseteq Aimed(p)
  BY <1>2, Kinds DEF Aimed, ScoringGoals
<1> QED
  BY <1>1, <1>3, Kinds DEF p

\* In LeftScale a posture comes before every cube that is let go.
LEMMA LeftScaleAims == \A i \in 1 .. Len(LeftScale) : LetsGo(LeftScale[i]) => i \in Aimed(LeftScale)
<1> DEFINE p == LeftScale
<1>1. Len(p) = 32 /\ \A i \in 1 .. 32 : i \in {4, 17, 28} \/ p[i] \in Pauses \cup Others \cup Moves
  BY DEF LeftScale, Pauses, Others, Moves
<1>2. /\ p[1] = MoveTo("SCALE_SHOOT") /\ {p[2], p[3]} \subseteq Pauses
      /\ p[15] = MoveTo("SCALE_SHOOT") /\ {p[16]} \subseteq Pauses
      /\ p[26] = MoveTo("SCALE_SHOOT") /\ {p[27]} \subseteq Pauses
  BY DEF LeftScale, Pauses
<1> HIDE DEF p
<1>3. {4, 17, 28} \subseteq Aimed(p)
  BY <1>2, Kinds DEF Aimed, ScoringGoals
<1> QED
  BY <1>1, <1>3, Kinds DEF p

\* In SneakLeft a posture comes before every cube that is let go.
LEMMA SneakLeftAims == \A i \in 1 .. Len(SneakLeft) : LetsGo(SneakLeft[i]) => i \in Aimed(SneakLeft)
<1> DEFINE p == SneakLeft
<1>1. Len(p) = 24 /\ \A i \in 1 .. 24 : i \in {4, 20} \/ p[i] \in Pauses \cup Others \cup Moves
  BY DEF SneakLeft, Pauses, Others, Moves
<1>2. /\ p[1] = MoveTo("SCALE_SHOOT") /\ {p[2], p[3]} \subseteq Pauses
      /\ p[15] = MoveTo("SCALE_HIGH_FORWARD") /\ {p[16], p[17], p[18], p[19]} \subseteq Pauses
  BY DEF SneakLeft, Pauses
<1> HIDE DEF p
<1>3. {4, 20} \subseteq Aimed(p)
  BY <1>2, Kinds DEF Aimed, ScoringGoals
<1> QED
  BY <1>1, <1>3, Kinds DEF p

\* In SneakRight a posture comes before every cube that is let go.
LEMMA SneakRightAims == \A i \in 1 .. Len(SneakRight) : LetsGo(SneakRight[i]) => i \in Aimed(SneakRight)
<1> DEFINE p == SneakRight
<1>1. Len(p) = 19 /\ \A i \in 1 .. 19 : i \in {15} \/ p[i] \in Pauses \cup Others \cup Moves
  BY DEF SneakRight, Pauses, Others, Moves
<1>2. p[11] = MoveTo("SCALE_HIGH_FORWARD") /\ {p[12], p[13], p[14]} \subseteq Pauses
  BY DEF SneakRight, Pauses
<1> HIDE DEF p
<1>3. {15} \subseteq Aimed(p)
  BY <1>2, Kinds DEF Aimed, ScoringGoals
<1> QED
  BY <1>1, <1>3, Kinds DEF p

\* In LeftSwitch a posture comes before every cube that is let go.
LEMMA LeftSwitchAims == \A i \in 1 .. Len(LeftSwitch) : LetsGo(LeftSwitch[i]) => i \in Aimed(LeftSwitch)
<1> DEFINE p == LeftSwitch
<1>1. Len(p) = 21 /\ \A i \in 1 .. 21 : i \in {4, 20} \/ p[i] \in Pauses \cup Others \cup Moves
  BY DEF LeftSwitch, Pauses, Others, Moves
<1>2. /\ p[2] = MoveTo("SWITCH") /\ {p[3]} \subseteq Pauses
      /\ p[18] = MoveTo("SWITCH") /\ {p[19]} \subseteq Pauses
  BY DEF LeftSwitch, Pauses
<1> HIDE DEF p
<1>3. {4, 20} \subseteq Aimed(p)
  BY <1>2, Kinds DEF Aimed, ScoringGoals
<1> QED
  BY <1>1, <1>3, Kinds DEF p

\* In SwitchBack a posture comes before every cube that is let go.
LEMMA SwitchBackAims == \A i \in 1 .. Len(SwitchBack) : LetsGo(SwitchBack[i]) => i \in Aimed(SwitchBack)
<1> DEFINE p == SwitchBack
<1>1. Len(p) = 32 /\ \A i \in 1 .. 32 : i \in {6, 21, 32} \/ p[i] \in Pauses \cup Others \cup Moves
  BY DEF SwitchBack, Pauses, Others, Moves
<1>2. /\ p[1] = MoveTo("SWITCH") /\ {p[2], p[3], p[4], p[5]} \subseteq Pauses
      /\ p[17] = MoveTo("SWITCH") /\ {p[18], p[19], p[20]} \subseteq Pauses
      /\ p[28] = MoveTo("SWITCH") /\ {p[29], p[30], p[31]} \subseteq Pauses
  BY DEF SwitchBack, Pauses
<1> HIDE DEF p
<1>3. {6, 21, 32} \subseteq Aimed(p)
  BY <1>2, Kinds DEF Aimed, ScoringGoals
<1> QED
  BY <1>1, <1>3, Kinds DEF p

\* In every routine.
LEMMA AimsBeforeLettingGo ==
  ASSUME NEW r \in DOMAIN Programs, NEW i \in 1 .. Len(Programs[r]), LetsGo(Programs[r][i])
  PROVE  i \in Aimed(Programs[r])
<1>1. \A k \in 1 .. Len(DriveBackwards) : ~LetsGo(DriveBackwards[k])
  BY Kinds DEF DriveBackwards, Pauses
<1>2. \A k \in 1 .. Len(NoneAuto) : ~LetsGo(NoneAuto[k])
  BY Kinds DEF NoneAuto, Pauses
<1>3. \A k : k \notin 1 .. Len(<<>>)
  OBVIOUS
<1>4. \A p \in Routines : \A k \in 1 .. Len(p) : LetsGo(p[k]) => k \in Aimed(p)
  BY <1>1, <1>2, <1>3, RightRightSwitchAims, RightScaleAims, LeftScaleAims, SneakLeftAims,
     SneakRightAims, LeftSwitchAims, SwitchBackAims DEF Routines
<1> QED
  BY <1>4, OneOfTheRoutines

\* A statement further, the last goal is the one just sent or the one before.
LEMMA AimedNext ==
  ASSUME NEW p, NEW i \in Nat \ {0}, i + 1 \in Aimed(p)
  PROVE  Aims(p[i]) \/ (i \in Aimed(p) /\ p[i].op # "goal")
<1>1. PICK j \in 1 .. i : Aims(p[j]) /\ \A k \in j + 1 .. i : p[k].op # "goal"
  BY DEF Aimed
<1>2. CASE j = i
  BY <1>1, <1>2
<1>3. CASE j # i
  BY <1>1, <1>3 DEF Aimed
<1> QED
  BY <1>2, <1>3

\* The goal of the arm is where autonomous has last sent it to score from, and while a
\* routine runs in its period the robot is calibrated.
AimHeld ==
  IsAutonomous /\ routine # "waiting" /\ pc \in Aimed(Programs[routine])
    => <<height, angle>> \in ScoringPostures
PeriodsInOrder ==
  /\ routine = "waiting" => pc = 1
  /\ phase = "before" => routine = "waiting"
  /\ IsAutonomous => Calibrated

\* A message that only sends a posture to score from takes a calibrated robot's goal there.
LEMMA AimScores ==
  ASSUME TypeOK, Calibrated, NEW g \in ScoringGoals, HandleGoal(Goal(g, "INTAKE_NONE"))
  PROVE  <<height', angle'>> \in ScoringPostures
<1> DEFINE m == Goal(g, "INTAKE_NONE")
           posed == SetPosture(goal, m)
           s == SetIntake(posed, "INTAKE_NONE")
<1>1. g \in DOMAIN Posture /\ g # "SCORE_NONE"
  BY DEF ScoringGoals, Posture
<1>2. m \in GoalMessages
  BY <1>1 DEF Goal, GoalMessages, ScoreGoals, IntakeGoals
<1>3. posed \in ArmGoals
  BY <1>2, SetPostureKeeps DEF TypeOK
<1>4. posed.height = Cap(Posture[g][1], 0, MaxHeight) /\ posed.angle = Posture[g][2]
  <2>1. posed = [goal EXCEPT !.height = Cap(Posture[g][1] + 0, 0, MaxHeight),
                             !.angle = Cap(Posture[g][2] + 0, 0, MaxAngle)]
    BY <1>1 DEF SetPosture, Goal
  <2>2. Posture[g][1] + 0 = Posture[g][1] /\ Cap(Posture[g][2] + 0, 0, MaxAngle) = Posture[g][2]
    BY <1>1, PostureType DEF Cap, MaxAngle
  <2>3. posed = [goal EXCEPT !.height = Cap(Posture[g][1], 0, MaxHeight), !.angle = Posture[g][2]]
    BY <2>1, <2>2
  <2> HIDE DEF posed
  <2> QED
    BY <2>3 DEF TypeOK, ArmGoals
<1>5. s = GoToState(posed, "HOLDING", "INTAKE_NONE")
  BY DEF SetIntake, Intakes
<1> HIDE DEF posed
<1>6. s \in ArmGoals /\ s.height = posed.height /\ s.angle = posed.angle /\ s.state = "HOLDING"
  BY <1>3, <1>5, GoToStateKeeps DEF States, IntakingStates, IntakeGoals
<1>7. goal' = RunStateMachine(s)
  BY DEF HandleGoal, SetGoal, posed, Goal
<1> HIDE DEF s
<1>8. RunStateMachine(s) = s
  BY <1>6 DEF RunStateMachine
<1> QED
  BY <1>4, <1>6, <1>7, <1>8 DEF ScoringPostures, height, angle

\* Before autonomous has begun there is nothing to aim.
LEMMA AimInit == MatchInit => PeriodsInOrder /\ AimHeld
BY DEF MatchInit, PeriodsInOrder, AimHeld, IsAutonomous

\* Once it has chosen its routine, autonomous goes on through it.
LEMMA StatementKeepsAim ==
  ASSUME IInv, PeriodsInOrder, AimHeld, RunStatement
  PROVE  AimHeld'
<1> SUFFICES ASSUME IsAutonomous', routine' # "waiting", pc' \in Aimed(Programs[routine])'
             PROVE  <<height', angle'>> \in ScoringPostures
  BY DEF AimHeld
<1> DEFINE p == Programs[routine]
<1>1. pc \in Nat \ {0} /\ pc' = pc + 1 /\ UNCHANGED <<phase, routine>> /\ routine # "waiting"
  BY DEF RunStatement, SendGoal, SendDrive, GoOn, IInv, TypeOK, RoutineOK
<1>2. IsAutonomous /\ Calibrated
  BY <1>1 DEF IsAutonomous, PeriodsInOrder
<1>3. Aims(p[pc]) \/ (pc \in Aimed(p) /\ p[pc].op # "goal")
  BY <1>1, AimedNext
<1>4. CASE SendGoal
  <2>1. p[pc].op = "goal" /\ HandleGoal(Goal(p[pc].score, p[pc].intake))
    BY <1>4 DEF SendGoal, At
  <2>2. p[pc].score \in ScoringGoals /\ p[pc].intake = "INTAKE_NONE"
    BY <1>3, <2>1 DEF Aims
  <2> QED
    BY <1>2, <2>1, <2>2, AimScores DEF IInv
<1>5. CASE SendDrive \/ GoOn
  <2>1. p[pc].op # "goal"
    BY <1>5 DEF SendDrive, GoOn, WaitIsOver, At
  <2>2. pc \in Aimed(p)
    BY <1>3, <2>1 DEF Aims
  <2>3. UNCHANGED goal
    BY <1>5 DEF SendDrive, GoOn, scoreVars
  <2> QED
    BY <1>1, <1>2, <2>2, <2>3 DEF AimHeld, height, angle
<1> QED
  BY <1>4, <1>5 DEF RunStatement

\* Teleop and ticks leave the aim of autonomous as it is.
LEMMA NextKeepsAim ==
  ASSUME IInv, PeriodsInOrder, AimHeld, [MatchNext]_matchVars
  PROVE  PeriodsInOrder' /\ AimHeld'
<1>1. Calibrated => Calibrated'
  <2>1. calibrated' = calibrated \/ \E r \in Readings : calibrated' = calibrated \cup r.hall
    BY MatchAssumption
    DEF MatchNext, MatchGoesOn, ScoreTick, Tick, MoveArm, CubeMoves, MoveCube, TeleopStep, HandleGoal,
        ChooseRoutine, RunStatement, SendGoal, SendDrive, GoOn, DriveOn, matchVars, scoreVars, armVars,
        IInv, TypeOK
  <2> QED
    BY <2>1, ScoreAssumption DEF Calibrated
<1>2. CASE MatchGoesOn
  BY <1>1, <1>2 DEF MatchGoesOn, PeriodsInOrder, AimHeld, IsAutonomous, autoVars
<1>3. CASE ScoreTick \/ CubeMoves \/ DriveOn \/ UNCHANGED matchVars
  <2>1. UNCHANGED <<goal, phase, routine, pc>>
    BY <1>3 DEF ScoreTick, Tick, CubeMoves, MoveCube, DriveOn, matchVars, scoreVars, autoVars
  <2> QED
    BY <1>1, <2>1 DEF PeriodsInOrder, AimHeld, IsAutonomous, height, angle
<1>4. CASE TeleopStep
  BY <1>1, <1>4
  DEF TeleopStep, PeriodsInOrder, AimHeld, IsAutonomous, IsOperatorControl, autoVars
<1>5. CASE ChooseRoutine
  <2>1. pc' = 1 /\ IsAutonomous /\ UNCHANGED phase
    BY <1>5 DEF ChooseRoutine, PeriodsInOrder
  <2>2. \A p : 1 \notin Aimed(p)
    BY DEF Aimed
  <2> QED
    BY <1>1, <2>1, <2>2 DEF PeriodsInOrder, AimHeld, IsAutonomous
<1>6. CASE RunStatement
  <2>1. UNCHANGED <<phase, routine>> /\ routine # "waiting"
    BY <1>6 DEF RunStatement, SendGoal, SendDrive, GoOn, WaitIsOver, At
  <2> QED
    BY <1>1, <1>6, <2>1, StatementKeepsAim DEF PeriodsInOrder, IsAutonomous
<1> QED
  BY <1>2, <1>3, <1>4, <1>5, <1>6 DEF MatchNext

\* Whatever the field announces, wherever the routine waits and whatever becomes of the
\* cubes, autonomous only lets a cube go with the arm sent to where it scores.
THEOREM AutonomousScores == MatchSpec => ScoresInPosture
<1> DEFINE Scores == IsAutonomous /\ pc' # pc /\ At("goal") /\ Programs[routine][pc].intake \in Outtakes
                       => <<height, angle>> \in ScoringPostures
<1>1. IInv /\ PeriodsInOrder /\ AimHeld /\ [MatchNext]_matchVars => PeriodsInOrder' /\ AimHeld'
  BY NextKeepsAim
<1>2. IInv /\ AimHeld => Scores
  <2> SUFFICES ASSUME IInv, AimHeld, IsAutonomous, At("goal"), LetsGo(Programs[routine][pc])
               PROVE  <<height, angle>> \in ScoringPostures
    BY DEF LetsGo, At
  <2>1. routine \in DOMAIN Programs /\ pc \in 1 .. Len(Programs[routine])
    BY RunningType DEF IInv
  <2> QED
    BY <2>1, AimsBeforeLettingGo DEF AimHeld, At
<1>3. IInv /\ AimHeld => [Scores]_matchVars
  BY <1>2
<1> QED
  BY <1>1, <1>3, AimInit, Invariance, PTL DEF MatchSpec, ScoresInPosture
=============================================================================
