------------------------ MODULE SuperstructureProofs ------------------------
(***************************************************************************)
(* Safety of the superstructure for every set of goals and readings, every *)
(* uninitialised content of the goals and every length of the timers; of   *)
(* the superstructure that a driver's buttons command; and of the arm that *)
(* it moves, for every elevator and every wrist that is not faster than    *)
(* the arc is wide.                                                        *)
(***************************************************************************)
EXTENDS SuperstructurePlant, DriverButtons, ButtonRulesProofs, TLAPS

\* What the mechanisms owe to the order in which goals set the flags: a goal that
\* crawls has put the elevator in low gear and the crawlers down.
CrawlReady == crawling => ~highGear /\ crawlerDown

\* The flutes that grip are in a state that keeps gripping until it is changed.
GripKept == flute => HatchIntake!Grips(hatchState)

IInv == TypeOK /\ CalibratedFirst /\ CrawlReady /\ CrawlersSafe /\ GripKept

AllGoals == [score : ScoreGoals, intake : IntakeGoals, lift : Int, tilt : Int]

\* What can happen to it, whoever sends the goals.
AnyStep == \/ \E c \in AllGoals : HandleGoal(c)
           \/ \E r \in Readings : Latched(r) /\ Control(r)

Machines == [state : States, intake : IntakeGoals]

-----------------------------------------------------------------------------
\* Every scoring goal's position is a pair of numbers.
LEMMA PositionType == \A s \in DOMAIN Position : Position[s][1] \in Int /\ Position[s][2] \in Int
  BY DEF Position

\* So is the stow position.
LEMMA StowType == StowHeight \in Int /\ StowAngle \in Int
  BY DEF StowHeight, StowAngle, Position

\* Cap gives a number.
LEMMA CapType ==
  \A x \in Int :
    Elevator!Cap(x, Elevator!kMinHeight, Elevator!kMaxHeight) \in Elevator!kMinHeight .. Elevator!kMaxHeight
  BY DEF Elevator!Cap, Elevator!kMinHeight, Elevator!kMaxHeight

\* What a goal sets has its type.
LEMMA GoalTypes ==
  ASSUME TypeOK, NEW c \in AllGoals PROVE GoalHeight(c) \in Int /\ GoalAngle(c) \in Int
<1>1. c.lift \in Int /\ c.tilt \in Int
  BY DEF AllGoals
<1>2. elevatorHeight \in Int /\ wristAngle \in Int
  BY DEF TypeOK
<1>3. GoalHeight(c) \in Int
  BY <1>1, <1>2, PositionType DEF GoalHeight, Elevator!Cap, Elevator!kMinHeight, Elevator!kMaxHeight
<1>4. GoalAngle(c) \in Int
  BY <1>1, <1>2, PositionType DEF GoalAngle, Elevator!Cap, Wrist!kMinAngle, Wrist!kMaxAngle
<1> QED BY <1>3, <1>4

-----------------------------------------------------------------------------
\* GoToState yields a machine, and leaves CALIBRATING only when calibrated.
LEMMA GoToStateType ==
  ASSUME NEW m \in Machines, NEW s \in States, NEW i \in IntakeGoals
  PROVE  /\ GoToState(m, s, i) \in Machines
         /\ m.state = "CALIBRATING" /\ ~Calibrated => GoToState(m, s, i).state = "CALIBRATING"
  BY DEF GoToState, Machine, Machines

\* What SetIntakeGoal sets has its type.
LEMMA SetIntakeType ==
  ASSUME TypeOK, NEW c \in AllGoals, NEW h, NEW a
  PROVE  /\ SetIntake(c, h, a) \in Machines
         /\ state = "CALIBRATING" /\ ~Calibrated => SetIntake(c, h, a).state = "CALIBRATING"
<1> DEFINE m == Machine(state, IF c.score \in HatchScores THEN "PREP_SCORE" ELSE intakeGoal)
           ground == GoToState(m, "INTAKING_GROUND", c.intake)
<1>1. c.intake \in IntakeGoals
  BY DEF AllGoals
<1>2. m \in Machines /\ m.state = state
  BY DEF Machine, Machines, TypeOK, IntakeGoals
<1>3. \A s \in States :
        /\ GoToState(m, s, c.intake) \in Machines
        /\ state = "CALIBRATING" /\ ~Calibrated => GoToState(m, s, c.intake).state = "CALIBRATING"
  BY <1>1, <1>2, GoToStateType
<1>4. ground \in Machines /\ (state = "CALIBRATING" /\ ~Calibrated => ground.state = "CALIBRATING")
  BY <1>3 DEF States
<1>5. /\ GoToState(ground, "INTAKING_TO_STOW", c.intake) \in Machines
      /\ state = "CALIBRATING" /\ ~Calibrated
         => GoToState(ground, "INTAKING_TO_STOW", c.intake).state = "CALIBRATING"
  <2> HIDE DEF ground
  <2> QED BY <1>1, <1>4, GoToStateType DEF States
<1>6. /\ Machine(state, "INTAKE_NONE") \in Machines
      /\ Machine(state, "INTAKE_NONE").state = state
  BY DEF Machine, Machines, TypeOK, IntakeGoals
<1> HIDE DEF m
<1>7. {"INTAKING_TO_STOW", "INTAKING_WRIST", "INTAKING_GROUND", "HOLDING"} \subseteq States
  BY DEF States
<1> QED BY <1>1, <1>2, <1>3, <1>4, <1>5, <1>6, <1>7 DEF SetIntake, IntakeGoals, m

\* RunStateMachine leaves goals of the right type and CALIBRATING only when calibrated.
LEMMA RunType ==
  ASSUME TypeOK, NEW m \in Machines, NEW h \in Int, NEW a \in Int, RunStateMachine(m, h, a)
  PROVE  /\ state' \in States /\ intakeGoal' \in IntakeGoals
         /\ elevatorHeight' \in Int /\ wristAngle' \in Int /\ counter' \in 0 .. StowTicks
         /\ m.state = "CALIBRATING" /\ ~Calibrated => state' = "CALIBRATING"
<1>1. /\ GoToState(m, "HOLDING", "INTAKE_NONE") \in Machines
      /\ m.state = "CALIBRATING" /\ ~Calibrated
         => GoToState(m, "HOLDING", "INTAKE_NONE").state = "CALIBRATING"
  BY GoToStateType DEF States, IntakeGoals
<1>2. /\ m.state \in States /\ m.intake \in IntakeGoals
      /\ counter \in 0 .. StowTicks /\ height \in Int /\ angle \in Int
  BY DEF Machines, TypeOK, Elevator!TypeOK, Wrist!TypeOK
<1>3. \A x, y \in Int :
        Stay(m, x, y) \/ Hold(m, x, y)
        => /\ state' \in States /\ intakeGoal' \in IntakeGoals
           /\ elevatorHeight' \in Int /\ wristAngle' \in Int
           /\ m.state = "CALIBRATING" /\ ~Calibrated => state' = "CALIBRATING"
  BY <1>1, <1>2 DEF Stay, Hold, Machines
<1>4. counter' \in 0 .. StowTicks
  BY <1>2, TicksAssumption
     DEF RunStateMachine, Calibrate, Rest, IntakeGround, IntakeWrist, IntakeToStow
<1>5. \E x, y \in Int : Stay(m, x, y) \/ Hold(m, x, y)
  BY <1>2, StowType
     DEF RunStateMachine, Calibrate, Rest, IntakeGround, IntakeWrist, IntakeToStow, Stow
<1> QED BY <1>3, <1>4, <1>5

-----------------------------------------------------------------------------
\* The constructor establishes the invariant.
LEMMA InitIInv == Init => IInv
<1> SUFFICES ASSUME Init PROVE IInv
  OBVIOUS
<1>1. elevatorHeight \in Int /\ wristAngle \in Int
  BY GarbageAssumption DEF Init
<1>2. /\ Elevator!Init /\ Wrist!Init /\ HatchIntake!Init
      /\ CargoIntake!Init /\ GroundHatchIntake!Init /\ Winch!Init
  BY DEF Init
<1>3. /\ StowTicks \in Nat /\ ScoreTicks \in Nat /\ OuttakeTicks \in Nat
      /\ PickupTicks \in Nat /\ EjectTicks \in Nat /\ CrawlerTicks \in Nat
  BY TicksAssumption
<1>4. Elevator!TypeOK
  <2> USE DEF Elevator!Init
  <2>1. zeroed \in BOOLEAN /\ elevatorOn \in BOOLEAN /\ braking \in BOOLEAN /\ lowGear \in BOOLEAN
    BY <1>2, Zenon
  <2>2. crawlerOne \in BOOLEAN /\ crawlerTwo \in BOOLEAN /\ crawlerDriven \in BOOLEAN
    BY <1>2, Zenon
  <2>3. disk \in {"UNLOCKED", "CHANGING", "LOCKED"}
    BY <1>2
  <2>4. height = 0 /\ elevatorSetpoint = 0 /\ crawlerCounter = 0
    BY <1>2
  <2> QED BY <2>1, <2>2, <2>3, <2>4, <1>3 DEF Elevator!TypeOK, Elevator!kMinHeight, Elevator!kMaxHeight
<1>5. Wrist!TypeOK
  <2>1. wristCalibrated \in BOOLEAN /\ wristOn \in BOOLEAN
    BY <1>2, Zenon DEF Wrist!Init
  <2>2. angle = 0 /\ wristSetpoint = 0
    BY <1>2 DEF Wrist!Init
  <2> QED BY <2>1, <2>2 DEF Wrist!TypeOK, Wrist!kMinAngle, Wrist!kMaxAngle
<1>6. HatchIntake!TypeOK
  <2>1. flute \in BOOLEAN /\ backplate \in BOOLEAN
    BY <1>2, Zenon DEF HatchIntake!Init
  <2>2. hatchState \in HatchIntake!States /\ scoreCounter = 0
    BY <1>2 DEF HatchIntake!Init, HatchIntake!States
  <2> QED BY <2>1, <2>2, <1>3 DEF HatchIntake!TypeOK
<1>7. CargoIntake!TypeOK
  BY <1>2, <1>3 DEF CargoIntake!Init, CargoIntake!TypeOK, CargoIntake!States
<1>8. GroundHatchIntake!TypeOK
  <2>1. snapDown \in BOOLEAN
    BY <1>2, Zenon DEF GroundHatchIntake!Init
  <2>2. /\ groundState \in GroundHatchIntake!States
        /\ pickupCounter = 0 /\ ejectCounter = 0 /\ groundRoller = 0
    BY <1>2 DEF GroundHatchIntake!Init, GroundHatchIntake!States
  <2> QED BY <2>1, <2>2, <1>3 DEF GroundHatchIntake!TypeOK
<1>9. Winch!TypeOK
  BY <1>2 DEF Winch!Init, Winch!TypeOK
<1>10. state = "CALIBRATING" /\ crawling = FALSE /\ crawlerDriven = FALSE /\ flute = FALSE
  BY <1>2 DEF Init, Elevator!Init, HatchIntake!Init
<1>11. TypeOK
  <2>1. /\ state \in States /\ intakeGoal \in IntakeGoals /\ counter \in 0 .. StowTicks
    BY <1>3 DEF Init, States, IntakeGoals
  <2>2. /\ crawling \in BOOLEAN /\ highGear \in BOOLEAN /\ crawlerDown \in BOOLEAN
        /\ brake \in BOOLEAN /\ shouldClimb \in BOOLEAN /\ buddy \in BOOLEAN
        /\ cargoOut \in BOOLEAN /\ hasHatch \in BOOLEAN /\ hasCargo \in BOOLEAN
        /\ enabled \in BOOLEAN /\ positioned \in BOOLEAN
    BY DEF Init
  <2> QED BY <2>1, <2>2, <1>1, <1>4, <1>5, <1>6, <1>7, <1>8, <1>9 DEF TypeOK
<1>12. CalibratedFirst /\ CrawlReady /\ CrawlersSafe /\ GripKept
  BY <1>10 DEF CalibratedFirst, CrawlReady, CrawlersSafe, GripKept
<1> QED BY <1>11, <1>12 DEF IInv

-----------------------------------------------------------------------------
\* Handling a goal: only the superstructure's own goals change.
LEMMA HandleGoalIInv ==
  ASSUME IInv, NEW c \in AllGoals, HandleGoal(c) PROVE IInv'
<1> DEFINE h == GoalHeight(c)
           a == GoalAngle(c)
           m == SetIntake(c, h, a)
<1>0. TypeOK /\ CalibratedFirst /\ CrawlReady /\ CrawlersSafe /\ GripKept
  BY DEF IInv
<1>1. h \in Int /\ a \in Int
  BY <1>0, GoalTypes
<1>2. m \in Machines /\ (state = "CALIBRATING" /\ ~Calibrated => m.state = "CALIBRATING")
  <2> HIDE DEF h, a
  <2> QED BY <1>0, SetIntakeType
<1>3. UNCHANGED <<statusVars, mechanismVars>>
  BY DEF HandleGoal
<1>4. SetFlags(c.score)
  BY DEF HandleGoal
<1>5. /\ state' \in States /\ intakeGoal' \in IntakeGoals
      /\ elevatorHeight' \in Int /\ wristAngle' \in Int /\ counter' \in 0 .. StowTicks
      /\ m.state = "CALIBRATING" /\ ~Calibrated => state' = "CALIBRATING"
  <2>1. RunStateMachine(m, h, a)
    BY DEF HandleGoal
  <2> HIDE DEF h, a, m
  <2> QED BY <2>1, <1>0, <1>1, <1>2, RunType
<1>6. /\ crawling' \in BOOLEAN /\ highGear' \in BOOLEAN /\ crawlerDown' \in BOOLEAN
      /\ brake' \in BOOLEAN /\ shouldClimb' \in BOOLEAN /\ buddy' \in BOOLEAN
  <2>1. crawling' \in BOOLEAN /\ shouldClimb' \in BOOLEAN
    BY <1>4 DEF SetFlags
  <2>2. brake' \in BOOLEAN /\ buddy' \in BOOLEAN /\ crawlerDown' \in BOOLEAN
    BY <1>4, Zenon DEF SetFlags
  <2>3. highGear' \in BOOLEAN
    BY <1>4, Zenon DEF SetFlags
  <2> QED BY <2>1, <2>2, <2>3
<1>7. cargoOut' \in BOOLEAN /\ positioned' \in BOOLEAN
  BY <1>0 DEF HandleGoal, TypeOK
<1>8. /\ Elevator!TypeOK' /\ Wrist!TypeOK' /\ HatchIntake!TypeOK'
      /\ CargoIntake!TypeOK' /\ GroundHatchIntake!TypeOK' /\ Winch!TypeOK'
  BY <1>0, <1>3
     DEF TypeOK, mechanismVars, armVars, intakeVars, Elevator!TypeOK, Wrist!TypeOK,
         HatchIntake!TypeOK, CargoIntake!TypeOK, GroundHatchIntake!TypeOK, Winch!TypeOK
<1>9. TypeOK'
  BY <1>0, <1>3, <1>5, <1>6, <1>7, <1>8 DEF TypeOK, statusVars
<1>10. CalibratedFirst'
  BY <1>0, <1>2, <1>3, <1>5 DEF CalibratedFirst, Calibrated, mechanismVars, armVars
<1>11. CrawlReady'
  BY <1>4 DEF SetFlags, CrawlReady, CrawlScores
<1>12. CrawlersSafe' /\ GripKept'
  BY <1>0, <1>3
     DEF CrawlersSafe, GripKept, HatchIntake!Grips, mechanismVars, armVars, intakeVars
<1> QED BY <1>9, <1>10, <1>11, <1>12 DEF IInv

-----------------------------------------------------------------------------
(* The control tick, one lemma per mechanism.                               *)

\* What the elevator's Update does to the types and to the brake.
LEMMA ElevatorTick ==
  ASSUME Elevator!TypeOK, NEW goal, goal.height \in Int,
         NEW encoder \in Int, NEW isZeroed \in BOOLEAN, NEW on \in BOOLEAN,
         Elevator!Tick(goal, encoder, isZeroed, on)
  PROVE  Elevator!TypeOK'
<1> USE DEF Elevator!Tick
<1>1. height' \in Int /\ zeroed' \in BOOLEAN
  OBVIOUS
<1>2. disk' \in {"UNLOCKED", "CHANGING", "LOCKED"}
  BY DEF Elevator!DiskBrake
<1>3. elevatorOn' \in BOOLEAN /\ braking' \in BOOLEAN /\ lowGear' \in BOOLEAN
  BY Zenon DEF Elevator!Drives
<1>4. crawlerOne' \in BOOLEAN /\ crawlerTwo' \in BOOLEAN /\ crawlerDriven' \in BOOLEAN
  BY Zenon
<1>5. elevatorSetpoint' \in Elevator!kMinHeight .. Elevator!kMaxHeight
  <2>1. elevatorSetpoint' \in {0, Elevator!Cap(goal.height, Elevator!kMinHeight, Elevator!kMaxHeight)}
    OBVIOUS
  <2>2. 0 \in Elevator!kMinHeight .. Elevator!kMaxHeight
    BY DEF Elevator!kMinHeight, Elevator!kMaxHeight
  <2> QED BY <2>1, <2>2, CapType
<1>6. crawlerCounter' \in 0 .. CrawlerTicks + 1
  BY TicksAssumption DEF Elevator!TypeOK
<1> QED BY <1>1, <1>2, <1>3, <1>4, <1>5, <1>6 DEF Elevator!TypeOK

\* What the wrist's Update does to the types.
LEMMA WristTick ==
  ASSUME NEW goal \in Int, NEW reading \in Int, NEW isCalibrated \in BOOLEAN, NEW on \in BOOLEAN,
         Wrist!Tick(goal, reading, isCalibrated, on)
  PROVE  Wrist!TypeOK'
<1> USE DEF Wrist!Tick
<1>1. angle' \in Int /\ wristCalibrated' \in BOOLEAN
  OBVIOUS
<1>2. wristOn' \in BOOLEAN
  BY Zenon
<1>3. wristSetpoint' \in Wrist!kMinAngle .. Wrist!kMaxAngle
  BY DEF Wrist!Cap, Wrist!kMinAngle, Wrist!kMaxAngle
<1> QED BY <1>1, <1>2, <1>3 DEF Wrist!TypeOK

\* What the hatch intake's Update does to the types.
LEMMA HatchTick ==
  ASSUME HatchIntake!TypeOK, NEW goal \in HatchIntake!Goals,
         NEW back \in BOOLEAN, NEW proxy \in BOOLEAN, NEW on \in BOOLEAN,
         HatchIntake!Tick(goal, back, proxy, on)
  PROVE  HatchIntake!TypeOK'
<1> USE DEF HatchIntake!Tick
<1>1. HatchIntake!StateFor(goal) \in HatchIntake!States
  BY DEF HatchIntake!TypeOK, HatchIntake!StateFor, HatchIntake!Goals, HatchIntake!States
<1>2. hatchState' \in HatchIntake!States
  BY <1>1 DEF HatchIntake!States
<1>3. scoreCounter' \in 0 .. ScoreTicks
  BY TicksAssumption DEF HatchIntake!TypeOK, HatchIntake!CounterFor
<1>4. flute' \in BOOLEAN /\ backplate' \in BOOLEAN
  BY Zenon DEF HatchIntake!Grips
<1> QED BY <1>2, <1>3, <1>4 DEF HatchIntake!TypeOK

\* What the cargo intake's Update does to the types.
LEMMA CargoTick ==
  ASSUME CargoIntake!TypeOK, NEW goal \in CargoIntake!Goals,
         NEW proxy \in BOOLEAN, NEW on \in BOOLEAN, CargoIntake!Tick(goal, proxy, on)
  PROVE  CargoIntake!TypeOK'
<1> USE DEF CargoIntake!Tick
<1>1. CargoIntake!StateFor(goal) \in {"IDLE", "INTAKING", "OUTTAKING"}
  BY DEF CargoIntake!StateFor, CargoIntake!Goals
<1>2. cargoState' \in CargoIntake!States
  BY <1>1 DEF CargoIntake!States
<1>3. outtakeCounter' \in 0 .. OuttakeTicks
  BY TicksAssumption DEF CargoIntake!TypeOK, CargoIntake!CounterFor
<1>4. cargoRoller' \in {-12, 0, 4, 12}
  BY <1>1 DEF CargoIntake!Voltage
<1> QED BY <1>2, <1>3, <1>4 DEF CargoIntake!TypeOK

\* What the ground hatch intake's Update does to the types.
LEMMA GroundTick ==
  ASSUME GroundHatchIntake!TypeOK, NEW goal \in GroundHatchIntake!Goals,
         NEW stalled \in BOOLEAN, NEW on \in BOOLEAN, GroundHatchIntake!Tick(goal, stalled, on)
  PROVE  GroundHatchIntake!TypeOK'
<1> USE DEF GroundHatchIntake!Tick
<1>1. GroundHatchIntake!StateFor(goal) \in GroundHatchIntake!States
  BY DEF GroundHatchIntake!TypeOK, GroundHatchIntake!StateFor, GroundHatchIntake!Goals,
         GroundHatchIntake!States
<1>2. groundState' \in GroundHatchIntake!States
  BY <1>1 DEF GroundHatchIntake!States
<1>3. pickupCounter' \in 0 .. PickupTicks
  BY TicksAssumption DEF GroundHatchIntake!TypeOK
<1>4. ejectCounter' \in 0 .. EjectTicks
  BY TicksAssumption DEF GroundHatchIntake!TypeOK, GroundHatchIntake!CounterFor
<1>5. groundRoller' \in {-12, 0, 12}
  OBVIOUS
<1>6. snapDown' \in BOOLEAN
  BY Zenon
<1> QED BY <1>2, <1>3, <1>4, <1>5, <1>6 DEF GroundHatchIntake!TypeOK

\* What BoundGoal asks of the elevator and of the wrist.
LEMMA BoundTypes == TypeOK => BoundHeight \in Int /\ BoundAngle \in Int
<1> SUFFICES ASSUME TypeOK PROVE BoundHeight \in Int /\ BoundAngle \in Int
  OBVIOUS
<1>1. elevatorHeight \in Int /\ wristAngle \in Int /\ height \in Int /\ angle \in Int
  BY DEF TypeOK, Elevator!TypeOK, Wrist!TypeOK
<1>2. BoundHeight \in Int
  BY <1>1 DEF BoundHeight
<1>3. ReachableAngle \in Int
  BY <1>1 DEF ReachableAngle, Elevator!Cap, Wrist!kMinAngle, kWristSafeForwardsAngle, Level
<1>4. BoundAngle \in Int
  BY <1>1, <1>3
     DEF BoundAngle, Elevator!Cap, Wrist!kMinAngle, Wrist!kMaxAngle,
         kWristSafeForwardsAngle, kWristSafeBackwardsAngle
<1> QED BY <1>2, <1>4

\* One Update keeps the invariant.
LEMMA ControlIInv ==
  ASSUME IInv, NEW r \in Readings, Latched(r), Control(r) PROVE IInv'
<1>0. /\ TypeOK /\ CalibratedFirst /\ CrawlReady /\ CrawlersSafe /\ GripKept
      /\ Elevator!TypeOK /\ Wrist!TypeOK /\ HatchIntake!TypeOK
      /\ CargoIntake!TypeOK /\ GroundHatchIntake!TypeOK
  BY DEF IInv, TypeOK
<1>1. /\ r.height \in Int /\ r.angle \in Int /\ r.zeroed \in BOOLEAN /\ r.calibrated \in BOOLEAN
      /\ r.hatch \in BOOLEAN /\ r.cargo \in BOOLEAN /\ r.stalled \in BOOLEAN /\ r.enabled \in BOOLEAN
  BY ReadingsAssumption
<1>2. /\ Elevator!Tick(ElevatorGoal, r.height, r.zeroed, r.enabled)
      /\ Wrist!Tick(BoundAngle, r.angle, r.calibrated, r.enabled)
      /\ GroundHatchIntake!Tick(GroundGoal, r.stalled, r.enabled)
      /\ HatchIntake!Tick(HatchGoal, Swinging(ReachableAngle), r.hatch, r.enabled)
      /\ CargoIntake!Tick(CargoGoal, r.cargo, r.enabled)
      /\ Winch!Tick(shouldClimb, WinchGoal, r.enabled)
      /\ hasHatch' = r.hatch /\ hasCargo' = r.cargo /\ enabled' = r.enabled
      /\ UNCHANGED goalVars
  BY DEF Control
<1>3. Elevator!TypeOK'
  <2>1. ElevatorGoal.height \in Int
    BY <1>0, BoundTypes DEF ElevatorGoal
  <2> QED BY <2>1, <1>0, <1>1, <1>2, ElevatorTick
<1>4. Wrist!TypeOK'
  BY <1>0, <1>1, <1>2, BoundTypes, WristTick
<1>5. HatchIntake!TypeOK'
  <2>1. HatchGoal \in HatchIntake!Goals
    BY DEF HatchGoal, HatchIntake!Goals
  <2>2. Swinging(ReachableAngle) \in BOOLEAN
    BY DEF Swinging
  <2> QED BY <2>1, <2>2, <1>0, <1>1, <1>2, HatchTick
<1>6. CargoIntake!TypeOK'
  <2>1. CargoGoal \in CargoIntake!Goals
    BY DEF CargoGoal, CargoIntake!Goals
  <2> QED BY <2>1, <1>0, <1>1, <1>2, CargoTick
<1>7. GroundHatchIntake!TypeOK'
  <2>1. GroundGoal \in GroundHatchIntake!Goals
    BY DEF GroundGoal, GroundHatchIntake!Goals
  <2> QED BY <2>1, <1>0, <1>1, <1>2, GroundTick
<1>8. Winch!TypeOK'
  BY <1>2, Zenon DEF Winch!Tick, Winch!TypeOK
<1>9. TypeOK'
  BY <1>0, <1>1, <1>2, <1>3, <1>4, <1>5, <1>6, <1>7, <1>8 DEF TypeOK, goalVars
<1>10. CalibratedFirst'
  BY <1>0, <1>2 DEF CalibratedFirst, Calibrated, Latched, Elevator!Tick, Wrist!Tick, goalVars
<1>11. CrawlReady'
  BY <1>0, <1>2 DEF CrawlReady, goalVars
<1>12. CrawlersSafe'
  BY <1>0, <1>2 DEF CrawlReady, CrawlersSafe, Elevator!Tick, ElevatorGoal
<1>13. GripKept'
  BY <1>2 DEF GripKept, HatchIntake!Tick, HatchIntake!Grips
<1> QED BY <1>9, <1>10, <1>11, <1>12, <1>13 DEF IInv

\* Every goal and every Update keeps it.
LEMMA NextIInv == IInv /\ [AnyStep]_vars => IInv'
<1> SUFFICES ASSUME IInv, [AnyStep]_vars PROVE IInv'
  OBVIOUS
<1>1. ASSUME NEW c \in AllGoals, HandleGoal(c) PROVE IInv'
  BY <1>1, HandleGoalIInv
<1>2. ASSUME NEW r \in Readings, Latched(r), Control(r) PROVE IInv'
  BY <1>2, ControlIInv
<1>3. CASE UNCHANGED vars
  <2>1. UNCHANGED goalVars /\ UNCHANGED statusVars /\ UNCHANGED armVars /\ UNCHANGED intakeVars
    BY <1>3 DEF vars, mechanismVars
  <2>2. TypeOK'
    BY <2>1 DEF IInv, TypeOK, goalVars, statusVars, armVars, intakeVars, Elevator!TypeOK, Wrist!TypeOK,
         HatchIntake!TypeOK, CargoIntake!TypeOK, GroundHatchIntake!TypeOK, Winch!TypeOK
  <2> QED BY <2>1, <2>2
       DEF IInv, goalVars, armVars, intakeVars, CalibratedFirst, Calibrated,
           CrawlReady, CrawlersSafe, GripKept, HatchIntake!Grips
<1> QED BY <1>1, <1>2, <1>3 DEF AnyStep

\* The goals of the specification are such goals.
LEMMA NextAny == [Next]_vars => [AnyStep]_vars
  BY CommandsAssumption DEF Next, AnyStep, AllGoals

\* The inductive invariant holds whatever goals and readings arrive.
THEOREM Invariance == Spec => []IInv
  BY InitIInv, NextIInv, NextAny, PTL DEF Spec

\* Type correctness: outputs, counters and states stay in their ranges, whatever
\* the goals were before the first one was handled.
THEOREM TypeCorrect == Spec => []TypeOK
  BY Invariance, PTL DEF IInv

\* No sequence of goals takes the state machine out of CALIBRATING before both
\* mechanisms are calibrated.
THEOREM CalibrationFirst == Spec => []CalibratedFirst
  BY Invariance, PTL DEF IInv

\* The crawler never runs in high gear or with its pistons in.
THEOREM CrawlerSafety == Spec => []CrawlersSafe
  BY Invariance, PTL DEF IInv

-----------------------------------------------------------------------------
\* A control tick opens the flutes of an enabled robot only for a goal that asks
\* for it: with no goal the intake stays in the state that made it grip.
LEMMA TickReleases ==
  ASSUME IInv, NEW r \in Readings, Control(r), flute, ~flute', enabled'
  PROVE  intakeGoal \in {"OUTTAKE_HATCH", "POP", "PREP_HANDOFF", "INTAKE_GROUND_HATCH"}
<1> DEFINE s == HatchIntake!StateFor(HatchGoal)
<1>1. r.enabled /\ HatchIntake!Tick(HatchGoal, Swinging(ReachableAngle), r.hatch, r.enabled)
  BY DEF Control
<1>2. ~HatchIntake!Grips(s)
  BY <1>1 DEF HatchIntake!Tick
<1>3. HatchIntake!Grips(hatchState)
  BY DEF IInv, GripKept
<1> QED BY <1>2, <1>3 DEF HatchIntake!StateFor, HatchIntake!Grips, HatchGoal

\* So does any step.
LEMMA StepReleases ==
  IInv /\ [AnyStep]_vars =>
    [flute /\ ~flute' /\ enabled' =>
       intakeGoal \in {"OUTTAKE_HATCH", "POP", "PREP_HANDOFF", "INTAKE_GROUND_HATCH"}]_vars
<1> SUFFICES ASSUME IInv, AnyStep, flute, ~flute', enabled'
             PROVE  intakeGoal \in {"OUTTAKE_HATCH", "POP", "PREP_HANDOFF", "INTAKE_GROUND_HATCH"}
  OBVIOUS
<1>1. \A c \in AllGoals : ~HandleGoal(c)
  BY DEF HandleGoal, mechanismVars, intakeVars
<1>2. PICK r \in Readings : Control(r)
  BY <1>1 DEF AnyStep
<1> QED BY <1>2, TickReleases

\* A hatch is let go of only on request.
THEOREM ReleaseOnRequest == Spec => HatchReleasedOnRequest
  BY StepReleases, NextAny, Invariance, PTL DEF Spec, HatchReleasedOnRequest

-----------------------------------------------------------------------------
(* With a driver: the goals are what teleop makes of the buttons.           *)

\* Whatever is held and whatever the robot reports, the buttons ask for a score
\* goal that the superstructure knows.
LEMMA ScoreButtons == ASSUME NEW p, NEW st, NEW sight PROVE ScoreGoal(p, st, sight) \in ScoreGoals
<1> DEFINE rules == <<
  <<Override(p, st), IF sight.front /\ sight.near THEN "HATCH_ROCKET_SECOND"
                                                  ELSE "LIMELIGHT_OVERRIDE">>,
  <<{"brake", "safety"} \subseteq p,         "BRAKE">>,
  <<"crawl" \in p,                           "CRAWL">>,
  <<{"pop", "safety"} \subseteq p,           "LOWER_CRAWLERS">>,
  <<{"winch", "safety"} \subseteq p,         "WINCH">>,
  <<{"drop_crawlers", "safety"} \subseteq p, "DROP_CRAWLERS">>,
  <<"ship" \in p,    IF ForCargo(p, st) THEN Way(p, "CARGO_SHIP_FORWARDS", "CARGO_SHIP_BACKWARDS")
                                        ELSE Way(p, "HATCH_SHIP_FORWARDS", "HATCH_SHIP_BACKWARDS")>>,
  <<"level_3" \in p, IF ForCargo(p, st) THEN "CARGO_ROCKET_THIRD" ELSE "HATCH_ROCKET_THIRD">>,
  <<"level_2" \in p, IF ForCargo(p, st) THEN "CARGO_ROCKET_SECOND" ELSE "HATCH_ROCKET_SECOND">>,
  <<"level_1" \in p, IF ForCargo(p, st)
                     THEN Way(p, "CARGO_ROCKET_FIRST", "CARGO_ROCKET_BACKWARDS")
                     ELSE Way(p, "HATCH_ROCKET_FIRST", "HATCH_ROCKET_BACKWARDS")>>,
  <<{"drop_forks", "safety"} \subseteq p,    "CLIMB">>,
  <<"stow" \in p /\ "safety" \notin p,       "STOW">>,
  <<"cargo_intake" \in p /\ st.cargo,        "STOW">>,
  <<{"ground_hatch_intake", "safety"} \subseteq p
      /\ p \cap {"cargo_intake", "cargo_outtake"} = {}, "HANDOFF">>,
  <<"ground_intake_height" \in p,            "CARGO_GROUND">>,
  <<TRUE,                                    "NONE">> >>
<1>1. 16 \in Nat \ {0} /\ DOMAIN rules = 1 .. 16 /\ rules[16][1]
  OBVIOUS
<1>2. \A i \in 1 .. 16 : rules[i][2] \in ScoreGoals
  BY DEF ScoreGoals, CrawlScores, Position, Way
<1>3. ScoreGoal(p, st, sight) = FirstOf(rules)
  BY DEF ScoreGoal
<1>4. FirstOf(rules) \in ScoreGoals
  <2> HIDE DEF rules
  <2> QED BY <1>1, <1>2, FirstOfOne
<1> QED
  BY <1>3, <1>4

\* And for an intake goal that it knows.
LEMMA IntakeButtons == ASSUME NEW p, NEW st PROVE IntakeButton(p, st) \in IntakeGoals
<1> DEFINE rules == <<
  <<"cargo_intake" \in p,    "INTAKE_CARGO">>,
  <<"cargo_outtake" \in p,   IF st.ground THEN "OUTTAKE_GROUND_HATCH" ELSE "OUTTAKE_CARGO">>,
  <<{"ground_hatch_intake", "safety"} \subseteq p, "INTAKE_GROUND_HATCH">>,
  <<"hp_hatch_intake" \in p, "INTAKE_HATCH">>,
  <<"hp_hatch_outtake" \in p, "OUTTAKE_HATCH">>,
  <<TRUE,                    "INTAKE_NONE">> >>
<1>1. 6 \in Nat \ {0} /\ DOMAIN rules = 1 .. 6 /\ rules[6][1]
  OBVIOUS
<1>2. \A i \in 1 .. 6 : rules[i][2] \in IntakeGoals
  BY DEF IntakeGoals
<1>3. IntakeButton(p, st) = FirstOf(rules)
  BY DEF IntakeButton
<1>4. FirstOf(rules) \in IntakeGoals
  <2> HIDE DEF rules
  <2> QED BY <1>1, <1>2, FirstOfOne
<1> QED
  BY <1>3, <1>4

\* Also where a score button takes the intake goal.
LEMMA IntakeGoalKnown == ASSUME NEW p, NEW st PROVE IntakeGoal(p, st) \in IntakeGoals
<1> DEFINE rules == <<
  <<"ship" \in p /\ ~ForCargo(p, st), "INTAKE_HATCH">>,
  <<p \cap {"level_1", "level_2", "level_3"} # {} /\ ~ForCargo(p, st), "PREP_SCORE">>,
  <<"pop" \in p, "POP">>,
  <<TRUE,        IntakeButton(p, st)>> >>
<1>1. 4 \in Nat \ {0} /\ DOMAIN rules = 1 .. 4 /\ rules[4][1]
  OBVIOUS
<1>2. \A i \in 1 .. 4 : rules[i][2] \in IntakeGoals
  BY IntakeButtons DEF IntakeGoals
<1>3. IntakeGoal(p, st) = FirstOf(rules)
  BY DEF IntakeGoal
<1>4. FirstOf(rules) \in IntakeGoals
  <2> HIDE DEF rules
  <2> QED BY <1>1, <1>2, FirstOfOne
<1> QED
  BY <1>3, <1>4

\* Every message of teleop is a goal of the superstructure.
LEMMA MessagesKnown ==
  ASSUME NEW p, NEW st, NEW sight PROVE SuperstructureMessage(p, st, sight) \in AllGoals
  BY ScoreButtons, IntakeGoalKnown DEF SuperstructureMessage, AllGoals

\* What the driver and the readings of a drill make of the superstructure can happen
\* to it.
LEMMA DriverAny == drill \in DOMAIN Presses /\ [DriverNext]_driverVars => [AnyStep]_vars
<1> SUFFICES ASSUME drill \in DOMAIN Presses, [DriverNext]_driverVars PROVE [AnyStep]_vars
  OBVIOUS
<1>1. CASE TeleopStep
  <2>1. PICK m \in Messages : HandleGoal(m.goal)
    BY <1>1 DEF TeleopStep
  <2>2. m.goal \in AllGoals
    BY MessagesKnown DEF Messages
  <2> QED BY <2>1, <2>2 DEF AnyStep
<1>2. ASSUME NEW r \in Sensors[drill], Publish(r) PROVE AnyStep
  <2>1. r \in Readings
    BY SensorsAssumption
  <2> QED BY <2>1, <1>2 DEF Publish, AnyStep
<1>3. CASE UNCHANGED driverVars
  BY <1>3 DEF driverVars
<1> QED
  BY <1>1, <1>2, <1>3 DEF DriverNext

\* The driver's superstructure keeps the invariant: nothing that is pressed, in any
\* order and on any status, takes it out.
THEOREM DriverInvariance == DriverSpec => []IInv
<1>1. DriverInit => IInv /\ drill \in DOMAIN Presses
  BY InitIInv DEF DriverInit
<1>2. drill \in DOMAIN Presses /\ [DriverNext]_driverVars => (drill \in DOMAIN Presses)'
  BY DEF DriverNext, TeleopStep, Publish, driverVars
<1> QED
  BY <1>1, <1>2, DriverAny, NextIInv, PTL DEF DriverSpec

\* The driver's buttons never make the crawlers run unsafely.
THEOREM DriverCrawlers == DriverSpec => []CrawlersSafe
  BY DriverInvariance, PTL DEF IInv

\* Nor do they lose a hatch: the flutes open only for a goal that asks for it.
THEOREM DriverReleases == DriverSpec => HatchReleasedOnRequest
<1>1. DriverInit => drill \in DOMAIN Presses
  BY DEF DriverInit
<1>2. drill \in DOMAIN Presses /\ [DriverNext]_driverVars => (drill \in DOMAIN Presses)'
  BY DEF DriverNext, TeleopStep, Publish, driverVars
<1> QED
  BY <1>1, <1>2, DriverAny, StepReleases, DriverInvariance, PTL DEF DriverSpec, HatchReleasedOnRequest

-----------------------------------------------------------------------------
(* With its arm.  A tick's outputs are computed from the readings of the    *)
(* tick before, so the arm moves once more on what was right a tick ago.    *)
(* The invariant says what the pending outputs can still do: a wrist sent   *)
(* across has the elevator coming down, and an elevator that climbs under a *)
(* wrist in the arc has at most one tick to go.                             *)

P == kElevatorPassThroughHeight
T == ElevatorTravel

\* The wrist is outside the arc and its motor has been told to cross a threshold.
SentIn ==
  /\ wristOn
  /\ \/ angle < kWristSafeForwardsAngle /\ kWristSafeForwardsAngle < wristSetpoint /\ swing >= 0
     \/ angle > kWristSafeBackwardsAngle /\ kWristSafeBackwardsAngle > wristSetpoint /\ swing <= 0

\* A robot that is placed by hand does not move by itself.
StillPlaced ==
  state = "CALIBRATING" =>
    /\ ~elevatorOn /\ ~wristOn /\ swing = 0
    /\ InArc(angle) => height <= P

OffThresholds == ~OnThreshold(angle) /\ swing \in {-1, 0, 1}

LastClimb == InArc(angle) /\ elevatorOn /\ elevatorSetpoint > 0 => height <= P + T

ElevatorYields == SentIn => height <= P + T /\ (elevatorOn => elevatorSetpoint = 0)

ArmInv == StillPlaced /\ OffThresholds /\ LastClimb /\ ElevatorYields /\ ArcOnlyWhenLow

-----------------------------------------------------------------------------
\* The heights and angles that BoundGoal compares with.
LEMMA Numbers ==
  /\ kWristSafeForwardsAngle = 1300 /\ kWristSafeBackwardsAngle = 2650 /\ P = 23
  /\ Elevator!kMinHeight = 0 /\ Elevator!kMaxHeight = 1793
  /\ Wrist!kMinAngle = 0 /\ Wrist!kMaxAngle = 3665
  BY DEF P, kWristSafeForwardsAngle, kWristSafeBackwardsAngle, kElevatorPassThroughHeight,
         Elevator!kMinHeight, Elevator!kMaxHeight, Wrist!kMinAngle, Wrist!kMaxAngle

\* How far the wrist gets in a tick: less than the width of the arc.
LEMMA Travel == T \in Nat /\ WristTravel \in Nat /\ WristTravel <= 1350
  BY TravelAssumption, Numbers DEF T

\* Height, angle and the setpoints are numbers.
LEMMA ArmTypes ==
  ASSUME TypeOK
  PROVE  /\ height \in Int /\ angle \in Int /\ elevatorHeight \in Int /\ wristAngle \in Int
         /\ elevatorSetpoint \in 0 .. 1793 /\ wristSetpoint \in Int
  BY Numbers DEF TypeOK, Elevator!TypeOK, Wrist!TypeOK

\* The state machine never goes back to CALIBRATING.
LEMMA NeverBack ==
  ASSUME TypeOK, NEW c \in AllGoals, HandleGoal(c), state' = "CALIBRATING"
  PROVE  state = "CALIBRATING"
<1> DEFINE h == GoalHeight(c)
           a == GoalAngle(c)
           m == SetIntake(c, h, a)
<1>1. \A k, s, i : s # "CALIBRATING" /\ GoToState(k, s, i).state = "CALIBRATING"
                   => k.state = "CALIBRATING"
  BY DEF GoToState, Machine
<1>2. m.state = "CALIBRATING" => state = "CALIBRATING"
  <2> DEFINE n == Machine(state, IF c.score \in HatchScores THEN "PREP_SCORE" ELSE intakeGoal)
  <2>1. n.state = state /\ Machine(state, "INTAKE_NONE").state = state
    BY DEF Machine
  <2>2. c.intake \in IntakeGoals
    BY DEF AllGoals
  <2> HIDE DEF h, a, n
  <2> QED BY <2>1, <2>2, <1>1 DEF SetIntake, n, IntakeGoals
<1>3. RunStateMachine(m, h, a)
  BY DEF HandleGoal
<1> HIDE DEF m, h, a
<1>4. \E x, y : Stay(m, x, y) \/ Hold(m, x, y)
  BY <1>3 DEF RunStateMachine, Calibrate, Rest, IntakeGround, IntakeWrist, IntakeToStow, Stow
<1>5. m.state = "CALIBRATING"
  BY <1>4, <1>1 DEF Stay, Hold
<1> QED BY <1>2, <1>5

-----------------------------------------------------------------------------
\* An elevator whose motor is off, or sent to the bottom, does not climb.
LEMMA ElevatorSinks ==
  ASSUME TypeOK, NEW h \in Int, ElevatorFollows(h), elevatorOn => elevatorSetpoint = 0
  PROVE  h <= height \/ h <= 0
  BY ArmTypes, Numbers, Travel DEF ElevatorFollows, Towards, T

\* When a tick can leave the elevator above the passage.
LEMMA ElevatorClimbs ==
  ASSUME TypeOK, NEW h \in Int, ElevatorFollows(h) PROVE h <= height + T
  BY ArmTypes, Numbers, Travel DEF ElevatorFollows, Towards, T

\* A wrist outside the arc gets into it only if it was sent across.
LEMMA EntersWhenSent ==
  ASSUME TypeOK, OffThresholds, NEW w \in Int, WristFollows(w), ~InArc(angle), InArc(w),
         ~(swing # 0 /\ Direction(angle, w) = -swing)
  PROVE  SentIn
<1>1. angle \in Int /\ wristSetpoint \in Int
  BY ArmTypes
<1>2. swing \in {-1, 0, 1}
  BY DEF OffThresholds
<1>3. angle < 1300 \/ angle > 2650
  BY <1>1, Numbers DEF OffThresholds, OnThreshold, InArc
<1>4. 1300 < w /\ w < 2650
  BY Numbers DEF InArc
<1>5. CASE angle < 1300
  <2>1. w > angle /\ swing >= 0
    BY <1>1, <1>2, <1>4, <1>5 DEF Direction
  <2>2. wristOn /\ w <= wristSetpoint
    BY <1>1, <1>4, <1>5, Numbers, Travel DEF WristFollows, Towards
  <2> QED BY <1>1, <1>4, <1>5, <2>1, <2>2, Numbers DEF SentIn
<1>6. CASE angle > 2650
  <2>1. w < angle /\ swing <= 0
    BY <1>1, <1>2, <1>4, <1>6 DEF Direction
  <2>2. wristOn /\ w >= wristSetpoint
    BY <1>1, <1>4, <1>6, Numbers, Travel DEF WristFollows, Towards
  <2> QED BY <1>1, <1>4, <1>6, <2>1, <2>2, Numbers DEF SentIn
<1> QED BY <1>3, <1>5, <1>6

\* The arc is too wide to be jumped over.
LEMMA NoJump ==
  ASSUME TypeOK, NEW w \in Int, WristFollows(w), ~OnThreshold(w)
  PROVE  /\ angle < kWristSafeForwardsAngle => w < kWristSafeBackwardsAngle
         /\ angle > kWristSafeBackwardsAngle => w > kWristSafeForwardsAngle
<1>1. angle \in Int /\ wristSetpoint \in Int
  BY ArmTypes
<1>2. w # 1300 /\ w # 2650
  BY Numbers DEF OnThreshold
<1> QED BY <1>1, <1>2, Numbers, Travel DEF WristFollows, Towards

-----------------------------------------------------------------------------
\* BoundGoal keeps the elevator's goal at the bottom while the wrist swings, and
\* sends the wrist across only when the elevator has come down.
LEMMA BoundGoal ==
  ASSUME TypeOK
  PROVE  /\ InArc(angle) => BoundHeight = 0
         /\ angle < kWristSafeForwardsAngle /\ BoundAngle > kWristSafeForwardsAngle
            => BoundHeight = 0 /\ height <= P
         /\ angle > kWristSafeBackwardsAngle /\ BoundAngle < kWristSafeBackwardsAngle
            => BoundHeight = 0 /\ height <= P
<1> DEFINE a == ReachableAngle
<1>1. angle \in Int /\ height \in Int /\ wristAngle \in Int
  BY ArmTypes
<1>2. a \in Int
  BY <1>1, Numbers DEF ReachableAngle, Elevator!Cap, Level
<1> HIDE DEF a
<1>3. Swinging(a) => BoundHeight = 0
  BY DEF BoundHeight, a
<1>4. \/ BoundAngle = a /\ ~Swinging(a)
      \/ BoundAngle = a /\ Swinging(a) /\ height <= P
      \/ Swinging(a) /\ angle > 2650 /\ BoundAngle = Elevator!Cap(a, 2650, 3665)
      \/ Swinging(a) /\ ~(angle > 2650) /\ BoundAngle = Elevator!Cap(a, 0, 1300)
  BY Numbers DEF BoundAngle, P, a
<1>5. CASE BoundAngle = a /\ ~Swinging(a)
  BY <1>1, <1>2, <1>5, Numbers DEF Swinging, InArc
<1>6. CASE BoundAngle = a /\ Swinging(a) /\ height <= P
  BY <1>3, <1>6
<1>7. CASE Swinging(a) /\ angle > 2650 /\ BoundAngle = Elevator!Cap(a, 2650, 3665)
  BY <1>1, <1>2, <1>3, <1>7, Numbers DEF Elevator!Cap
<1>8. CASE Swinging(a) /\ ~(angle > 2650) /\ BoundAngle = Elevator!Cap(a, 0, 1300)
  BY <1>1, <1>2, <1>3, <1>8, Numbers DEF Elevator!Cap
<1> QED BY <1>4, <1>5, <1>6, <1>7, <1>8

\* What a tick tells the motors, in terms of the bounded goals.
LEMMA Outputs ==
  ASSUME TypeOK, NEW r \in Readings, Control(r)
  PROVE  /\ height' = r.height /\ angle' = r.angle
         /\ r.height \in Int /\ r.angle \in Int
         /\ elevatorSetpoint' > 0 => BoundHeight # 0
         /\ elevatorOn' => r.enabled
         /\ wristOn' => r.enabled
         /\ wristOn' /\ wristSetpoint' > kWristSafeForwardsAngle
            => BoundAngle > kWristSafeForwardsAngle
         /\ wristOn' /\ wristSetpoint' < kWristSafeBackwardsAngle
            => BoundAngle < kWristSafeBackwardsAngle
<1>1. BoundHeight \in Int /\ BoundAngle \in Int
  BY BoundTypes
<1>2. r.height \in Int /\ r.angle \in Int
  BY ReadingsAssumption
<1>3. Elevator!Tick(ElevatorGoal, r.height, r.zeroed, r.enabled)
  BY DEF Control
<1>4. Wrist!Tick(BoundAngle, r.angle, r.calibrated, r.enabled)
  BY DEF Control
<1>5. height' = r.height /\ angle' = r.angle
  BY <1>3, <1>4 DEF Elevator!Tick, Wrist!Tick
<1>6. elevatorOn' => r.enabled
  BY <1>3, Zenon DEF Elevator!Tick, Elevator!Drives
<1>7. elevatorSetpoint' > 0 => BoundHeight # 0
  <2>1. elevatorSetpoint' = 0 \/ elevatorSetpoint' = Elevator!Cap(BoundHeight, 0, 1793)
    BY <1>3, Numbers DEF Elevator!Tick, ElevatorGoal
  <2> QED BY <2>1, <1>1 DEF Elevator!Cap
<1>8. wristOn' => r.enabled
  BY <1>4, Zenon DEF Wrist!Tick
<1>9. wristOn' => /\ wristSetpoint' > 1300 => BoundAngle > 1300
                  /\ wristSetpoint' < 2650 => BoundAngle < 2650
  <2>1. wristOn' => wristSetpoint' = Wrist!Cap(BoundAngle, 0, 3665)
    BY <1>4, Numbers DEF Wrist!Tick
  <2> QED BY <2>1, <1>1 DEF Wrist!Cap
<1> QED BY <1>2, <1>5, <1>6, <1>7, <1>8, <1>9, Numbers

-----------------------------------------------------------------------------
\* Where the elevator can be when the wrist gets into the arc, or goes on in it.
LEMMA ArcHeights ==
  ASSUME IInv, ArmInv, NEW r \in Readings, Tick(r), state # "CALIBRATING", InArc(angle')
  PROVE  /\ height' <= P + 2 * T
         /\ ~InArc(angle) => height <= P + T /\ height' <= P + T
<1>1. /\ TypeOK /\ Control(r) /\ ElevatorFollows(r.height) /\ WristFollows(r.angle)
      /\ ~(swing # 0 /\ Direction(angle, r.angle) = -swing)
  BY DEF IInv, Tick, Follows
<1>2. height' = r.height /\ angle' = r.angle /\ r.height \in Int /\ r.angle \in Int
  BY <1>1, Outputs
<1>3. height \in Int /\ elevatorSetpoint \in 0 .. 1793 /\ T \in Nat /\ P = 23
  BY <1>1, ArmTypes, Travel, Numbers
<1>4. CASE ~InArc(angle)
  <2>1. SentIn
    BY <1>1, <1>2, <1>4, EntersWhenSent DEF ArmInv
  <2>2. height <= P + T /\ (elevatorOn => elevatorSetpoint = 0)
    BY <2>1 DEF ArmInv, ElevatorYields
  <2>3. height' <= height \/ height' <= 0
    BY <2>2, <1>1, <1>2, ElevatorSinks
  <2> QED BY <2>2, <2>3, <1>2, <1>3
<1>5. CASE InArc(angle) /\ (elevatorOn => elevatorSetpoint = 0)
  <2>1. height <= P + 2 * T
    BY <1>5 DEF ArmInv, ArcOnlyWhenLow, P, T
  <2>2. height' <= height \/ height' <= 0
    BY <1>5, <1>1, <1>2, ElevatorSinks
  <2> QED BY <2>1, <2>2, <1>2, <1>3, <1>5
<1>6. CASE InArc(angle) /\ elevatorOn /\ elevatorSetpoint # 0
  <2>1. height <= P + T
    BY <1>3, <1>6 DEF ArmInv, LastClimb
  <2>2. height' <= height + T
    BY <1>1, <1>2, ElevatorClimbs
  <2> QED BY <2>1, <2>2, <1>2, <1>3, <1>6
<1> QED BY <1>4, <1>5, <1>6

-----------------------------------------------------------------------------
\* The robot is switched on with its arm in a state of the invariant.
LEMMA InitArm == PlantInit => ArmInv
<1> SUFFICES ASSUME PlantInit PROVE ArmInv
  OBVIOUS
<1>1. /\ height = 0 /\ angle = 0 /\ swing = 0 /\ state = "CALIBRATING"
      /\ elevatorOn = FALSE /\ wristOn = FALSE
  BY DEF PlantInit, Init, Elevator!Init, Wrist!Init
<1>2. ~InArc(angle) /\ ~OnThreshold(angle)
  BY <1>1, Numbers DEF InArc, OnThreshold
<1> QED BY <1>1, <1>2
     DEF ArmInv, StillPlaced, OffThresholds, LastClimb, ElevatorYields, SentIn, ArcOnlyWhenLow

\* The readings, the outputs and the wrist's motion are a tick's business.
LEMMA HandleGoalArm ==
  ASSUME IInv, ArmInv, NEW c \in AllGoals, HandleGoal(c), UNCHANGED swing PROVE ArmInv'
<1>1. UNCHANGED <<height, angle, elevatorOn, elevatorSetpoint, wristOn, wristSetpoint, swing>>
  BY DEF HandleGoal, mechanismVars, armVars
<1>2. state' = "CALIBRATING" => state = "CALIBRATING"
  BY NeverBack DEF IInv
<1>3. StillPlaced'
  BY <1>1, <1>2 DEF ArmInv, StillPlaced, InArc
<1>4. OffThresholds'
  BY <1>1 DEF ArmInv, OffThresholds, OnThreshold
<1>5. LastClimb' /\ ArcOnlyWhenLow'
  BY <1>1 DEF ArmInv, LastClimb, ArcOnlyWhenLow, InArc
<1>6. ElevatorYields'
  BY <1>1 DEF ArmInv, ElevatorYields, SentIn
<1> QED BY <1>3, <1>4, <1>5, <1>6 DEF ArmInv

\* A tick of a robot that is still being placed by hand.
LEMMA PlacedTickArm ==
  ASSUME IInv, ArmInv, NEW r \in Readings, Tick(r), state = "CALIBRATING" PROVE ArmInv'
<1>1. /\ TypeOK /\ Control(r) /\ swing' = 0 /\ ~OnThreshold(r.angle)
      /\ ~r.enabled /\ (InArc(r.angle) => r.height <= P)
  BY DEF IInv, Tick, Follows, Placed, P
<1>2. /\ height' = r.height /\ angle' = r.angle /\ r.height \in Int /\ r.angle \in Int
      /\ ~elevatorOn' /\ ~wristOn'
  BY <1>1, Outputs
<1>3. StillPlaced' /\ OffThresholds' /\ LastClimb' /\ ElevatorYields'
  BY <1>1, <1>2
     DEF StillPlaced, OffThresholds, OnThreshold, LastClimb, ElevatorYields, SentIn, InArc
<1>4. ArcOnlyWhenLow'
  BY <1>1, <1>2, Travel, Numbers DEF ArcOnlyWhenLow, InArc, P, T
<1> QED BY <1>3, <1>4 DEF ArmInv

\* A tick of the robot under its own power.
LEMMA PoweredTickArm ==
  ASSUME IInv, ArmInv, NEW r \in Readings, Tick(r), state # "CALIBRATING" PROVE ArmInv'
<1>1. /\ TypeOK /\ Control(r) /\ ~OnThreshold(r.angle)
      /\ ElevatorFollows(r.height) /\ WristFollows(r.angle)
      /\ swing' = Direction(angle, r.angle) /\ state' = state
  BY DEF IInv, Tick, Follows, Control, goalVars
<1>2. height' = r.height /\ angle' = r.angle /\ r.height \in Int /\ r.angle \in Int
  BY <1>1, Outputs
<1>3. height \in Int /\ angle \in Int /\ T \in Nat /\ P = 23
  BY <1>1, ArmTypes, Travel, Numbers
<1>4. r.height <= height + T
  BY <1>1, <1>2, ElevatorClimbs
<1>5. StillPlaced'
  BY <1>1 DEF StillPlaced
<1>6. OffThresholds'
  BY <1>1, <1>2, <1>3 DEF OffThresholds, OnThreshold, Direction
<1>7. ArcOnlyWhenLow'
  <2>1. InArc(angle') => height' <= P + 2 * T
    BY ArcHeights
  <2> QED BY <2>1 DEF ArcOnlyWhenLow, InArc, P, T
<1>8. LastClimb'
  <2> SUFFICES ASSUME InArc(angle'), elevatorSetpoint' > 0 PROVE height' <= P + T
    BY DEF LastClimb, InArc, P, T
  <2>1. BoundHeight # 0
    BY <1>1, Outputs
  <2>2. ~InArc(angle)
    BY <2>1, <1>1, BoundGoal
  <2> QED BY <2>2, ArcHeights
<1>9. ElevatorYields'
  <2> SUFFICES ASSUME SentIn' PROVE height <= P /\ ~(elevatorSetpoint' > 0)
    <3>1. TypeOK'
      BY NextIInv DEF IInv, Tick, Follows, AnyStep
    <3>2. elevatorSetpoint' \in 0 .. 1793
      BY <3>1, Numbers DEF TypeOK, Elevator!TypeOK
    <3> QED BY <3>2, <1>2, <1>3, <1>4 DEF ElevatorYields, P, T
  <2>1. wristOn'
    BY DEF SentIn
  <2>2. CASE /\ angle' < kWristSafeForwardsAngle /\ kWristSafeForwardsAngle < wristSetpoint'
             /\ swing' >= 0
    <3>1. BoundAngle > kWristSafeForwardsAngle
      BY <2>1, <2>2, <1>1, Outputs
    <3>2. angle <= angle'
      BY <2>2, <1>1, <1>2, <1>3 DEF Direction
    <3>3. angle < kWristSafeForwardsAngle
      BY <3>2, <2>2, <1>2, <1>3, Numbers
    <3>4. BoundHeight = 0 /\ height <= P
      BY <3>1, <3>3, <1>1, BoundGoal
    <3> QED BY <3>4, <1>1, Outputs
  <2>3. CASE /\ angle' > kWristSafeBackwardsAngle /\ kWristSafeBackwardsAngle > wristSetpoint'
             /\ swing' <= 0
    <3>1. BoundAngle < kWristSafeBackwardsAngle
      BY <2>1, <2>3, <1>1, Outputs
    <3>2. angle' <= angle
      BY <2>3, <1>1, <1>2, <1>3 DEF Direction
    <3>3. angle > kWristSafeBackwardsAngle
      BY <3>2, <2>3, <1>2, <1>3, Numbers
    <3>4. BoundHeight = 0 /\ height <= P
      BY <3>1, <3>3, <1>1, BoundGoal
    <3> QED BY <3>4, <1>1, Outputs
  <2> QED BY <2>2, <2>3 DEF SentIn
<1> QED BY <1>5, <1>6, <1>7, <1>8, <1>9 DEF ArmInv

-----------------------------------------------------------------------------
\* The plant only removes behaviours of the superstructure.
LEMMA PlantIInv == IInv /\ [PlantNext]_plantVars => IInv'
<1> SUFFICES ASSUME IInv, [PlantNext]_plantVars PROVE IInv'
  OBVIOUS
<1>1. [Next]_vars
  BY DEF PlantNext, Tick, Follows, Next, plantVars
<1> QED BY <1>1, NextIInv, NextAny

\* Every goal and every tick keeps the arm's invariant.
LEMMA NextArm == IInv /\ ArmInv /\ [PlantNext]_plantVars => ArmInv'
<1> SUFFICES ASSUME IInv, ArmInv, [PlantNext]_plantVars PROVE ArmInv'
  OBVIOUS
<1>1. ASSUME NEW c \in AllGoals, HandleGoal(c), UNCHANGED swing PROVE ArmInv'
  BY <1>1, HandleGoalArm
<1>2. ASSUME NEW r \in Readings, Tick(r) PROVE ArmInv'
  BY <1>2, PlacedTickArm, PoweredTickArm
<1>3. CASE UNCHANGED plantVars
  <2>1. UNCHANGED <<state, height, angle, elevatorOn, elevatorSetpoint, wristOn, wristSetpoint, swing>>
    BY <1>3 DEF plantVars, vars, goalVars, mechanismVars, armVars
  <2> QED BY <2>1 DEF ArmInv, StillPlaced, OffThresholds, OnThreshold, LastClimb, ElevatorYields,
                      SentIn, ArcOnlyWhenLow, InArc
<1> QED BY <1>1, <1>2, <1>3, CommandsAssumption DEF PlantNext, AllGoals

\* The inductive invariant of the arm, on top of the superstructure's own.
THEOREM ArmInvariance == PlantSpec => [](IInv /\ ArmInv)
<1>1. PlantInit => IInv /\ ArmInv
  BY InitIInv, InitArm DEF PlantInit
<1>2. IInv /\ ArmInv /\ [PlantNext]_plantVars => (IInv /\ ArmInv)'
  BY PlantIInv, NextArm
<1> QED BY <1>1, <1>2, PTL DEF PlantSpec

\* The wrist is in the arc only while the elevator is low.
THEOREM LowInArc == PlantSpec => []ArcOnlyWhenLow
  BY ArmInvariance, PTL DEF ArmInv

-----------------------------------------------------------------------------
(* Refinement of Passage.                                                   *)

\* The arm starts in a state of the passage specification.
LEMMA InitPassage == PlantInit => Arm!Init
  BY DEF PlantInit, Init, Arm!Init

\* The wrist is on one side, on the other, or in the arc.
LEMMA SideType ==
  ASSUME TypeOK, OffThresholds
  PROVE  \/ Side(angle) = "ARC" /\ InArc(angle)
         \/ Side(angle) = "FRONT" /\ ~InArc(angle) /\ angle < kWristSafeForwardsAngle
         \/ Side(angle) = "BACK" /\ ~InArc(angle) /\ angle > kWristSafeBackwardsAngle
<1>1. angle \in Int
  BY ArmTypes
<1> QED BY <1>1, Numbers DEF Side, InArc, OffThresholds, OnThreshold

\* The powered wrist moves within its side or into the arc, or out of the arc.
LEMMA SideSteps ==
  ASSUME IInv, ArmInv, NEW r \in Readings, Tick(r), state # "CALIBRATING"
  PROVE  /\ Side(angle) \in {"FRONT", "ARC", "BACK"} /\ Side(angle') \in {"FRONT", "ARC", "BACK"}
         /\ Side(angle) = "FRONT" => Side(angle') # "BACK"
         /\ Side(angle) = "BACK" => Side(angle') # "FRONT"
         /\ Side(angle) = "ARC" <=> InArc(angle)
         /\ Side(angle') = "ARC" <=> InArc(angle')
<1>1. TypeOK /\ OffThresholds /\ Control(r) /\ WristFollows(r.angle) /\ ~OnThreshold(r.angle)
  BY DEF IInv, ArmInv, Tick, Follows
<1>2. angle' = r.angle /\ r.angle \in Int /\ angle \in Int
  BY <1>1, Outputs, ArmTypes
<1>3. /\ angle < kWristSafeForwardsAngle => angle' < kWristSafeBackwardsAngle
      /\ angle > kWristSafeBackwardsAngle => angle' > kWristSafeForwardsAngle
  BY <1>1, <1>2, NoJump
<1>4. angle' # kWristSafeForwardsAngle /\ angle' # kWristSafeBackwardsAngle
  BY <1>1, <1>2 DEF OnThreshold
<1> QED BY <1>1, <1>2, <1>3, <1>4, SideType, Numbers DEF Side, InArc

\* Every step of the arm is a step of the passage, or leaves it alone.
LEMMA StepPassage == IInv /\ ArmInv /\ ArmInv' /\ [PlantNext]_plantVars => [Arm!Next]_(Arm!vars)
<1> SUFFICES ASSUME IInv, ArmInv, ArmInv', [PlantNext]_plantVars PROVE [Arm!Next]_(Arm!vars)
  OBVIOUS
<1> DEFINE low == height <= P + 2 * T
           side == IF state = "CALIBRATING" THEN "BY_HAND" ELSE Side(angle)
<1>0. /\ InArc(angle) => low
      /\ InArc(angle') => low'
      /\ T \in Nat /\ P = 23 /\ height \in Int
  BY ArmTypes, Travel, Numbers DEF IInv, ArmInv, ArcOnlyWhenLow, P, T, InArc
<1>1. ASSUME NEW c \in AllGoals, HandleGoal(c), UNCHANGED swing PROVE [Arm!Next]_(Arm!vars)
  <2>1. height' = height /\ angle' = angle /\ (state' = "CALIBRATING" => state = "CALIBRATING")
    BY <1>1, NeverBack DEF HandleGoal, mechanismVars, armVars, IInv
  <2>2. CASE state = "CALIBRATING" /\ state' # "CALIBRATING"
    <3>1. /\ Side(angle') \in Arm!Sides /\ (Side(angle') = "ARC" => InArc(angle'))
      BY <2>1, SideType DEF IInv, ArmInv, Arm!Sides
    <3> QED BY <2>1, <2>2, <3>1, <1>0 DEF Arm!Next, Arm!Place, P, T
  <2> QED BY <2>1, <2>2 DEF Arm!vars
<1>2. ASSUME NEW r \in Readings, Tick(r), state = "CALIBRATING" PROVE [Arm!Next]_(Arm!vars)
  <2>1. state' = state
    BY <1>2 DEF Tick, Control, goalVars
  <2> QED BY <2>1, <1>2 DEF Arm!Next, Arm!Place, Arm!Sides
<1>3. ASSUME NEW r \in Readings, Tick(r), state # "CALIBRATING" PROVE [Arm!Next]_(Arm!vars)
  <2>1. state' = state
    BY <1>3 DEF Tick, Control, goalVars
  <2>2. /\ Side(angle) \in {"FRONT", "ARC", "BACK"} /\ Side(angle') \in {"FRONT", "ARC", "BACK"}
        /\ Side(angle) = "FRONT" => Side(angle') # "BACK"
        /\ Side(angle) = "BACK" => Side(angle') # "FRONT"
        /\ Side(angle) = "ARC" <=> InArc(angle)
        /\ Side(angle') = "ARC" <=> InArc(angle')
    BY <1>3, SideSteps
  <2>3. CASE Side(angle) # "ARC" /\ Side(angle') = "ARC"
    <3>1. height <= P + T
      BY <2>2, <2>3, <1>3, ArcHeights
    <3>2. low /\ low'
      BY <3>1, <2>2, <2>3, <1>0
    <3> QED BY <3>2, <2>1, <2>2, <2>3, <1>3 DEF Arm!Next, Arm!Enter, P, T
  <2>4. CASE Side(angle) = "ARC" /\ Side(angle') # "ARC"
    BY <2>1, <2>2, <2>4, <1>0, <1>3 DEF Arm!Next, Arm!Leave, P, T
  <2>5. CASE Side(angle) = "ARC" /\ Side(angle') = "ARC"
    <3>1. (height' <= P + 2 * T) = (height <= P + 2 * T)
      BY <2>2, <2>5, <1>0
    <3> QED BY <3>1, <2>1, <2>5, <1>3 DEF Arm!vars, P, T
  <2>6. CASE Side(angle) # "ARC" /\ Side(angle') # "ARC"
    BY <2>1, <2>2, <2>6, <1>3 DEF Arm!Next, Arm!Lift
  <2> QED BY <2>3, <2>4, <2>5, <2>6
<1>4. CASE UNCHANGED plantVars
  BY <1>4 DEF plantVars, vars, goalVars, mechanismVars, armVars, Arm!vars
<1> QED BY <1>1, <1>2, <1>3, <1>4, CommandsAssumption DEF PlantNext, AllGoals

\* The superstructure, with its arm, implements Passage.
THEOREM PassageKept == PlantSpec => KeepsPassage
<1>1. PlantInit /\ [][PlantNext]_plantVars /\ [](IInv /\ ArmInv) => Arm!Spec
  BY InitPassage, StepPassage, PTL DEF Arm!Spec
<1> QED BY <1>1, ArmInvariance, PTL DEF PlantSpec, KeepsPassage
=============================================================================
