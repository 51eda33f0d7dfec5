--------------------------- MODULE Superstructure ---------------------------
(***************************************************************************)
(* c2019/subsystems/superstructure: the state machine that turns the       *)
(* driver's goals into goals for the six mechanisms, and keeps the wrist   *)
(* from swinging through the elevator.                                     *)
(*                                                                         *)
(* Update runs every 10 ms.  It first drains the goal queue (HandleGoal,   *)
(* once per message), then bounds the goals, runs every mechanism on this  *)
(* tick's sensor readings and publishes (Control).  Both parts look at the *)
(* statuses that the PREVIOUS tick left: height, angle, hasHatch...        *)
(*                                                                         *)
(* Lengths are in millimetres and angles in milliradians.                  *)
(***************************************************************************)
EXTENDS Integers

CONSTANTS
  Commands,  \* the goals that can arrive: [score, intake, lift, tilt]; lift and
             \* tilt are what god mode adds to the height and to the angle
  Readings,  \* what the sensors and the driver station can report in a tick
  Garbage,   \* what elevator_height_ and wrist_angle_ can hold uninitialised
  StowTicks, \* goals handled with a hatch before it is stowed (25)
  ScoreTicks, OuttakeTicks, PickupTicks, EjectTicks, CrawlerTicks

VARIABLES
  state, intakeGoal,            \* state_, intake_goal_
  elevatorHeight, wristAngle,   \* elevator_height_, wrist_angle_: unbounded goals
  crawling, highGear, crawlerDown, brake, shouldClimb, buddy, cargoOut,
  counter,                      \* counter_
  hasHatch, hasCargo,           \* last tick's intake statuses
  enabled,                      \* last tick's driver station status
  positioned,                   \* history: elevator_height_ has been assigned
  height, zeroed, disk, elevatorOn, elevatorSetpoint, braking, lowGear,
  crawlerOne, crawlerTwo, crawlerDriven, crawlerCounter,
  angle, wristCalibrated, wristOn, wristSetpoint,
  hatchState, scoreCounter, flute, backplate,
  cargoState, outtakeCounter, cargoRoller,
  groundState, pickupCounter, ejectCounter, groundRoller, snapDown,
  winchOn, dropForks

Elevator == INSTANCE Elevator
Wrist == INSTANCE Wrist
HatchIntake == INSTANCE HatchIntake
CargoIntake == INSTANCE CargoIntake
GroundHatchIntake == INSTANCE GroundHatchIntake
Winch == INSTANCE Winch

goalVars == <<state, intakeGoal, elevatorHeight, wristAngle, crawling, highGear,
              crawlerDown, brake, shouldClimb, buddy, cargoOut, counter, positioned>>
statusVars == <<hasHatch, hasCargo, enabled>>
armVars == <<height, zeroed, disk, elevatorOn, elevatorSetpoint, braking, lowGear,
             crawlerOne, crawlerTwo, crawlerDriven, crawlerCounter,
             angle, wristCalibrated, wristOn, wristSetpoint>>
intakeVars == <<hatchState, scoreCounter, flute, backplate,
                cargoState, outtakeCounter, cargoRoller,
                groundState, pickupCounter, ejectCounter, groundRoller, snapDown,
                winchOn, dropForks>>
mechanismVars == <<armVars, intakeVars>>
vars == <<goalVars, statusVars, mechanismVars>>

States == {"CALIBRATING", "HOLDING", "INTAKING_WRIST", "INTAKING_GROUND", "INTAKING_TO_STOW"}
Intaking == {"INTAKING_WRIST", "INTAKING_GROUND", "INTAKING_TO_STOW"}
IntakeGoals == {"INTAKE_NONE", "INTAKE_HATCH", "INTAKE_GROUND_HATCH", "INTAKE_CARGO",
                "OUTTAKE_HATCH", "OUTTAKE_GROUND_HATCH", "OUTTAKE_CARGO",
                "POP", "PREP_HANDOFF", "PREP_SCORE"}
Collecting == {"INTAKE_HATCH", "INTAKE_GROUND_HATCH", "INTAKE_CARGO"}

\* Where a score goal sends the elevator and the wrist.
Position == [
  CARGO_ROCKET_FIRST     |-> <<89, 870>>,   CARGO_ROCKET_BACKWARDS |-> <<116, 3142>>,
  CARGO_ROCKET_SECOND    |-> <<938, 870>>,  CARGO_ROCKET_THIRD     |-> <<1768, 870>>,
  CARGO_SHIP_FORWARDS    |-> <<1173, 0>>,   CARGO_SHIP_BACKWARDS   |-> <<194, 2720>>,
  HATCH_ROCKET_FIRST     |-> <<117, 0>>,    HATCH_ROCKET_BACKWARDS |-> <<0, 3050>>,
  HATCH_ROCKET_SECOND    |-> <<987, 0>>,    HATCH_ROCKET_THIRD     |-> <<1793, 0>>,
  HATCH_SHIP_FORWARDS    |-> <<117, 0>>,    HATCH_SHIP_BACKWARDS   |-> <<200, 3050>>,
  HANDOFF |-> <<310, 3520>>,  STOW  |-> <<0, 1200>>,  CARGO_GROUND   |-> <<0, 0>>,
  CLIMB   |-> <<0, 50>>,      LOWER_CRAWLERS |-> <<200, 50>>]

HatchScores == {"HATCH_ROCKET_FIRST", "HATCH_ROCKET_BACKWARDS", "HATCH_ROCKET_SECOND",
                "HATCH_ROCKET_THIRD", "HATCH_SHIP_FORWARDS", "HATCH_SHIP_BACKWARDS"}
ClimbScores == {"CLIMB", "LOWER_CRAWLERS"}
CrawlScores == {"CRAWL", "CRAWL_BRAKED"}
ScoreGoals == DOMAIN Position \cup CrawlScores \cup
  {"NONE", "DROP_FORKS", "DROP_CRAWLERS", "BRAKE", "WINCH", "LIMELIGHT_OVERRIDE"}

ASSUME TicksAssumption ==
  {StowTicks, ScoreTicks, OuttakeTicks, PickupTicks, EjectTicks, CrawlerTicks} \subseteq Nat
ASSUME CommandsAssumption ==
  Commands \subseteq [score : ScoreGoals, intake : IntakeGoals, lift : Int, tilt : Int]
ASSUME ReadingsAssumption ==
  Readings \subseteq [height : Int, angle : Int, zeroed : BOOLEAN, calibrated : BOOLEAN,
                      hatch : BOOLEAN, cargo : BOOLEAN, stalled : BOOLEAN, enabled : BOOLEAN]
ASSUME GarbageAssumption == Garbage \subseteq Int \X Int

StowHeight == Position.STOW[1]
StowAngle == Position.STOW[2]
AtHandoff(h, a) == <<h, a>> = Position.HANDOFF
AtCargoGround(h, a) == h <= 0 /\ a <= 0  \* "< kCargoGround + 1e-5"

kElevatorSafeHeight == 500
kElevatorPassThroughHeight == 23
kElevatorWristHorizHeight == 50
kWristSafeForwardsAngle == 1300
kWristSafeBackwardsAngle == 2650
Level == 3142  \* M_PI

Init ==
  /\ state = "CALIBRATING" /\ intakeGoal = "INTAKE_NONE"
  /\ \E g \in Garbage : elevatorHeight = g[1] /\ wristAngle = g[2]
  /\ positioned = FALSE
  /\ crawling = FALSE /\ highGear = TRUE /\ crawlerDown = FALSE /\ brake = FALSE
  /\ shouldClimb = FALSE /\ buddy = FALSE /\ cargoOut = FALSE /\ counter = 0
  /\ hasHatch = FALSE /\ hasCargo = FALSE /\ enabled = FALSE
  /\ Elevator!Init /\ Wrist!Init /\ HatchIntake!Init
  /\ CargoIntake!Init /\ GroundHatchIntake!Init /\ Winch!Init

Calibrated == zeroed /\ wristCalibrated

-----------------------------------------------------------------------------
(* HandleGoal: SetGoal, then RunStateMachine.                               *)

\* SetGoal's switch on the score goal, god mode and the caps: the new goals.
GoalHeight(c) ==
  LET h == IF c.score \in DOMAIN Position THEN Position[c.score][1] ELSE elevatorHeight
  IN  Elevator!Cap(h + c.lift, Elevator!kMinHeight, Elevator!kMaxHeight)

GoalAngle(c) ==
  LET a == IF c.score \in DOMAIN Position THEN Position[c.score][2]
           ELSE IF c.score # "LIMELIGHT_OVERRIDE" THEN wristAngle
           ELSE IF elevatorHeight = Position.HATCH_ROCKET_SECOND[1] THEN 1000 ELSE 0
  IN  Elevator!Cap(a + c.tilt, Wrist!kMinAngle, Wrist!kMaxAngle)

\* Mutant: crawling leaves the gear alone.
CrawlInAnyGear(score) ==
  /\ shouldClimb' = (score = "WINCH")
  /\ crawling' = (score \in CrawlScores)
  /\ highGear' = IF score \in ClimbScores THEN FALSE
                 ELSE (highGear \/ score \in DOMAIN Position)
  /\ crawlerDown' = (crawlerDown \/ score \in CrawlScores \cup {"CLIMB", "DROP_CRAWLERS"})
  /\ brake' = (score # "CLIMB" /\ (brake \/ score \in {"BRAKE", "CRAWL_BRAKED"}))
  /\ buddy' = (score # "CLIMB" /\ (buddy \/ score \in {"WINCH", "DROP_FORKS"}))

\* The flags that a score goal sets.  Every goal, NONE too, stops the crawl and
\* the winch.
SetFlags(score) ==
  /\ shouldClimb' = (score = "WINCH")
  /\ crawling' = (score \in CrawlScores)
  /\ highGear' = IF score \in ClimbScores \cup CrawlScores THEN FALSE
                 ELSE (highGear \/ score \in DOMAIN Position)
  /\ crawlerDown' = (crawlerDown \/ score \in CrawlScores \cup {"CLIMB", "DROP_CRAWLERS"})
  /\ brake' = (score # "CLIMB" /\ (brake \/ score \in {"BRAKE", "CRAWL_BRAKED"}))
  /\ buddy' = (score # "CLIMB" /\ (buddy \/ score \in {"WINCH", "DROP_FORKS"}))

\* GoToState from state s with intake_goal_ = i: what becomes of the two.
Machine(s, i) == [state |-> s, intake |-> i]

GoToState(m, desired, intake) ==
  IF m.state = "CALIBRATING"
  THEN IF Calibrated THEN Machine(desired, m.intake) ELSE m
  ELSE IF (desired \in Intaking) <=> (intake \in Collecting)
       THEN Machine(desired, intake)
       ELSE Machine(desired, m.intake)

\* SetGoal's switch on the intake goal, after the score goal has been applied.
SetIntake(c, h, a) ==
  LET m == Machine(state, IF c.score \in HatchScores THEN "PREP_SCORE" ELSE intakeGoal)
      Go(near) == GoToState(m, IF near THEN "INTAKING_TO_STOW" ELSE "INTAKING_WRIST", c.intake)
      ground == GoToState(m, "INTAKING_GROUND", c.intake)
  IN CASE c.intake = "INTAKE_NONE"  -> Machine(state, "INTAKE_NONE")
       [] c.intake = "INTAKE_HATCH" -> IF hasHatch THEN m ELSE Go(AtHandoff(h, a))
       [] c.intake = "INTAKE_CARGO" -> IF hasCargo THEN m ELSE Go(AtCargoGround(h, a))
       [] c.intake = "INTAKE_GROUND_HATCH" ->
            IF AtHandoff(h, a) THEN GoToState(ground, "INTAKING_TO_STOW", c.intake) ELSE ground
       [] OTHER -> GoToState(m, "HOLDING", c.intake)

\* RunStateMachine keeps the machine and the goals as SetGoal left them.
Stay(m, h, a) ==
  /\ state' = m.state /\ intakeGoal' = m.intake
  /\ elevatorHeight' = h /\ wristAngle' = a

Hold(m, h, a) ==
  LET held == GoToState(m, "HOLDING", "INTAKE_NONE") IN Stay(held, h, a)

Stow(m) == Hold(m, StowHeight, StowAngle)

\* The CALIBRATING case: the goals follow the mechanisms until both are calibrated.
Calibrate(m) ==
  /\ m.state = "CALIBRATING"
  /\ IF Calibrated THEN Stow(m) ELSE Stay(m, height, angle)
  /\ UNCHANGED counter

Rest(m, h, a) ==
  /\ m.state = "HOLDING"
  /\ Stay(m, h, a)
  /\ UNCHANGED counter

IntakeGround(m, h, a) ==
  /\ m.state = "INTAKING_GROUND"
  /\ IF GroundHatchIntake!HasHatch THEN Hold(m, h, a) ELSE Stay(m, h, a)
  /\ UNCHANGED counter

\* Mutant: only a hatch ends the intake.
IntakeHatchOnly(m, h, a) ==
  /\ m.state = "INTAKING_WRIST"
  /\ IF hasHatch THEN Hold(m, h, a) ELSE Stay(m, h, a)
  /\ UNCHANGED counter

IntakeWrist(m, h, a) ==
  /\ m.state = "INTAKING_WRIST"
  /\ IF hasHatch \/ hasCargo THEN Hold(m, h, a) ELSE Stay(m, h, a)
  /\ UNCHANGED counter

\* A hatch has to be seen by more than StowTicks goals; cargo is stowed at once.
IntakeToStow(m, h, a) ==
  LET counted == hasHatch /\ counter + 1 > StowTicks
  IN /\ m.state = "INTAKING_TO_STOW"
     /\ IF hasCargo \/ counted THEN Stow(m) ELSE Stay(m, h, a)
     /\ counter' = IF counted THEN 0 ELSE IF hasHatch THEN counter + 1 ELSE counter

RunStateMachine(m, h, a) ==
  \/ Calibrate(m)
  \/ Rest(m, h, a)
  \/ IntakeGround(m, h, a)
  \/ IntakeWrist(m, h, a)
  \/ IntakeToStow(m, h, a)

HandleGoal(c) ==
  LET h == GoalHeight(c)
      a == GoalAngle(c)
      m == SetIntake(c, h, a)
  IN /\ SetFlags(c.score)
     /\ cargoOut' = (c.intake = "INTAKE_CARGO" \/ (cargoOut /\ c.intake # "INTAKE_HATCH"))
     /\ RunStateMachine(m, h, a)
     /\ positioned' = \/ positioned
                      \/ c.score \in DOMAIN Position
                      \/ m.state = "CALIBRATING"
     /\ UNCHANGED <<statusVars, mechanismVars>>

-----------------------------------------------------------------------------
(* Control: the rest of Update, on readings r.                              *)

\* BoundGoal, from the height and the angle that the last tick reported.
Swinging(goalAngle) ==
  \/ angle > kWristSafeBackwardsAngle /\ goalAngle < kWristSafeBackwardsAngle
  \/ angle < kWristSafeForwardsAngle /\ goalAngle > kWristSafeForwardsAngle
  \/ angle > kWristSafeForwardsAngle /\ angle < kWristSafeBackwardsAngle

\* The first two caps: no swing backwards when high, no drooping when low.
ReachableAngle ==
  LET a == IF height > kElevatorSafeHeight
           THEN Elevator!Cap(wristAngle, Wrist!kMinAngle, kWristSafeForwardsAngle)
           ELSE wristAngle
  IN  IF height < kElevatorWristHorizHeight
      THEN Elevator!Cap(a, Wrist!kMinAngle, Level) ELSE a

\* Mutants: the elevator is not sent down for a swing, or waits where it is.
BoundHeightFree == elevatorHeight
BoundHeightHold == IF Swinging(ReachableAngle) THEN height ELSE elevatorHeight

BoundHeight == IF Swinging(ReachableAngle) THEN 0 ELSE elevatorHeight

\* Mutant: the wrist does not wait for the elevator.
BoundAngleFree == ReachableAngle

BoundAngle ==
  IF ~Swinging(ReachableAngle) \/ height <= kElevatorPassThroughHeight
  THEN ReachableAngle
  ELSE IF angle > kWristSafeBackwardsAngle
       THEN Elevator!Cap(ReachableAngle, kWristSafeBackwardsAngle, Wrist!kMaxAngle)
       ELSE Elevator!Cap(ReachableAngle, Wrist!kMinAngle, kWristSafeForwardsAngle)

\* The Populate functions.
GroundGoal ==
  CASE intakeGoal = "INTAKE_GROUND_HATCH"  -> "REQUEST_HATCH"
    [] intakeGoal = "OUTTAKE_GROUND_HATCH" -> "EJECT"
    [] intakeGoal = "POP"                  -> "RISE"
    [] OTHER                               -> "NONE"

\* Mutant: the flutes open to make room for cargo.
HatchGoalCargo ==
  CASE intakeGoal = "INTAKE_HATCH" -> "INTAKE"
    [] intakeGoal \in {"PREP_HANDOFF", "POP", "INTAKE_GROUND_HATCH", "INTAKE_CARGO"} -> "HANDOFF"
    [] intakeGoal = "OUTTAKE_HATCH" -> "SCORE"
    [] intakeGoal = "PREP_SCORE"    -> "PREP_SCORE"
    [] OTHER                        -> "NONE"

HatchGoal ==
  CASE intakeGoal = "INTAKE_HATCH"  -> "INTAKE"
    [] intakeGoal \in {"PREP_HANDOFF", "POP", "INTAKE_GROUND_HATCH"} -> "HANDOFF"
    [] intakeGoal = "OUTTAKE_HATCH" -> "SCORE"
    [] intakeGoal = "PREP_SCORE"    -> "PREP_SCORE"
    [] OTHER                        -> "NONE"

CargoGoal ==
  CASE intakeGoal = "INTAKE_CARGO"  -> "INTAKE"
    [] intakeGoal = "OUTTAKE_CARGO" -> "OUTTAKE"
    [] intakeGoal = "INTAKE_NONE"   -> "NONE"
    [] OTHER                        -> "STOP_INTAKE"

WinchGoal == IF buddy THEN "BUDDY" ELSE IF shouldClimb THEN "SOLO" ELSE "NONE"

ElevatorGoal == [height |-> BoundHeight, crawling |-> crawling, highGear |-> highGear,
                 crawlerDown |-> crawlerDown, brake |-> brake]

Control(r) ==
  /\ Elevator!Tick(ElevatorGoal, r.height, r.zeroed, r.enabled)
  /\ Wrist!Tick(BoundAngle, r.angle, r.calibrated, r.enabled)
  /\ GroundHatchIntake!Tick(GroundGoal, r.stalled, r.enabled)
  /\ HatchIntake!Tick(HatchGoal, Swinging(ReachableAngle), r.hatch, r.enabled)
  /\ CargoIntake!Tick(CargoGoal, r.cargo, r.enabled)
  /\ Winch!Tick(shouldClimb, WinchGoal, r.enabled)
  /\ hasHatch' = r.hatch /\ hasCargo' = r.cargo /\ enabled' = r.enabled
  /\ UNCHANGED goalVars

-----------------------------------------------------------------------------
\* Calibration is never lost: the limit switch latches zeroed_ and the hall
\* calibration stays calibrated.
Latched(r) == (zeroed => r.zeroed) /\ (wristCalibrated => r.calibrated)

Next == \/ \E c \in Commands : HandleGoal(c)
        \/ \E r \in Readings : Latched(r) /\ Control(r)

\* A game piece is there, and the intake from the wrist has yet to end.
IntakeWaits == state \in {"INTAKING_WRIST", "INTAKING_TO_STOW"} /\ (hasHatch \/ hasCargo)

\* Goals keep arriving, the control loop is periodic, and a disk brake that is given
\* the time gets where it is sent.  Goals are owed where each one, the last one again
\* too, takes the machine a step further: what changes is never owed by the driver.
Fairness ==
  /\ WF_vars(IntakeWaits /\ \E c \in Commands : HandleGoal(c))
  /\ WF_vars(\E r \in Readings : Latched(r) /\ Control(r) /\ disk' # "CHANGING")

Spec == Init /\ [][Next]_vars /\ Fairness

-----------------------------------------------------------------------------
(* Properties.                                                              *)

\* Type invariant.  The unbounded goals stay inside the mechanisms' travel only
\* after a goal was handled: before, they are uninitialised.
TypeOK ==
  /\ state \in States /\ intakeGoal \in IntakeGoals
  /\ elevatorHeight \in Int /\ wristAngle \in Int
  /\ crawling \in BOOLEAN /\ highGear \in BOOLEAN /\ crawlerDown \in BOOLEAN
  /\ brake \in BOOLEAN /\ shouldClimb \in BOOLEAN /\ buddy \in BOOLEAN
  /\ cargoOut \in BOOLEAN /\ counter \in 0 .. StowTicks
  /\ hasHatch \in BOOLEAN /\ hasCargo \in BOOLEAN /\ enabled \in BOOLEAN
  /\ positioned \in BOOLEAN
  /\ Elevator!TypeOK /\ Wrist!TypeOK /\ HatchIntake!TypeOK
  /\ CargoIntake!TypeOK /\ GroundHatchIntake!TypeOK /\ Winch!TypeOK

\* The state machine leaves CALIBRATING only with both mechanisms calibrated,
\* whatever is asked of it meanwhile.
CalibratedFirst == state # "CALIBRATING" => Calibrated

\* The crawler is driven only with its pistons out and the elevator in low gear,
\* whatever sequence of climbing and scoring goals came before.
CrawlersSafe == crawlerDriven => lowGear /\ crawlerOne

\* While the robot stays enabled the flutes let go of a hatch only when the
\* superstructure was asked to outtake it, to pop, or to hand one over.
HatchReleasedOnRequest ==
  [][flute /\ ~flute' /\ enabled' =>
       intakeGoal \in {"OUTTAKE_HATCH", "POP", "PREP_HANDOFF", "INTAKE_GROUND_HATCH"}]_vars

\* An intake from the wrist ends once the game piece is there: however the hatch
\* and the cargo sensors come and go, the robot does not stay in the intaking
\* state with one of them reported.
IntakeEnds == []<>~IntakeWaits

\* A brake that stays requested on an enabled robot wins: the disk ends up
\* locked and the elevator motor unpowered.
BrakeWins ==
  <>[](brake /\ enabled) => <>[](disk = "LOCKED" /\ ~elevatorOn)

\* "These set the member variable goals [...] based on the score goal enumerator": a
\* powered elevator goes to a height that handling some goal has set.
SetpointWasSet == elevatorOn => positioned
=============================================================================
