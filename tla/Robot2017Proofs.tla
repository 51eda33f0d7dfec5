---------------------------- MODULE Robot2017Proofs ---------------------------
(***************************************************************************)
(* Safety of the 2017 robot for every driver, every field and every length *)
(* of its timers: its types, that a gear intake at work has the ball       *)
(* intake up, and that the gear's lights never hide the light of a climb.  *)
(***************************************************************************)
EXTENDS Robot2017, ButtonRulesProofs

TypeOK ==
  /\ goal \in Goals
  /\ shooter \in {"IDLE", "SPINUP", "AT_GOAL"} /\ frozenTicks \in 0 .. FaultTicks + 1
  /\ gear \in GearStates /\ pickup \in -1 .. PickupTicks
  /\ ballIntakeUp \in BOOLEAN /\ climber \in ClimberStates
  /\ light \in LightColors /\ calibrated \in BOOLEAN /\ autoRunning \in BOOLEAN
  /\ drill \in DOMAIN Presses /\ held \in SUBSET Buttons /\ station \in AllStations
  /\ usingVision \in BOOLEAN /\ distanceAlign \in BOOLEAN
  /\ visionGoal \in [align : BOOLEAN, distance : BOOLEAN]
  /\ vision \in [running : BOOLEAN, aligned : BOOLEAN]
  /\ steering \in {"nobody", "teleop", "vision", "path"} /\ seen \in BOOLEAN

\* A gear intake that lifts has time left: its timer is set anew for every gear, also
\* when the one before was lost while it was lifted.
LiftTimed == gear = "PICKING_UP" => pickup >= 0

IInv == TypeOK /\ LiftTimed /\ GearClearsBalls

-----------------------------------------------------------------------------
(* The goals that the buttons make.                                         *)

\* Whatever is held, the goal of the shooter's wheel is one.
LEMMA WheelType == ASSUME NEW p, goal \in Goals PROVE Wheel(p) \in Wheels
<1> DEFINE rules == <<
  <<Clicked("align_shoot", p),   IF vision.aligned THEN "BOTH" ELSE "SPINUP">>,
  <<"just_spinup" \in p,         "SPINUP">>,
  <<"just_shoot" \in p,          "BOTH">>,
  <<Clicked("stop_shooting", p), "IDLE">>,
  <<TRUE,                        goal.wheel>> >>
<1>1. 5 \in Nat \ {0} /\ DOMAIN rules = 1 .. 5 /\ rules[5][1]
  OBVIOUS
<1>2. \A i \in 1 .. 5 : rules[i][2] \in Wheels
  BY DEF Wheels, Goals
<1>3. Wheel(p) = FirstOf(rules)
  BY DEF Wheel
<1>4. FirstOf(rules) \in Wheels
  <2> HIDE DEF rules
  <2> QED BY <1>1, <1>2, FirstOfOne
<1> QED
  BY <1>3, <1>4

\* So is the goal of the gear intake.
LEMMA GearButtonsType == ASSUME NEW p PROVE GearButtons(p) \in GearGoals
<1> DEFINE rules == <<
  <<Released("drop_balls", p), "STOP_DROPPING_BALLS">>,
  <<"drop_balls" \in p,        "START_DROPPING_BALLS">>,
  <<Clicked("gear_down", p),   "DROP">>,
  <<Released("gear_down", p),  "RISE">>,
  <<"score_gear" \in p,        "SCORE">>,
  <<TRUE,                      "NONE">> >>
<1>1. 6 \in Nat \ {0} /\ DOMAIN rules = 1 .. 6 /\ rules[6][1]
  OBVIOUS
<1>2. \A i \in 1 .. 6 : rules[i][2] \in GearGoals
  BY DEF GearGoals
<1>3. GearButtons(p) = FirstOf(rules)
  BY DEF GearButtons
<1>4. FirstOf(rules) \in GearGoals
  <2> HIDE DEF rules
  <2> QED BY <1>1, <1>2, FirstOfOne
<1> QED
  BY <1>3, <1>4

\* The message for the superstructure is a goal.
LEMMA SuperstructureMessageType ==
  ASSUME NEW p, TypeOK, SendSuperstructureMessage(p)
  PROVE  goal' \in Goals /\ usingVision' \in BOOLEAN
<1> DEFINE rules == <<
  <<Clicked("align_shoot", p), TRUE>>,
  <<p \cap {"just_spinup", "just_shoot"} # {} \/ Clicked("stop_shooting", p), FALSE>>,
  <<TRUE, VisionSteers>> >>
<1>1. 3 \in Nat \ {0} /\ DOMAIN rules = 1 .. 3 /\ rules[3][1]
  OBVIOUS
<1>2. \A i \in 1 .. 3 : rules[i][2] \in BOOLEAN
  <2>1. VisionSteers \in BOOLEAN
    BY DEF VisionSteers
  <2>2. rules[1][2] = TRUE /\ rules[2][2] = FALSE /\ rules[3][2] = VisionSteers
    OBVIOUS
  <2>3. \A i \in 1 .. 3 : i = 1 \/ i = 2 \/ i = 3
    OBVIOUS
  <2> HIDE DEF rules
  <2> QED
    BY <2>1, <2>2, <2>3, Zenon
<1>3. usingVision' = FirstOf(rules)
  BY DEF SendSuperstructureMessage
<1>4. FirstOf(rules) \in BOOLEAN
  <2> HIDE DEF rules
  <2> QED BY <1>1, <1>2, FirstOfOne
<1>5. LowersBalls(p) \in BOOLEAN /\ Clicked("climb", p) \in BOOLEAN
  BY DEF LowersBalls, Clicked
<1>6. Wheel(p) \in Wheels /\ GearButtons(p) \in GearGoals
  BY WheelType, GearButtonsType DEF TypeOK
<1>7. goal' \in Goals
  BY <1>5, <1>6 DEF SendSuperstructureMessage, Goals, TypeOK
<1> QED
  BY <1>3, <1>4, <1>7

-----------------------------------------------------------------------------
(* The mechanisms.                                                          *)

\* The gear intake only starts, or goes on, taking a gear in, lifting or scoring when
\* the ball intake has been told to come up.
LEMMA GearAsksBalls ==
  ASSUME NEW r, UpdateGear(r), gear' \in {"INTAKING", "PICKING_UP", "SCORING"}
  PROVE  BallIntakeGoal
<1>1. SetGear(gear) \in {"INTAKING", "PICKING_UP", "SCORING"}
  BY DEF UpdateGear
<1>2. SetGear(gear) = gear \/ GearGoal \in {"DROP", "SCORE"}
  BY <1>1 DEF SetGear
<1> QED
  BY <1>1, <1>2 DEF BallIntakeGoal
\* What a tick makes of the shooter and of the climber.
LEMMA ShooterType ==
  ASSUME NEW r, TypeOK, UpdateShooter(r)
  PROVE  shooter' \in {"IDLE", "SPINUP", "AT_GOAL"} /\ frozenTicks' \in 0 .. FaultTicks + 1
BY TicksAssumption DEF UpdateShooter, TypeOK

\* UpdateClimber leaves the climber in one of its states.
LEMMA ClimberType ==
  ASSUME NEW r, TypeOK, UpdateClimber(r)
  PROVE  climber' \in ClimberStates
BY DEF UpdateClimber, TypeOK, ClimberStates

\* And of the gear intake, whose timer only runs while it lifts.
LEMMA GearType ==
  ASSUME NEW r, TypeOK, LiftTimed, UpdateGear(r)
  PROVE  gear' \in GearStates /\ pickup' \in -1 .. PickupTicks /\ LiftTimed'
<1>1. SetGear(gear) \in GearStates
  BY DEF SetGear, TypeOK, GearStates
<1>2. SetGear(gear) = "PICKING_UP" => gear = "PICKING_UP"
  BY DEF SetGear
<1> QED
  BY <1>1, <1>2, TicksAssumption DEF UpdateGear, TypeOK, LiftTimed, GearStates

\* The lights show a colour.
LEMMA LightType ==
  ASSUME NEW mode, NEW gyro, NEW c, NEW g, TypeOK, UpdateLights(mode, gyro, c, g)
  PROVE  light' \in LightColors /\ calibrated' \in BOOLEAN /\ autoRunning' \in BOOLEAN
BY DEF UpdateLights, PlayingLight, WaitingLight, LightColors, TypeOK

-----------------------------------------------------------------------------
(* The invariant.                                                           *)

\* The robot begins in it.
LEMMA InitInv == RobotInit => IInv
<1> SUFFICES ASSUME RobotInit PROVE IInv
  OBVIOUS
<1>1. goal \in Goals
  BY DEF RobotInit, MechanismInit, NoGoal, Goals, Wheels, GearGoals
<1>2. station \in AllStations
  BY RobotAssumption DEF RobotInit
<1>3. light \in LightColors /\ calibrated = FALSE /\ autoRunning = FALSE
  BY DEF RobotInit, LightsInit
<1>4. visionGoal \in [align : BOOLEAN, distance : BOOLEAN]
      /\ vision \in [running : BOOLEAN, aligned : BOOLEAN]
  BY DEF RobotInit
<1>5. frozenTicks \in 0 .. FaultTicks + 1 /\ pickup \in -1 .. PickupTicks
  BY TicksAssumption DEF RobotInit, MechanismInit
<1>6. drill \in DOMAIN Presses /\ held \in SUBSET Buttons
  BY DEF RobotInit
<1> QED
  BY <1>1, <1>2, <1>3, <1>4, <1>5, <1>6
  DEF RobotInit, MechanismInit, IInv, TypeOK, LiftTimed, GearClearsBalls, GearStates, ClimberStates

\* Teleop only changes the goals.
LEMMA TeleopKeepsInv == IInv /\ TeleopStep => IInv'
<1> SUFFICES ASSUME IInv, TeleopStep PROVE IInv'
  OBVIOUS
<1> USE DEF IInv
<1>1. station' \in AllStations /\ held' \in SUBSET Buttons /\ drill' = drill
  BY RobotAssumption DEF TeleopStep, TypeOK
<1>2. goal' \in Goals /\ usingVision' \in BOOLEAN
  BY SuperstructureMessageType DEF TeleopStep, TypeOK
<1>3. distanceAlign' \in BOOLEAN
  <2>1. (\E p : distanceAlign' = (distanceAlign # Clicked("distance", p)))
        \/ distanceAlign' = distanceAlign
    BY DEF TeleopStep, SendDrivetrainMessage
  <2>2. distanceAlign \in BOOLEAN
    BY DEF TypeOK
  <2> QED
    BY <2>1, <2>2, Zenon
<1>4. visionGoal' \in [align : BOOLEAN, distance : BOOLEAN]
      /\ steering' \in {"nobody", "teleop", "vision", "path"}
  BY <1>3 DEF TeleopStep, SendDrivetrainMessage, TypeOK
<1> QED
  BY <1>1, <1>2, <1>3, <1>4
  DEF TeleopStep, TypeOK, LiftTimed, GearClearsBalls, mechanismVars, shooterVars, gearVars, lightVars

\* A tick of the subsystems moves the mechanisms.
LEMMA TickKeepsInv == ASSUME NEW r \in Readings, IInv, SubsystemTick(r) PROVE IInv'
<1> USE DEF IInv
<1>1. UpdateShooter(r) /\ UpdateGear(r) /\ UpdateClimber(r)
      /\ ballIntakeUp' = (BallIntakeGoal \/ ~r.enabled)
  BY DEF SubsystemTick, UpdateSuperstructure
<1>2. light' \in LightColors /\ calibrated' \in BOOLEAN /\ autoRunning' \in BOOLEAN
  BY LightType DEF SubsystemTick
<1>3. vision' \in [running : BOOLEAN, aligned : BOOLEAN]
      /\ steering' \in {"nobody", "teleop", "vision", "path"}
  <2>1. PICK sight \in Sights[drill], driven \in BOOLEAN : UpdateVision(sight, driven)
    BY DEF SubsystemTick
  <2> QED
    BY <2>1 DEF UpdateVision, Aligned, TypeOK
<1>4. ballIntakeUp' \in BOOLEAN /\ GearClearsBalls'
  BY <1>1, GearAsksBalls DEF GearClearsBalls
<1>5. UNCHANGED <<teleopVars, drill>> /\ seen' = TRUE
  BY DEF SubsystemTick
<1> QED
  BY <1>1, <1>2, <1>3, <1>4, <1>5, ShooterType, ClimberType, GearType DEF TypeOK, teleopVars

\* The inductive invariant of the robot: its types, the gear intake's timer, and the box
\* that the two intakes share.
THEOREM Invariance == RobotSpec => []IInv
<1>1. IInv /\ [RobotNext]_robotVars => IInv'
  <2> SUFFICES ASSUME IInv, [RobotNext]_robotVars PROVE IInv'
    OBVIOUS
  <2>1. CASE TeleopStep
    BY <2>1, TeleopKeepsInv
  <2>2. ASSUME NEW r \in Sensors[drill], SubsystemTick(r) PROVE IInv'
    <3>1. r \in Readings
      BY RobotAssumption DEF IInv, TypeOK
    <3> QED
      BY <2>2, <3>1, TickKeepsInv
  <2>3. CASE UNCHANGED robotVars
    BY <2>3 DEF robotVars, mechanismVars, shooterVars, gearVars, lightVars, teleopVars, IInv,
                TypeOK, LiftTimed, GearClearsBalls
  <2> QED
    BY <2>1, <2>2, <2>3 DEF RobotNext
<1> QED
  BY <1>1, InitInv, PTL DEF RobotSpec

\* Every variable keeps to its type.
THEOREM TypeCorrect == RobotSpec => []TypeOK
BY Invariance, PTL DEF IInv

\* The two intakes do not leave the robot's box together: in every state a gear intake
\* that takes a gear in, lifts it or scores has the ball intake up.
THEOREM IntakesInBox == RobotSpec => []GearClearsBalls
BY Invariance, PTL DEF IInv

-----------------------------------------------------------------------------
(* The lights.                                                              *)

\* A climber at the top has a goal to climb, which makes the gear intake outtake.
LEMMA TopOuttakes ==
  ASSUME NEW r, UpdateClimber(r), UpdateGear(r), climber' = "AT_TOP"
  PROVE  gear' = "OUTTAKING"
<1>1. goal.climb
  BY DEF UpdateClimber
<1>2. SetGear(gear) = "OUTTAKING"
  BY <1>1 DEF SetGear, GearGoal
<1> QED
  BY <1>2 DEF UpdateGear

\* In teleop the light is green in every tick that has the climber at the top: its goal
\* has also taken the gear intake out of each state whose light would hide that.
THEOREM ClimbLightSeen == RobotSpec => ClimbLightShows
<1> DEFINE Shown == climber' = "AT_TOP" /\ station.mode = "TELEOP" /\ seen' => light' = "GREEN"
<1>1. TeleopStep => Shown
  BY DEF TeleopStep
<1>2. ASSUME NEW r, SubsystemTick(r) PROVE Shown
  <2>1. climber' = "AT_TOP" => gear' = "OUTTAKING"
    BY <1>2, TopOuttakes DEF SubsystemTick, UpdateSuperstructure
  <2> QED
    BY <1>2, <2>1 DEF SubsystemTick, UpdateLights, PlayingLight
<1>3. [RobotNext]_robotVars => [Shown]_robotVars
  BY <1>1, <1>2 DEF RobotNext
<1> QED
  BY <1>3, PTL DEF RobotSpec, ClimbLightShows
=============================================================================
