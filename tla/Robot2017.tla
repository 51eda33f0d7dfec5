------------------------------- MODULE Robot2017 ------------------------------
(***************************************************************************)
(* The 2017 robot: the teleop thread turns the driver's buttons into goals *)
(* every 20 ms and publishes the driver station's mode, and the subsystem  *)
(* thread runs the superstructure, the lights and the vision alignment     *)
(* every 5 ms on the last messages (c2017/citrus_robot, c2017/subsystems,  *)
(* c2017/vision).                                                          *)
(*                                                                         *)
(* Teleop and the vision alignment both send goals to the drivetrain.  The *)
(* lights are one colour; what blinks and what the vision target looks     *)
(* like are left out.                                                      *)
(***************************************************************************)
EXTENDS Superstructure2017, ButtonRules

CONSTANTS
  Presses,    \* for each drill, the sets of buttons that the driver can hold
  Stations,   \* for each drill, what the driver station reports
  Sensors,    \* for each drill, the readings that can come up
  Sights,     \* for each drill, what the camera and the drivetrain can show
  Gyros       \* for each drill, what the gyro's calibration can be

VARIABLES
  drill,          \* what the driver is doing
  held,           \* the buttons that are held
  station,        \* the driver station's last message
  usingVision, distanceAlign,  \* using_vision_ and use_distance_align_ of teleop
  visionGoal,     \* the last message of teleop to the vision alignment
  vision,         \* running_ and the aligned field of the last vision status
  steering,       \* who sent the last goal of the drivetrain
  seen,           \* a subsystem tick has read the last message of teleop
  light,                    \* light_color_ of the lights
  calibrated, autoRunning   \* calibrated_ and auto_running_ of the lights

lightVars == <<light, calibrated, autoRunning>>
teleopVars == <<goal, held, station, usingVision, distanceAlign, visionGoal>>
robotVars == <<mechanismVars, lightVars, teleopVars, drill, vision, steering, seen>>

Buttons == {"align_shoot", "just_spinup", "just_shoot", "stop_shooting", "distance",
            "gear_down", "score_gear", "drop_balls", "climb"}
Modes == {"DISABLED", "AUTONOMOUS", "TELEOP"}
AllStations == [mode : Modes, active : BOOLEAN]

\* A reading that counts as aligned since no target turns it off, one that is aligned
\* but for the distance, and everything else: turned away, or moving.
AllSights == {"none", "aligned", "far", "unaligned"}

ASSUME RobotAssumption ==
  \A d \in DOMAIN Presses :
    /\ Presses[d] \subseteq SUBSET Buttons /\ Stations[d] \subseteq AllStations
    /\ Sensors[d] \subseteq Readings /\ Sights[d] \subseteq AllSights
    /\ Gyros[d] \subseteq {"none", "counting", "done"}

LightColors == {"OFF", "RED", "BLUE", "selection", "vision", "PINK", "GREEN"}

\* The colour is not initialised.
LightsInit == light \in LightColors /\ calibrated = FALSE /\ autoRunning = FALSE

RobotInit ==
  /\ MechanismInit /\ LightsInit
  /\ drill \in DOMAIN Presses
  /\ held = {} /\ station \in Stations[drill]
  /\ usingVision = FALSE /\ distanceAlign = FALSE
  /\ visionGoal = [align |-> FALSE, distance |-> FALSE]
  /\ vision = [running |-> FALSE, aligned |-> TRUE]
  /\ steering = "nobody" /\ seen = TRUE

-----------------------------------------------------------------------------
(* Teleop; p are the buttons that it finds held.                            *)

Clicked(b, p) == b \in p \ held
Released(b, p) == b \in held \ p

\* Vision steers as long as it is used and not aligned.
VisionSteers == usingVision /\ ~vision.aligned

\* Mutant: vision hears of a goal only while it steers.
ToldWhileSteering(p) ==
  /\ distanceAlign' = (distanceAlign # Clicked("distance", p))
  /\ visionGoal' = IF VisionSteers THEN [align |-> usingVision, distance |-> distanceAlign']
                   ELSE visionGoal
  /\ steering' = IF VisionSteers THEN steering ELSE "teleop"

\* The goal of vision has using_vision_ of the step before.
SendDrivetrainMessage(p) ==
  /\ distanceAlign' = (distanceAlign # Clicked("distance", p))
  /\ visionGoal' = [align |-> usingVision, distance |-> distanceAlign']
  /\ steering' = IF VisionSteers THEN steering ELSE "teleop"

Wheel(p) == FirstOf(<<
  <<Clicked("align_shoot", p),   IF vision.aligned THEN "BOTH" ELSE "SPINUP">>,
  <<"just_spinup" \in p,         "SPINUP">>,
  <<"just_shoot" \in p,          "BOTH">>,
  <<Clicked("stop_shooting", p), "IDLE">>,
  <<TRUE,                        goal.wheel>> >>)

GearButtons(p) == FirstOf(<<
  <<Released("drop_balls", p), "STOP_DROPPING_BALLS">>,
  <<"drop_balls" \in p,        "START_DROPPING_BALLS">>,
  <<Clicked("gear_down", p),   "DROP">>,
  <<Released("gear_down", p),  "RISE">>,
  <<"score_gear" \in p,        "SCORE">>,
  <<TRUE,                      "NONE">> >>)

\* The ball intake goes down for just_shoot only.
LowersBalls(p) ==
  "just_shoot" \in p /\ "just_spinup" \notin p /\ ~Clicked("align_shoot", p)

SendSuperstructureMessage(p) ==
  /\ goal' = [wheel |-> Wheel(p), gear |-> GearButtons(p), ballsUp |-> ~LowersBalls(p),
              climb |-> (goal.climb # Clicked("climb", p))]
  /\ usingVision' = FirstOf(<<
       <<Clicked("align_shoot", p), TRUE>>,
       <<p \cap {"just_spinup", "just_shoot"} # {} \/ Clicked("stop_shooting", p), FALSE>>,
       <<TRUE, VisionSteers>> >>)

\* In autonomous teleop sends one path to the drivetrain; the buttons are read in every
\* mode.  The mode is the one that the step before has published.
TeleopStep ==
  /\ UNCHANGED <<mechanismVars, lightVars, drill, vision>>
  /\ seen /\ seen' = FALSE
  /\ station' \in Stations[drill]
  /\ \E p \in Presses[drill] :
       /\ held' = p
       /\ IF station.mode = "TELEOP"
          THEN SendDrivetrainMessage(p) /\ SendSuperstructureMessage(p)
          ELSE /\ steering' = IF station.mode = "AUTONOMOUS" THEN "path" ELSE steering
               /\ UNCHANGED <<goal, usingVision, distanceAlign, visionGoal>>

-----------------------------------------------------------------------------
(* The subsystems.                                                          *)

Aligned(sight) ==
  sight \in {"none", "aligned"} \/ (sight = "far" /\ ~visionGoal.distance)

\* Vision starts a drive, sends its goals until the drivetrain has done it, and
\* starts another one as long as the goal is to align.
UpdateVision(sight, driven) ==
  LET aligning == station.mode # "DISABLED" /\ visionGoal.align
      drives == aligning /\ vision.running /\ ~driven
  IN  /\ vision' = [aligned |-> Aligned(sight), running |-> aligning /\ (vision.running => ~driven)]
      /\ steering' = IF drives THEN "vision" ELSE steering

\* The gyro's calibration before a match, as long as its message tells of time left, and
\* the routine selected for autonomous.
WaitingLight(gyro) ==
  IF ~calibrated THEN IF gyro = "none" THEN light ELSE "RED"
  ELSE IF autoRunning THEN "selection" ELSE "BLUE"

\* In teleop, from the last override to the first.
PlayingLight(climbing, lifting) ==
  CASE lifting = "INTAKING" -> "PINK"
    [] lifting \in {"CARRYING", "PICKING_UP"} -> "GREEN"
    [] climbing = "AT_TOP" -> "GREEN"
    [] climbing = "CLIMBING" -> "PINK"
    [] OTHER -> "vision"

UpdateLights(mode, gyro, climbing, lifting) ==
  /\ calibrated' = (calibrated \/ gyro = "done")
  /\ autoRunning' = (autoRunning \/ mode = "DISABLED")
  /\ light' = IF mode = "TELEOP" THEN PlayingLight(climbing, lifting) ELSE WaitingLight(gyro)

SubsystemTick(r) ==
  /\ r.enabled = station.active
  /\ UpdateSuperstructure(r)
  /\ \E gyro \in Gyros[drill] : UpdateLights(station.mode, gyro, climber', gear')
  /\ \E sight \in Sights[drill], driven \in BOOLEAN : UpdateVision(sight, driven)
  /\ UNCHANGED <<teleopVars, drill>>
  /\ seen' = TRUE

RobotNext == TeleopStep \/ \E r \in Sensors[drill] : SubsystemTick(r)

\* Both loops are periodic, and a wheel that is driven comes near its speed from
\* time to time unless its encoder shows nothing.
RobotFairness ==
  /\ WF_robotVars(TeleopStep)
  /\ WF_robotVars(\E r \in Sensors[drill] : (r.wheel = "near" \/ r.frozen) /\ SubsystemTick(r))

RobotSpec == RobotInit /\ [][RobotNext]_robotVars /\ RobotFairness

-----------------------------------------------------------------------------
(* Properties.                                                              *)

\* The ball intake and the gear intake share the robot's box (superstructure_test.cpp,
\* BothIntakesStayInBox): a gear intake that takes a gear in, lifts it or scores has
\* the ball intake up, for whatever goal and however long after it.
GearClearsBalls == gear \in {"INTAKING", "PICKING_UP", "SCORING"} => ballIntakeUp

\* Nothing of the gear intake hides the light of a climb that has reached the top,
\* although the gear's lights override those of the climber.
ClimbLightShows ==
  [][climber' = "AT_TOP" /\ station.mode = "TELEOP" /\ seen' => light' = "GREEN"]_robotVars

\* A driver who keeps asking for shots gets them, with an encoder that works or that
\* has died.
ShotsComeOut ==
  <>[](goal.wheel = "BOTH" /\ station.active) => []<>Feeding(station.active)

\* Once teleop has let go of vision, the drivetrain follows the joysticks for good.
TeleopDrives ==
  <>[](station.mode = "TELEOP" /\ ~usingVision) => <>[](steering = "teleop")

\* While teleop lasts, a gear intake whose button has been let go comes up.
GearRises ==
  (gear = "INTAKING" /\ "gear_down" \notin held) ~> (gear # "INTAKING" \/ "gear_down" \in held)
=============================================================================
