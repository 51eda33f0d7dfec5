---------------------------- MODULE DriverButtons ----------------------------
(***************************************************************************)
(* The driver's half of c2019/teleop/teleop.cpp in front of the            *)
(* superstructure: what the buttons that are held, the last superstructure *)
(* status and the last limelight message make of the next goals.           *)
(*                                                                         *)
(* Teleop runs every 20 ms in a thread of its own and reads the status     *)
(* that the last superstructure tick has published.                        *)
(***************************************************************************)
EXTENDS Superstructure, ButtonRules

CONSTANTS
  Presses,   \* for each drill, the sets of buttons that the driver can hold together
  Sensors,   \* for each drill, the readings that can come up
  Sights     \* what the limelight can report: [front, near]

VARIABLES
  drill,     \* which of the sets of buttons the driver is using
  second     \* the last status put the elevator's goal at the second rocket level

driverVars == <<vars, drill, second>>

J == INSTANCE Joystick

\* The gamepad: positions of its hat, directions of its left stick, its triggers, and
\* buttons; and the throttle's vision button.
Hat == [stow |-> 0, ground_hatch_intake |-> 90, ground_intake_height |-> 180, pop |-> 270]
Stick == [drop_forks |-> <<-105, -75>>, drop_crawlers |-> <<75, 105>>, backwards |-> <<135, 180>>]
Triggers == [cargo_intake |-> 3, cargo_outtake |-> 7]
RawButtons ==
  {"winch", "crawl", "brake", "safety", "level_1", "level_2", "level_3", "ship",
   "hp_hatch_intake", "hp_hatch_outtake", "vision"}

\* The buttons that a reading presses.
Pressed(r) ==
  r.buttons
  \cup {h \in DOMAIN Hat : J!PovPressed(r.hat, Hat[h])}
  \cup {d \in DOMAIN Stick : J!AxisInRange(r.stick, Stick[d][1], Stick[d][2], 8)}
  \cup {t \in DOMAIN Triggers : J!AxisPressed(r.triggers[t], Triggers[t])}

\* What is held together can be held together.
ASSUME PressesAssumption ==
  \A d \in DOMAIN Presses : \A p \in Presses[d] :
    \E hat \in {-1, 0, 45, 90, 135, 180, 225, 270, 315},
       stick \in [angle : {-179, -135, -90, -45, 0, 45, 90, 135, 180}, out : {0, 5, 10}],
       triggers \in [DOMAIN Triggers -> {0, 5, 10}] :
      Pressed([buttons |-> p \cap RawButtons, hat |-> hat, stick |-> stick,
               triggers |-> triggers]) = p
ASSUME SensorsAssumption ==
  DOMAIN Sensors = DOMAIN Presses /\ \A d \in DOMAIN Sensors : Sensors[d] \subseteq Readings
ASSUME SightsAssumption == Sights \subseteq [front : BOOLEAN, near : BOOLEAN]

DriverInit ==
  /\ Init
  /\ drill \in DOMAIN Presses
  /\ second = FALSE

-----------------------------------------------------------------------------
\* The score buttons are for cargo when the robot has some or the driver says so.
ForCargo(p, st) == st.cargo \/ "safety" \in p

Way(p, forwards, backwards) == IF "backwards" \in p THEN backwards ELSE forwards

\* wants_override_: with the elevator at the second rocket level the vision button
\* takes the score goal away from the buttons.
Override(p, st) == "vision" \in p /\ st.second

ScoreGoal(p, st, sight) == FirstOf(<<
  <<Override(p, st), IF sight.front /\ sight.near THEN "HATCH_ROCKET_SECOND"
                                                  ELSE "LIMELIGHT_OVERRIDE">>,
  <<{"brake", "safety"} \subseteq p,         "BRAKE">>,
  <<"crawl" \in p,                           "CRAWL">>,
  <<{"pop", "safety"} \subseteq p,           "LOWER_CRAWLERS">>,
  <<{"winch", "safety"} \subseteq p,         "WINCH">>,
  <<{"drop_crawlers", "safety"} \subseteq p, "DROP_CRAWLERS">>,
  <<"ship" \in p,    IF ForCargo(p, st) THEN Way(p, "CARGO_SHIP_FORWARDS", "CARGO_SHIP_BACKWARDS")
                                        ELSE Way(p, "HATCH_SHIP_FORWARDS", "HATCH_SHIP_BACKWARDS")>>,
  <<"level_3" \in p, IF ForCargo(p, st) THEN "CARGO_ROCKET_THIRD" ELSE "HATCH_ROCKET_THIRD">>,
  <<"level_2" \in p, IF ForCargo(p, st) THEN "CARGO_ROCKET_SECOND" ELSE "HATCH_ROCKET_SECOND">>,
  <<"level_1" \in p, IF ForCargo(p, st)
                     THEN Way(p, "CARGO_ROCKET_FIRST", "CARGO_ROCKET_BACKWARDS")
                     ELSE Way(p, "HATCH_ROCKET_FIRST", "HATCH_ROCKET_BACKWARDS")>>,
  <<{"drop_forks", "safety"} \subseteq p,    "CLIMB">>,
  <<"stow" \in p /\ "safety" \notin p,       "STOW">>,
  <<"cargo_intake" \in p /\ st.cargo,        "STOW">>,
  <<{"ground_hatch_intake", "safety"} \subseteq p
      /\ p \cap {"cargo_intake", "cargo_outtake"} = {}, "HANDOFF">>,
  <<"ground_intake_height" \in p,            "CARGO_GROUND">>,
  <<TRUE,                                    "NONE">> >>)

IntakeButton(p, st) == FirstOf(<<
  <<"cargo_intake" \in p,    "INTAKE_CARGO">>,
  <<"cargo_outtake" \in p,   IF st.ground THEN "OUTTAKE_GROUND_HATCH" ELSE "OUTTAKE_CARGO">>,
  <<{"ground_hatch_intake", "safety"} \subseteq p, "INTAKE_GROUND_HATCH">>,
  <<"hp_hatch_intake" \in p, "INTAKE_HATCH">>,
  <<"hp_hatch_outtake" \in p, "OUTTAKE_HATCH">>,
  <<TRUE,                    "INTAKE_NONE">> >>)

\* The score buttons for a hatch take the intake goal as well, and come last.
IntakeGoal(p, st) == FirstOf(<<
  <<"ship" \in p /\ ~ForCargo(p, st), "INTAKE_HATCH">>,
  <<p \cap {"level_1", "level_2", "level_3"} # {} /\ ~ForCargo(p, st), "PREP_SCORE">>,
  <<"pop" \in p, "POP">>,
  <<TRUE,        IntakeButton(p, st)>> >>)

SuperstructureMessage(p, st, sight) ==
  [score |-> ScoreGoal(p, st, sight), intake |-> IntakeGoal(p, st), lift |-> 0, tilt |-> 0]

Statuses == [cargo : BOOLEAN, ground : BOOLEAN, second : BOOLEAN]
Status == [cargo |-> hasCargo, ground |-> GroundHatchIntake!HasHatch, second |-> second]

\* What the buttons of a drill can make of each status.
Messages ==
  UNION {{[drill |-> d, status |-> st, goal |-> SuperstructureMessage(p, st, sight)] :
            p \in Presses[d], st \in Statuses, sight \in Sights} : d \in DOMAIN Presses}

\* One teleop step, and the superstructure draining the goal that it sends.
TeleopStep ==
  /\ UNCHANGED <<drill, second, mechanismVars>>
  /\ \E m \in Messages : m.drill = drill /\ m.status = Status /\ HandleGoal(m.goal)

\* A superstructure tick publishes a new status.
Publish(r) ==
  /\ UNCHANGED <<drill, goalVars>>
  /\ second' = (elevatorHeight = Position.HATCH_ROCKET_SECOND[1])
  /\ Latched(r) /\ Control(r)

DriverNext ==
  \/ TeleopStep
  \/ \E r \in Sensors[drill] : Publish(r)

\* Teleop and the superstructure are periodic; the disk brake and the goals that are
\* owed as in Superstructure.
DriverFairness ==
  /\ WF_driverVars(IntakeWaits /\ TeleopStep)
  /\ WF_driverVars(\E r \in Sensors[drill] : Publish(r) /\ disk' # "CHANGING")

DriverSpec == DriverInit /\ [][DriverNext]_driverVars /\ DriverFairness

=============================================================================
