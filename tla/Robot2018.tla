------------------------------- MODULE Robot2018 ------------------------------
(***************************************************************************)
(* The 2018 robot in a match: the autonomous thread runs its routine, the  *)
(* teleop thread turns buttons into goals, and the subsystem thread drains *)
(* the goals of both into the score subsystem.                             *)
(*                                                                         *)
(* Nothing stops the autonomous thread when the autonomous period ends:    *)
(* most of its waits give up, and it sends what is left of its routine.    *)
(***************************************************************************)
EXTENDS ScoreSubsystem, AutonomousRoutines, ButtonRules

CONSTANTS
  Presses,     \* for each drill, the sets of buttons that the driver can hold
  Selections,  \* for each drill, what can be selected on the dashboard
  Layouts,     \* what the field can announce: the sides of the near switch and the scale
  Sensors,     \* for each drill, the readings that can come up
  GodStep      \* what the god mode joystick adds to a goal in a message

VARIABLES
  drill,    \* what the match is for
  phase,    \* of the match
  routine,  \* the program of the autonomous thread, or that it waits to choose it
  pc,       \* its next statement
  drive     \* how far the last drive that autonomous started has come

autoVars == <<routine, pc>>
matchVars == <<scoreVars, drill, phase, autoVars, drive>>

\* Disabled before the match, autonomous, disabled in the operator's period, teleop.
Phases == {"before", "auto", "between", "teleop"}
Enabled == phase \in {"auto", "teleop"}
IsAutonomous == phase = "auto"
IsOperatorControl == phase \in {"between", "teleop"}

J == INSTANCE Joystick

\* The gamepad: positions of its hat, directions of its left stick, its triggers, and
\* buttons.  The sticks of the god mode are buttons here.
Hat == [height_0 |-> 180, height_1 |-> 90, height_2 |-> 0, request_cube |-> 270]
Stick == [front |-> <<0, 45>>, back |-> <<135, 180>>]
Triggers == [intake |-> 3, outtake_slow |-> 7]
RawButtons == {"pos_0", "pos_1", "pos_2", "pos_3", "intake_open", "intake_close",
               "outtake_fast", "settle", "lift_up", "wrist_up"}

\* The buttons that a reading presses.
Pressed(r) ==
  r.buttons
  \cup {h \in DOMAIN Hat : J!PovPressed(r.hat, Hat[h])}
  \cup {d \in DOMAIN Stick : J!AxisInRange(r.stick, Stick[d][1], Stick[d][2], 8)}
  \cup {t \in DOMAIN Triggers : J!AxisPressed(r.triggers[t], Triggers[t])}

\* What is held together can be held together.
ASSUME MatchAssumption ==
  /\ GodStep \in Nat /\ Layouts \subseteq {"L", "R", "?"} \X {"L", "R", "?"}
  /\ DOMAIN Selections = DOMAIN Presses /\ DOMAIN Sensors = DOMAIN Presses
  /\ \A d \in DOMAIN Sensors : Sensors[d] \subseteq Readings
  /\ \A d \in DOMAIN Presses : \A p \in Presses[d] :
       \E hat \in {-1, 0, 90, 180, 270},
          stick \in [angle : {-179, -90, 0, 45, 90, 135, 180}, out : {0, 10}],
          triggers \in [DOMAIN Triggers -> {0, 5, 10}] :
         Pressed([buttons |-> p \cap RawButtons, hat |-> hat, stick |-> stick,
                  triggers |-> triggers]) = p

MatchInit ==
  /\ ScoreInit
  /\ drill \in DOMAIN Presses
  /\ pc = 1 /\ drive = "stopped"
  /\ IF Selections[drill] = {} THEN phase = "between" /\ routine = "nothing"
                               ELSE phase = "before" /\ routine = "waiting"

-----------------------------------------------------------------------------
(* Teleop.                                                                  *)

ScoreGoal(p) == FirstOf(<<
  <<{"front", "pos_0"} \subseteq p, "SCALE_LOW_FORWARD">>,
  <<{"front", "pos_1"} \subseteq p, "SCALE_MID_FORWARD">>,
  <<{"front", "pos_2"} \subseteq p, "SCALE_HIGH_FORWARD">>,
  <<{"front", "pos_3"} \subseteq p, "SCALE_SUPER_HIGH_FORWARD">>,
  <<{"back", "pos_0"} \subseteq p,  "SCALE_LOW_REVERSE">>,
  <<{"back", "pos_1"} \subseteq p,  "SCALE_MID_REVERSE">>,
  <<{"back", "pos_2"} \subseteq p,  "SCALE_HIGH_REVERSE">>,
  <<{"back", "pos_3"} \subseteq p,  "SCALE_SUPER_HIGH_REVERSE">>,
  <<"pos_0" \in p,    "EXCHANGE">>,
  <<"pos_1" \in p,    "SWITCH">>,
  <<"pos_2" \in p,    "STOW">>,
  <<"pos_3" \in p,    "SCALE_SHOOT">>,
  <<"height_0" \in p, "INTAKE_0">>,
  <<"height_1" \in p, "INTAKE_1">>,
  <<"height_2" \in p, "INTAKE_2">>,
  <<TRUE,             "SCORE_NONE">> >>)

IntakeGoal(p, cubeReported) == FirstOf(<<
  <<"intake" \in p,       "INTAKE">>,
  <<"intake_open" \in p,  IF cubeReported THEN "DROP" ELSE "INTAKE_OPEN">>,
  <<"intake_close" \in p, "INTAKE_CLOSE">>,
  <<"outtake_fast" \in p, "OUTTAKE_FAST">>,
  <<"outtake_slow" \in p, "OUTTAKE_SLOW">>,
  <<"settle" \in p,       "SETTLE">>,
  <<TRUE,                 "INTAKE_NONE">> >>)

GodMode(p, button) == IF button \in p THEN GodStep ELSE 0

ScoreSubsystemMessage(p, cubeReported) ==
  [score |-> ScoreGoal(p), intake |-> IntakeGoal(p, cubeReported),
   lift |-> GodMode(p, "lift_up"), tilt |-> GodMode(p, "wrist_up")]

\* What the buttons of a drill make of each status.
Messages == [d \in DOMAIN Presses |-> [reported \in BOOLEAN |->
  {ScoreSubsystemMessage(p, reported) : p \in Presses[d]}]]

\* A teleop step, in the operator's period whether or not the robot is enabled.
TeleopStep ==
  /\ UNCHANGED <<drill, phase, autoVars, drive>>
  /\ IsOperatorControl
  /\ \E m \in Messages[drill][hasCube] : HandleGoal(m)

-----------------------------------------------------------------------------
(* Autonomous.                                                              *)

\* The runner has seen the autonomous mode and the layout of the field.  With no
\* message from the dashboard the selection is DRIVE.
ChooseRoutine ==
  /\ UNCHANGED <<scoreVars, drill, phase, pc, drive>>
  /\ routine = "waiting" /\ IsAutonomous
  /\ \E selected \in Selections[drill], layout \in Layouts :
       routine' = Program(selected, layout)

Done == routine # "waiting" /\ pc > Len(Programs[routine])
At(op) == routine # "waiting" /\ ~Done /\ Programs[routine][pc].op = op

\* Mutant: a drive is waited for to its end.
WaitOutlivesAutonomous ==
  \/ At("near") /\ drive \in {"near", "complete"}
  \/ At("complete") /\ drive = "complete"
  \/ At("cube") /\ (hasCube \/ ~IsAutonomous)
  \/ At("cubeOrTimeout")
  \/ At("wait")

\* What each wait looks for.  Only being near a place is waited for after autonomous;
\* lengths of time may pass at any moment.
WaitIsOver ==
  \/ At("near") /\ drive \in {"near", "complete"}
  \/ At("complete") /\ (drive = "complete" \/ ~IsAutonomous)
  \/ At("cube") /\ (hasCube \/ ~IsAutonomous)
  \/ At("cubeOrTimeout")
  \/ At("wait")

SendGoal ==
  /\ At("goal") /\ pc' = pc + 1
  /\ UNCHANGED <<drill, phase, routine, drive>>
  /\ HandleGoal(Goal(Programs[routine][pc].score, Programs[routine][pc].intake))

SendDrive ==
  /\ At("drive") /\ pc' = pc + 1
  /\ drive' = "under way"
  /\ UNCHANGED <<scoreVars, drill, phase, routine>>

GoOn ==
  /\ WaitIsOver /\ pc' = pc + 1
  /\ UNCHANGED <<scoreVars, drill, phase, routine, drive>>

RunStatement == SendGoal \/ SendDrive \/ GoOn

\* The drivetrain follows what autonomous asked for while the robot is autonomous;
\* in teleop each teleop message takes it over.
DriveOn ==
  /\ IsAutonomous
  /\ \/ drive = "under way" /\ drive' = "near"
     \/ drive = "near" /\ drive' = "complete"
  /\ UNCHANGED <<scoreVars, drill, phase, autoVars>>

-----------------------------------------------------------------------------
\* The robot is calibrated before an autonomous period begins.
MatchGoesOn ==
  /\ UNCHANGED <<scoreVars, drill, autoVars, drive>>
  /\ \/ phase = "before" /\ Calibrated /\ phase' = "auto"
     \/ phase = "auto" /\ phase' = "between"
     \/ phase = "between" /\ phase' = "teleop"
     \/ phase = "teleop" /\ phase' = "between"

ScoreTick ==
  /\ \E r \in Sensors[drill] : r.enabled = Enabled /\ Tick(r)
  /\ UNCHANGED <<drill, phase, autoVars, drive>>

CubeMoves == Enabled /\ MoveCube /\ UNCHANGED <<drill, phase, autoVars, drive>>

MatchNext ==
  \/ MatchGoesOn \/ ScoreTick \/ CubeMoves
  \/ TeleopStep
  \/ ChooseRoutine \/ RunStatement \/ DriveOn

\* The loops are periodic, and an intake that runs gets a cube in the end.
MatchFairness ==
  /\ WF_matchVars(ScoreTick) /\ WF_matchVars(RunStatement) /\ WF_matchVars(DriveOn)
  /\ WF_matchVars(CubeEnters /\ CubeMoves)

MatchSpec == MatchInit /\ [][MatchNext]_matchVars /\ MatchFairness

-----------------------------------------------------------------------------
(* Properties.                                                              *)

\* Whatever goals arrive, an elevator that is high, and that can still halt there, stays
\* so as long as the power is on and the wrist is back over it: the goal that BoundGoal
\* gives it holds it up, however fast the two move.
StaysHighForWrist == [][Enabled /\ wrist > SafeAngle /\ High => High']_matchVars

\* Where autonomous scores from.
ScoringGoals == {"SWITCH", "SCALE_LOW_REVERSE", "SCALE_SHOOT", "SCALE_HIGH_FORWARD"}
ScoringPostures == {<<Cap(Posture[g][1], 0, MaxHeight), Posture[g][2]>> : g \in ScoringGoals}

\* In every routine, wherever the end of the period, the state machine's own moves
\* and lost cubes leave it, autonomous asks to let a cube go only when the goal of the
\* arm is one that it scores from.
ScoresInPosture ==
  [][IsAutonomous /\ pc' # pc /\ At("goal") /\ Programs[routine][pc].intake \in Outtakes
     => <<height, angle>> \in ScoringPostures]_matchVars

\* After the autonomous period the routine runs out, unless it waits to be near a
\* place: no wait for a cube or for the end of a drive outlives the period.
AutonomousLetsGo == (phase = "between") ~> (routine = "waiting" \/ Done \/ At("near"))

\* A routine that waits for a cube goes on, when the intake closes on one or has closed
\* and runs its rollers.  One that waits with the intake open, as the routine to the back
\* of the switch does, does not: no cube is reported before the intake has closed, and
\* that routine closes it after the wait.
WaitForCubeEnds ==
  At("cube") /\ (intakeGoal = "INTAKE_CLOSE" \/ (intakeGoal = "INTAKE" /\ pinch = "IDLE_WITH_CUBE"))
    ~> ~At("cube") \/ ~IsAutonomous
=============================================================================
