----------------------------- MODULE OffSeason2018 -----------------------------
(***************************************************************************)
(* o2018, the off-season robot with an arm, in a match: the autonomous     *)
(* thread runs one routine, the teleop thread turns buttons into goals and *)
(* reports the driver station, and the subsystem thread runs the arm and   *)
(* the drivetrain.  Goals and statuses are read from their queues' last    *)
(* messages.                                                               *)
(*                                                                         *)
(* Angles are notches: 0 is the bottom, 1 to 5 are 20, 45, 60, 75 and 90   *)
(* degrees.  The mechanism is an assumption: a position controlled arm     *)
(* moves towards its setpoint, an unpowered one sinks, the hall sensor is  *)
(* at the bottom, and a cube comes and goes as the intake lets it.         *)
(***************************************************************************)
EXTENDS Drivetrain, ButtonRules, Sequences

CONSTANTS Presses, Routines  \* what the driver can hold, what autonomous can be asked for

VARIABLES
  match,    \* the driver station: [period, power]
  station,  \* the last driver station message: [mode, active]
  routine,  \* what the autonomous thread runs, or that it waits to choose
  pc,       \* its next statement
  held,     \* teleop's arm_angle_
  goals,    \* the last goal messages: [drive, arm, intake]
  arm       \* [at, zeroed, hasCube]

matchVars == <<match, station>>
threadVars == <<routine, pc>>
offVars == <<matchVars, threadVars, held, goals, arm, driveVars>>

MaxAngle == 5
IntakeModes == {"INTAKE", "INTAKE_OPEN", "INTAKE_CLOSE", "SETTLE", "OUTTAKE_SLOW",
                "OUTTAKE_FAST", "DROP", "INTAKE_NONE"}

Mode(m) == IF m.power = "disabled" THEN "DISABLED"
           ELSE IF m.period = "auto" THEN "AUTONOMOUS" ELSE "TELEOP"

OffInit ==
  /\ match \in [period : {"auto", "teleop"}, power : {"disabled"}]
  /\ station = [mode |-> "DISABLED", active |-> FALSE]
  /\ routine = "waiting" /\ pc = 1
  /\ held = 0
  /\ goals = [drive |-> NoGoal, arm |-> 0, intake |-> "INTAKE_NONE"]
  /\ arm \in [at : {0, 2}, zeroed : {FALSE}, hasCube : {TRUE}]
  /\ DrivetrainInit

-----------------------------------------------------------------------------
(* Teleop.                                                                  *)

HeldAngle(p) == FirstOf(<<
  <<"pos_0" \in p, 0>>, <<"pos_1" \in p, 1>>, <<"pos_2" \in p, 2>>, <<"pos_3" \in p, 3>>,
  <<TRUE, held>> >>)

GodMode(p, angle) ==
  IF "god_up" \in p /\ angle < MaxAngle THEN angle + 1
  ELSE IF "god_down" \in p /\ angle > 0 THEN angle - 1 ELSE angle

IntakeMode(p) == FirstOf(<<
  <<"intake" \in p,       "INTAKE">>,
  <<"intake_open" \in p,  IF arm.hasCube THEN "DROP" ELSE "INTAKE_OPEN">>,
  <<"intake_close" \in p, "INTAKE_CLOSE">>,
  <<"outtake_fast" \in p, "OUTTAKE_FAST">>,
  <<"outtake_slow" \in p, "OUTTAKE_SLOW">>,
  <<"settle" \in p,       "SETTLE">>,
  <<TRUE,                 "INTAKE_NONE">> >>)

SendGoals(p) ==
  /\ held' = GodMode(p, HeldAngle(p))
  /\ goals' = [drive |-> TeleopGoal, arm |-> held', intake |-> IntakeMode(p)]

\* Goals are sent in the operator's period whether or not the robot is enabled.
TeleopStep ==
  /\ IF match.period = "teleop" THEN \E p \in Presses : SendGoals(p)
                                ELSE UNCHANGED <<held, goals>>
  /\ station' = [mode |-> Mode(match), active |-> match.power = "on"]
  /\ UNCHANGED <<match, threadVars, arm, driveVars>>

-----------------------------------------------------------------------------
(* Autonomous.                                                              *)

SetArm(angle, mode) == [op |-> "arm", arm |-> angle, intake |-> mode]
StartDrivePath(p) == [op |-> "drive", to |-> p]
Wait == [op |-> "wait"]
WaitUntilDrivetrainNear == [op |-> "near"]
WaitUntilDriveComplete == [op |-> "complete"]

FreeArm == <<SetArm(4, "INTAKE_NONE"), Wait, SetArm(0, "INTAKE_NONE")>>
Score == <<SetArm(2, "OUTTAKE_FAST"), Wait, SetArm(2, "INTAKE_NONE")>>

LeftSwitch ==
  FreeArm \o <<SetArm(0, "INTAKE_NONE"), StartDrivePath("left"),
               SetArm(2, "INTAKE_NONE"), WaitUntilDrivetrainNear>> \o Score
RightSwitch ==
  FreeArm \o <<SetArm(0, "INTAKE_NONE"), StartDrivePath("right"),
               SetArm(2, "INTAKE_NONE"), Wait>> \o Score
Drive == FreeArm \o <<StartDrivePath("straight"), WaitUntilDriveComplete>>
NoneAuto == FreeArm \o <<Wait>>

\* A test routine on a field that announces neither side is no routine.
Programs == [left_switch |-> LeftSwitch, right_switch |-> RightSwitch,
             drive_straight |-> Drive, none |-> NoneAuto, nothing |-> <<>>]
ASSUME RoutinesAssumption == Routines \subseteq DOMAIN Programs

Done == routine # "waiting" /\ pc > Len(Programs[routine])
At(op) == routine # "waiting" /\ ~Done /\ Programs[routine][pc].op = op
Statement == Programs[routine][pc]

IsAutonomous == station.mode = "AUTONOMOUS"

\* The runner has seen autonomous mode and the announcement of the field.
ChooseRoutine ==
  /\ routine = "waiting" /\ IsAutonomous
  /\ routine' \in Routines
  /\ UNCHANGED <<matchVars, pc, held, goals, arm, driveVars>>

RunSetArm ==
  /\ At("arm") /\ pc' = pc + 1
  /\ goals' = [goals EXCEPT !.arm = Statement.arm, !.intake = Statement.intake]
  /\ UNCHANGED <<matchVars, routine, held, arm, driveVars>>

RunStartDrivePath ==
  /\ At("drive") /\ pc' = pc + 1
  /\ goals' = [goals EXCEPT !.drive = PathGoal(Statement.to)]
  /\ UNCHANGED <<matchVars, routine, held, arm, driveVars>>

\* Whether the last status is of a profile that ends where the last goal does.
IsDriveComplete ==
  goals.drive.kind = "path" /\ driveStatus.to = goals.drive.to /\ driveStatus.complete

\* Mutant: nothing is waited for outside autonomous.
WaitOnlyInAutonomous ==
  \/ At("near") /\ (driveStatus.near \/ ~IsAutonomous)
  \/ At("complete") /\ (IsDriveComplete \/ ~IsAutonomous)
  \/ At("wait")

\* Being near a place is waited for in every mode.  A length of time may pass, or
\* autonomous end, at any moment.
WaitIsOver ==
  \/ At("near") /\ driveStatus.near
  \/ At("complete") /\ (IsDriveComplete \/ ~IsAutonomous)
  \/ At("wait")

GoOn ==
  /\ WaitIsOver /\ pc' = pc + 1
  /\ UNCHANGED <<matchVars, routine, held, goals, arm, driveVars>>

RunStatement == RunSetArm \/ RunStartDrivePath \/ GoOn

-----------------------------------------------------------------------------
(* The subsystems' loop: sensors, arm, drivetrain, actuators.               *)

\* What the rollers and pistons for an intake mode let a cube do.
TakesIn == {"INTAKE", "INTAKE_OPEN", "INTAKE_CLOSE", "SETTLE"}
LetsGo == {"OUTTAKE_SLOW", "OUTTAKE_FAST", "DROP", "INTAKE_OPEN"}
CubeAfter(mode) ==
  {arm.hasCube} \cup {TRUE : m \in TakesIn \cap {mode}} \cup {FALSE : m \in LetsGo \cap {mode}}

\* Mutant: the arm is let go at the bottom whatever its goal.
PoweredAboveBottom(zeroed) == station.active /\ zeroed /\ arm.at # 0

\* An arm that is to be at the bottom and is there is not powered, and neither is one
\* that has not been zeroed: its calibration voltage is 0.
Powered(zeroed) == station.active /\ zeroed /\ ~(goals.arm = 0 /\ arm.at = 0)

Towards(at, to) == IF at < to THEN at + 1 ELSE IF at > to THEN at - 1 ELSE at

\* The hall sensor is at the bottom.  The encoder's zero is set once, and reported in the
\* same message.
Zeroed == arm.zeroed \/ arm.at = 0

\* A position is held by the motor controller; without power the arm sinks.
Setpoint == IF Powered(Zeroed) THEN goals.arm ELSE 0

\* The check for a dead encoder is left out: its result is set to false at the end of it.
UpdateArm ==
  LET cubes == IF station.active THEN CubeAfter(goals.intake) ELSE {arm.hasCube}
  IN  arm' \in [at : {Towards(arm.at, Setpoint)}, zeroed : {Zeroed}, hasCube : cubes]

SubsystemTick ==
  /\ UpdateArm
  /\ UpdateDrivetrain(goals.drive, station.active)
  /\ UNCHANGED <<matchVars, threadVars, held, goals>>

\* The robot is enabled and disabled, browns out and recovers; autonomous comes first.
MatchGoesOn ==
  /\ \/ \E p \in {"disabled", "brownout", "on"} : match' = [match EXCEPT !.power = p]
     \/ match.period = "auto" /\ match' = [match EXCEPT !.period = "teleop"]
  /\ UNCHANGED <<station, threadVars, held, goals, arm, driveVars>>

OffNext == \/ MatchGoesOn \/ TeleopStep \/ SubsystemTick
           \/ ChooseRoutine \/ RunStatement

\* The three loops go on.  Of teleop's what matters is that it comes to report the driver
\* station: a step in which the driver presses something else is not owed.
OffFairness ==
  /\ WF_offVars(TeleopStep /\ station' # station) /\ WF_offVars(SubsystemTick)
  /\ WF_offVars(ChooseRoutine) /\ WF_offVars(RunStatement)

OffSpec == OffInit /\ [][OffNext]_offVars /\ OffFairness

-----------------------------------------------------------------------------
(* Properties.                                                              *)

\* The routine for the left switch lets its cube go only where the profile is near the
\* switch, however the robot was disabled on the way and whenever autonomous ended.
LeftScoresNear ==
  [][routine = "left_switch" /\ At("arm") /\ pc' # pc /\ Statement.intake = "OUTTAKE_FAST"
     => follower = [to |-> "left", progress |-> follower.progress] /\ follower.progress >= Near]_offVars

\* With the robot enabled in autonomous to stay, the routine comes to its end, whatever
\* stopped the robot on its way: a path is gone on with and not begun again.
RoutineEnds ==
  <>[](match = [period |-> "auto", power |-> "on"]) => <>Done

\* An arm whose goal stays gets there and stays there, from wherever it was switched on:
\* it sinks to its hall sensor, is zeroed, and leaves the bottom again.
ArmArrives ==
  <>[](match.power = "on") /\ <>[][goals'.arm = goals.arm]_goals => <>[](arm.at = goals.arm)
=============================================================================
