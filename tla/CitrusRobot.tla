------------------------------ MODULE CitrusRobot -----------------------------
(***************************************************************************)
(* o2017, the off-season robot that carries one gear: the robot's thread   *)
(* runs the autonomous program or turns the joysticks into goals and       *)
(* reports the driver station, and the subsystem thread runs the           *)
(* drivetrain and the climber on the last goals (o2017/citrus_robot,       *)
(* o2017/subsystems, o2017/wpilib).                                        *)
(*                                                                         *)
(* Distances are multiples of what the end of a drive tolerates, and both  *)
(* sides of the robot drive the same way.  Of the drivetrain (frc971's,    *)
(* under third_party) there is that it goes towards its goal while the     *)
(* robot is enabled.  The climber's spool is an assumption: driven, it     *)
(* spins up as long as the rope is slack, lifts the robot when it is taut, *)
(* and stops at the top.                                                   *)
(***************************************************************************)
EXTENDS Joystick

CONSTANTS
  Presses,    \* for each drill, what the driver can hold at once
  Forwards,   \* 2.3 m
  Backwards,  \* 1 m
  Field       \* how far out an autonomous program begins (a bound)

VARIABLES
  drill,       \* what the driver is doing
  mode,        \* the driver station: [period, enabled]
  lastMode,    \* which mode the robot's loop has initialised
  station,     \* the last driver station message: the robot is enabled
  autoState,   \* auto_state_
  origin,      \* history: where the program began, or nowhere since something else drove
  buttons,     \* the buttons of the gear and the climber
  climbing,    \* climbing_
  goals,       \* the last goals: [gear, climb, drive]
  wheels, wheelStatus,  \* where the wheels are and the drivetrain's last status has them
  climber,     \* current_state_
  voltage,     \* the last output of the climber
  spool,       \* [rope, speed]
  begun        \* history: how the rope was when the climb was begun

robotVars == <<drill, mode, lastMode, station, autoState, origin, buttons, climbing, goals>>
subsystemVars == <<wheels, wheelStatus, climber, voltage, spool, begun>>
citrusVars == <<robotVars, subsystemVars>>

Ways == -(Field + Forwards) .. (Field + Forwards)
Buttons == {"gear", "climb"}
Sticks(moved) == [by |-> IF moved THEN "throttle" ELSE "nobody", to |-> 0]
Program(place) == [by |-> "program", to |-> place]
Nowhere == [known |-> FALSE, at |-> 0]

CitrusInit ==
  /\ drill \in DOMAIN Presses
  /\ mode \in [period : {"auto", "teleop"}, enabled : {FALSE}]
  /\ lastMode = "disabled" /\ station = FALSE
  /\ autoState = "kInit" /\ origin = Nowhere
  /\ buttons = [b \in Buttons |-> Unpressed]
  /\ climbing = FALSE
  /\ goals = [gear |-> FALSE, climb |-> FALSE, drive |-> Sticks(FALSE)]
  /\ wheels = 0 /\ wheelStatus = 0
  /\ climber = "NOTHING" /\ voltage = "zero"
  /\ spool = [rope |-> "slack", speed |-> 0] /\ begun = "slack"

-----------------------------------------------------------------------------
(* The robot's thread.                                                      *)

\* Mutant: a distance is a place on the field.
DriveGoalOnField(distance) == Program(distance)

\* SetDriveGoal.  The drivetrain has run for long before the robot is first enabled, so
\* that there is a status.
DriveGoal(distance) == Program(wheelStatus + distance)

DrivingDone == Magnitude(goals.drive.to - wheelStatus) < 1

\* One step of the program, from a state that AutonomousInit may just have set.  The
\* gear is let go of from the arrival on, and while the program begins.
UpdateAutonomous(s) ==
  /\ \/ s = "kInit" /\ autoState' = "kDriveForwards"
     \/ s = "kDriveForwards" /\ autoState' = IF DrivingDone THEN "kGearEject" ELSE s
     \/ s = "kGearEject" /\ autoState' \in {s, "kDriveBackwards"}
     \/ s = "kDriveBackwards" /\ autoState' = IF DrivingDone THEN "kDone" ELSE s
     \/ s = "kDone" /\ autoState' = s
  /\ goals' = [gear  |-> s \in {"kInit", "kGearEject", "kDriveBackwards"},
               climb |-> FALSE,
               drive |-> IF s = "kInit" THEN DriveGoal(Forwards)
                         ELSE IF s # autoState' /\ autoState' = "kDriveBackwards"
                         THEN DriveGoal(-Backwards) ELSE goals.drive]
  /\ origin' = IF s = "kInit" THEN [known |-> TRUE, at |-> wheels] ELSE origin
  /\ UNCHANGED <<buttons, climbing>>

UpdateJoysticks(p) ==
  /\ buttons' = UpdateJoystick(buttons, [b \in Buttons |-> b \in p])
  /\ climbing' = (climbing # WasClicked(buttons'.climb))
  /\ goals' = [gear |-> buttons'.gear.current, climb |-> climbing',
               drive |-> Sticks("throttle" \in p)]
  /\ origin' = Nowhere
  /\ UNCHANGED autoState

Mode == IF mode.enabled THEN mode.period ELSE "disabled"

\* The loop of the robot: the start of a mode and its periodic function.  The
\* joysticks count in the operator's period whether or not the robot is enabled.
RobotPeriodic(p) ==
  /\ lastMode' = Mode /\ station' = mode.enabled
  /\ \/ Mode = "auto" /\ UpdateAutonomous(IF lastMode # "auto" THEN "kInit" ELSE autoState)
     \/ mode.period = "teleop" /\ UpdateJoysticks(p)
     \/ Mode = "disabled" /\ mode.period = "auto"
        /\ UNCHANGED <<autoState, origin, buttons, climbing, goals>>
  /\ UNCHANGED <<drill, mode, subsystemVars>>

-----------------------------------------------------------------------------
(* The subsystems' thread.                                                  *)

Towards(x, to) == IF x < to THEN x + 1 ELSE IF x > to THEN x - 1 ELSE x

\* The drivetrain reads the wheels, publishes them and drives.
UpdateDrivetrain ==
  /\ wheelStatus' = wheels
  /\ \/ ~station /\ UNCHANGED wheels
     \/ station /\ goals.drive.by = "nobody" /\ UNCHANGED wheels
     \/ station /\ goals.drive.by = "throttle" /\ wheels' \in {wheels - 1, wheels + 1}
     \/ station /\ goals.drive.by = "program" /\ wheels' = Towards(wheels, goals.drive.to)
  /\ wheels' \in Ways

\* Mutant: a climb starts again with every goal.
SetGoalAnew == IF goals.climb THEN "SPIN_UP" ELSE "NOTHING"

SetGoal ==
  IF ~goals.climb THEN "NOTHING" ELSE IF climber = "NOTHING" THEN "SPIN_UP" ELSE climber

\* The speeds that a state of the climb waits to be passed, for speeds of 0 below
\* kFinalVelocity, 1 to kStartClimbingVelocity, 2 to kSpinUpVelocity, and 3.
NextClimberState(s) ==
  CASE s = "SPIN_UP" /\ spool.speed > 2     -> "APPROACHING"
    [] s = "APPROACHING" /\ spool.speed < 2 -> "CLIMBING"
    [] s = "CLIMBING" /\ spool.speed < 1    -> "REACHED_TOP"
    [] OTHER                                -> s

\* The climber is updated as if outputs were always enabled.
UpdateClimber ==
  /\ climber' = NextClimberState(SetGoal)
  /\ voltage' = CASE SetGoal = "NOTHING"     -> "zero"
                  [] SetGoal = "REACHED_TOP" -> "top"
                  [] OTHER                   -> "climbing"
  /\ begun' = IF goals.climb /\ climber = "NOTHING" THEN spool.rope ELSE begun

\* The average speed over the last samples, with the voltage of the last tick.
Turn ==
  LET top == CASE voltage = "zero" \/ ~station \/ spool.rope = "top" -> 0
               [] spool.rope = "taut"  -> 1
               [] spool.rope = "slack" -> 3
  IN  spool' = [spool EXCEPT !.speed = Towards(@, top)]

SubsystemTick ==
  /\ UpdateDrivetrain /\ UpdateClimber /\ Turn
  /\ UNCHANGED robotVars

\* The rope tightens on a spool that has spun up, and the robot it lifts arrives.
Rope ==
  /\ \/ spool.rope = "slack" /\ spool.speed > 2 /\ spool' = [spool EXCEPT !.rope = "taut"]
     \/ spool.rope = "taut" /\ spool.speed > 0 /\ spool' = [spool EXCEPT !.rope = "top"]
  /\ UNCHANGED <<robotVars, wheels, wheelStatus, climber, voltage, begun>>

\* The robot is enabled, disabled and put into another period at any time.
ModeChanges ==
  /\ mode' \in [period : {"auto", "teleop"}, enabled : BOOLEAN] \ {mode}
  /\ mode'.period = "auto" /\ mode'.enabled => wheels \in -Field .. Field
  /\ UNCHANGED <<drill, lastMode, station, autoState, origin, buttons, climbing, goals,
                subsystemVars>>

CitrusNext ==
  \/ ModeChanges \/ SubsystemTick \/ Rope
  \/ \E p \in Presses[drill] : RobotPeriodic(p)

Held == {b \in Buttons : buttons[b].current}

\* The loops go on, whatever the driver holds, and a robot that climbs arrives.
CitrusFairness ==
  /\ WF_citrusVars(RobotPeriodic(Held)) /\ WF_citrusVars(SubsystemTick) /\ WF_citrusVars(Rope)

CitrusSpec == CitrusInit /\ [][CitrusNext]_citrusVars /\ CitrusFairness

-----------------------------------------------------------------------------
(* Properties.                                                              *)

\* A program always begins anew when autonomous is enabled.  One that has got to its end,
\* with nothing else driving in between, ends with a goal one drive back from the peg that
\* its own drive forwards led to, whatever an earlier one that was disabled on the way has
\* left: to within what the wheels moved since the status, and the arrival tolerated, each
\* time.
BacksOffFromPeg ==
  autoState = "kDone" /\ origin.known
    => Magnitude(goals.drive.to - (origin.at + Forwards - Backwards)) <= 2

\* A climb that goes on gets to the top and is then held with the low voltage, unless
\* the robot already hung on its rope when it was begun: then the spool never turns
\* fast enough for the next state.
ClimbEases ==
  <>[](goals.climb /\ station) =>
    <>[](voltage = "top") \/ <>[](begun # "slack")
=============================================================================
