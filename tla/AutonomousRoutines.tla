-------------------------- MODULE AutonomousRoutines --------------------------
(***************************************************************************)
(* The autonomous routines of the 2018 robot, as programs of the           *)
(* statements that c2018/autonomous/autonomous_base.cpp gives them:        *)
(* messages to the drivetrain and the score subsystem, and waits.          *)
(* Coordinates, gears and speeds are left out; lengths of time are too.    *)
(***************************************************************************)
EXTENDS Sequences

\* Messages that start a drive: absolute, relative, at an angle, or along a path.
StartDrive == [op |-> "drive"]
\* Messages to the score subsystem.
Send(score, intake) == [op |-> "goal", score |-> score, intake |-> intake]
MoveTo(score) == Send(score, "INTAKE_NONE")
IntakeGround == Send("INTAKE_0", "INTAKE")
ForceIntake == Send("SCORE_NONE", "INTAKE")
IntakeOpen == Send("SCORE_NONE", "INTAKE_OPEN")
IntakeClose == Send("SCORE_NONE", "INTAKE_CLOSE")
StopIntakeGround == Send("SCORE_NONE", "INTAKE_NONE")
ScoreFast == Send("SCORE_NONE", "OUTTAKE_FAST")
ScoreSlow == Send("SCORE_NONE", "OUTTAKE_SLOW")
DropScore == Send("SCORE_NONE", "DROP")
\* Waits.
Near == [op |-> "near"]
DriveComplete == [op |-> "complete"]
WaitForCube == [op |-> "cube"]
WaitForCubeOrTimeout == [op |-> "cubeOrTimeout"]
Wait == [op |-> "wait"]

-----------------------------------------------------------------------------
RightRightSwitch ==
  << StartDrive, MoveTo("SCALE_LOW_REVERSE"), Near, ScoreSlow, DriveComplete,
     \* into a cube, and back to the switch
     IntakeGround, StartDrive, WaitForCube, DriveComplete, StopIntakeGround,
     StartDrive, MoveTo("SCALE_LOW_REVERSE"), Near, ScoreSlow, DriveComplete,
     \* the second cube, off the pyramid, to the other side
     MoveTo("INTAKE_1"), IntakeOpen, StartDrive, Near, IntakeClose,
     WaitForCube, DriveComplete,
     StartDrive, StopIntakeGround, DriveComplete,
     MoveTo("STOW"), StartDrive, Near, StartDrive, DriveComplete >>

\* The layouts differ in where they drive to.
RightLeftSwitch == RightRightSwitch
LeftRightSwitch == RightRightSwitch
LeftLeftSwitch == RightRightSwitch

RightScale ==
  << StartDrive, Wait, MoveTo("STOW"), DriveComplete, StartDrive, Near,
     StartDrive, Wait, MoveTo("SCALE_SHOOT"), DriveComplete,
     StartDrive, DriveComplete, ScoreFast, Wait,
     IntakeGround, IntakeOpen, Wait, StartDrive, Near,
     IntakeClose, WaitForCubeOrTimeout, DriveComplete, MoveTo("SCALE_SHOOT"),
     StartDrive, DriveComplete, ScoreFast, Wait, IntakeGround,
     StartDrive, Near, WaitForCubeOrTimeout, IntakeGround, DriveComplete,
     MoveTo("SCALE_SHOOT"), StartDrive, Near, ScoreFast, Wait, IntakeGround,
     StartDrive, Near, WaitForCubeOrTimeout >>

LeftScale ==
  << MoveTo("SCALE_SHOOT"), StartDrive, Near, ScoreSlow, Wait, DriveComplete,
     IntakeGround, IntakeOpen, StartDrive, Near, IntakeClose, DriveComplete,
     WaitForCubeOrTimeout,
     StartDrive, MoveTo("SCALE_SHOOT"), DriveComplete, ScoreFast, Wait,
     IntakeGround, StartDrive, WaitForCubeOrTimeout, ForceIntake, DriveComplete,
     StartDrive, Wait, MoveTo("SCALE_SHOOT"), DriveComplete, ScoreFast, Wait,
     IntakeGround, StartDrive, WaitForCubeOrTimeout >>

SneakLeft ==
  << MoveTo("SCALE_SHOOT"), StartDrive, Near, ScoreFast, DriveComplete,
     MoveTo("STOW"), StartDrive, Wait, IntakeGround, WaitForCube, DriveComplete,
     MoveTo("STOW"), StartDrive, DriveComplete, MoveTo("SCALE_HIGH_FORWARD"),
     StartDrive, DriveComplete, StartDrive, DriveComplete,
     DropScore, Wait, StartDrive, Wait, MoveTo("INTAKE_0") >>

SneakRight ==
  << StartDrive, MoveTo("STOW"), Near, StartDrive, Near, StartDrive, DriveComplete,
     StartDrive, DriveComplete, StartDrive, MoveTo("SCALE_HIGH_FORWARD"), Wait,
     StartDrive, DriveComplete, DropScore, Wait, StartDrive, Wait,
     MoveTo("INTAKE_0") >>

\* Mutant: the second cube is scored from the ground.
SwitchWithoutSecondMove ==
  << StartDrive, MoveTo("SWITCH"), DriveComplete, ScoreFast, Wait,
     StartDrive, DriveComplete, IntakeGround, IntakeOpen,
     StartDrive, DriveComplete, IntakeClose, WaitForCube, StopIntakeGround,
     StartDrive, DriveComplete, StartDrive, DriveComplete, ScoreFast, Wait >>

LeftSwitch ==
  << StartDrive, MoveTo("SWITCH"), DriveComplete, ScoreFast, Wait,
     StartDrive, DriveComplete, IntakeGround, IntakeOpen,
     StartDrive, DriveComplete, IntakeClose, WaitForCube, StopIntakeGround,
     StartDrive, DriveComplete,
     StartDrive, MoveTo("SWITCH"), DriveComplete, ScoreFast, Wait >>

RightSwitch == LeftSwitch

SwitchBack ==
  << MoveTo("SWITCH"), StartDrive, DriveComplete, StartDrive, DriveComplete,
     ScoreFast, Wait,
     StartDrive, Wait, IntakeGround, IntakeOpen, DriveComplete,
     StartDrive, WaitForCube, IntakeClose,
     StartDrive, MoveTo("SWITCH"), DriveComplete, StartDrive, DriveComplete,
     ScoreFast,
     StartDrive, DriveComplete, IntakeGround, StartDrive, WaitForCube,
     StartDrive, MoveTo("SWITCH"), Wait, StartDrive, DriveComplete, ScoreFast >>

DriveBackwards == <<StartDrive, DriveComplete>>
NoneAuto == <<Wait>>

Programs == [
  right_right_switch |-> RightRightSwitch, right_left_switch |-> RightLeftSwitch,
  left_right_switch |-> LeftRightSwitch, left_left_switch |-> LeftLeftSwitch,
  right_scale |-> RightScale, left_scale |-> LeftScale,
  sneak_left |-> SneakLeft, sneak_right |-> SneakRight,
  left_switch |-> LeftSwitch, right_switch |-> RightSwitch, switch_back |-> SwitchBack,
  drive |-> DriveBackwards, none |-> NoneAuto, nothing |-> <<>>]

-----------------------------------------------------------------------------
\* Which program runs for a selection on the dashboard and the sides of the
\* near switch and the scale.  A side that is
\* neither left nor right is the right one for some selections, and runs nothing for
\* the others.
BySide(side, left, right, other) ==
  CASE side = "L" -> left [] side = "R" -> right [] OTHER -> other

Program(selected, layout) ==
  LET near == layout[1]
      scale == layout[2]
  IN  CASE selected = "SWITCH_ONLY" -> BySide(near, "left_switch", "right_switch", "nothing")
        [] selected = "SCALE_ONLY" -> BySide(scale, "left_scale", "right_scale", "nothing")
        [] selected = "SWITCH_AND_SCALE" ->
             BySide(near,
                    BySide(scale, "left_left_switch", "left_right_switch", "nothing"),
                    BySide(scale, "right_left_switch", "right_right_switch", "nothing"),
                    "nothing")
        [] selected = "BACKSIDE_SWITCH" -> BySide(near, "switch_back", "drive", "drive")
        [] selected = "DRIVE" -> "drive"
        [] selected = "SNEAK" -> BySide(scale, "sneak_left", "sneak_right", "sneak_right")
        [] OTHER -> "none"
=============================================================================
