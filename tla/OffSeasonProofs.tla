---------------------------- MODULE OffSeasonProofs ---------------------------
(***************************************************************************)
(* Safety of the off-season robots in autonomous, for every length of      *)
(* their drives and whatever the driver station does to them on the way.   *)
(***************************************************************************)
EXTENDS MCOffSeason, TLAPS

-----------------------------------------------------------------------------
(* The robot of 2017, which backs off from its peg.                         *)

Apart(x, y, d) == x - y <= d /\ y - x <= d

\* The wheels are where the status has them or a step further.
WheelsOK == wheels \in Int /\ wheelStatus \in Int /\ Apart(wheels, wheelStatus, 1)

GoalOK == citrusGoals.drive.to \in Int /\ origin.at \in Int

\* The goal of a program that has been run from its beginning: until it backs off one
\* drive from where it began, and from there one drive back, each within the error of
\* the status and, the second, of the arrival.
Forth == Apart(citrusGoals.drive.to, origin.at + Forwards, 1)
Back == Apart(citrusGoals.drive.to, origin.at + Forwards - Backwards, 2)
\* While the gear is let go of, the robot stands where it arrived.
Arrived == /\ Apart(wheels, citrusGoals.drive.to, 1)
           /\ Apart(wheelStatus, citrusGoals.drive.to, 1)

OnItsWay ==
  origin.known =>
    /\ citrusGoals.drive.by = "program"
    /\ \/ autoState = "kDriveForwards" /\ Forth
       \/ autoState = "kGearEject" /\ Forth /\ Arrived
       \/ autoState \in {"kDriveBackwards", "kDone"} /\ Back

CInv == WheelsOK /\ GoalOK /\ OnItsWay

\* The robot starts before its program has an origin.
LEMMA CitrusInitInv == citrus!CitrusInit => CInv
BY DEF citrus!CitrusInit, citrus!Nowhere, citrus!Sticks, CInv, WheelsOK, GoalOK, OnItsWay, Apart

\* The drivetrain moves the wheels by a step, and towards the goal of a program.
LEMMA TickKeepsCInv == CInv /\ citrus!SubsystemTick => CInv'
<1> SUFFICES ASSUME CInv, citrus!SubsystemTick PROVE CInv'
  OBVIOUS
<1>1. UNCHANGED <<citrusGoals, origin, autoState>>
  BY DEF citrus!SubsystemTick, citrus!robotVars
<1>2. wheelStatus' = wheels
  BY DEF citrus!SubsystemTick, citrus!UpdateDrivetrain
<1>3. \/ wheels' \in {wheels, wheels - 1, wheels + 1} /\ citrusGoals.drive.by # "program"
      \/ wheels' = wheels
      \/ wheels' = citrus!Towards(wheels, citrusGoals.drive.to)
  BY DEF citrus!SubsystemTick, citrus!UpdateDrivetrain
<1>4. WheelsOK'
  BY <1>2, <1>3 DEF CInv, WheelsOK, GoalOK, Apart, citrus!Towards
<1>5. GoalOK'
  BY <1>1 DEF CInv, GoalOK
<1>6. ASSUME citrusGoals.drive.by = "program", Arrived PROVE Arrived'
  BY <1>1, <1>2, <1>3, <1>6 DEF CInv, WheelsOK, GoalOK, Arrived, Apart, citrus!Towards
<1>7. OnItsWay'
  BY <1>1, <1>6 DEF CInv, OnItsWay, Forth, Back
<1> QED
  BY <1>4, <1>5, <1>7 DEF CInv

\* A step of the program.
LEMMA AutonomousKeepsCInv ==
  ASSUME CInv, NEW s, citrus!UpdateAutonomous(s), s \in {"kInit", autoState},
         UNCHANGED <<wheels, wheelStatus>>
  PROVE  CInv'
<1>1. WheelsOK'
  BY DEF CInv, WheelsOK
<1>2. CASE s = "kInit"
  <2>1. /\ autoState' = "kDriveForwards" /\ origin' = [known |-> TRUE, at |-> wheels]
        /\ citrusGoals'.drive = [by |-> "program", to |-> wheelStatus + Forwards]
    <3>1. autoState' = "kDriveForwards" /\ origin' = [known |-> TRUE, at |-> wheels]
      BY <1>2 DEF citrus!UpdateAutonomous
    <3>2. citrusGoals'.drive = citrus!DriveGoal(Forwards)
      BY <1>2 DEF citrus!UpdateAutonomous
    <3> QED
      BY <3>1, <3>2 DEF citrus!DriveGoal, citrus!Program
  <2>2. citrusGoals'.drive.to = wheelStatus + Forwards /\ citrusGoals'.drive.by = "program"
        /\ origin'.at = wheels
    BY <2>1
  <2>3. GoalOK'
    BY <2>2, DistancesAssumption DEF CInv, WheelsOK, GoalOK
  <2>4. Forth'
    BY <2>2, DistancesAssumption DEF CInv, WheelsOK, Forth, Apart
  <2> QED
    BY <1>1, <2>1, <2>2, <2>3, <2>4 DEF CInv, OnItsWay
<1>3. CASE s # "kInit" /\ autoState = "kGearEject" /\ autoState' = "kDriveBackwards"
  <2>1. origin' = origin /\ citrusGoals'.drive = [by |-> "program", to |-> wheelStatus + (-Backwards)]
    BY <1>3 DEF citrus!UpdateAutonomous, citrus!DriveGoal, citrus!Program
  <2>2. citrusGoals'.drive.to = wheelStatus + (-Backwards) /\ citrusGoals'.drive.by = "program"
    BY <2>1
  <2>3. GoalOK'
    BY <2>1, <2>2, DistancesAssumption DEF CInv, WheelsOK, GoalOK
  <2>4. origin.known => Back'
    BY <1>3, <2>1, <2>2, DistancesAssumption
    DEF CInv, WheelsOK, GoalOK, OnItsWay, Forth, Arrived, Back, Apart
  <2> QED
    BY <1>1, <1>3, <2>1, <2>2, <2>3, <2>4 DEF CInv, OnItsWay
<1>4. CASE s # "kInit" /\ ~(autoState = "kGearEject" /\ autoState' = "kDriveBackwards")
  <2>1. origin' = origin /\ citrusGoals'.drive = citrusGoals.drive
    BY <1>4 DEF citrus!UpdateAutonomous
  <2>2. \/ autoState' = autoState
        \/ autoState = "kDriveForwards" /\ autoState' = "kGearEject" /\ citrus!DrivingDone
        \/ autoState = "kDriveBackwards" /\ autoState' = "kDone"
    BY <1>4 DEF citrus!UpdateAutonomous
  <2>3. GoalOK'
    BY <2>1 DEF CInv, GoalOK
  <2>4. ASSUME citrus!DrivingDone PROVE Arrived'
    BY <2>1, <2>4
    DEF CInv, WheelsOK, GoalOK, Arrived, Apart, citrus!DrivingDone, citrus!Magnitude
  <2>5. (Forth => Forth') /\ (Back => Back') /\ (Arrived => Arrived')
    BY <2>1 DEF Forth, Back, Arrived
  <2>6. OnItsWay'
    BY <2>1, <2>2, <2>4, <2>5 DEF CInv, OnItsWay
  <2> QED
    BY <1>1, <2>3, <2>6 DEF CInv
<1> QED
  BY <1>2, <1>3, <1>4

\* Every step of the robot keeps what is said of its wheels and its drives.
LEMMA CitrusKeepsCInv == CInv /\ citrus!CitrusNext => CInv'
<1> SUFFICES ASSUME CInv, citrus!CitrusNext PROVE CInv'
  OBVIOUS
<1>1. CASE citrus!SubsystemTick
  BY <1>1, TickKeepsCInv
<1>2. ASSUME NEW p \in Drills[drill], citrus!RobotPeriodic(p) PROVE CInv'
  <2>1. UNCHANGED <<wheels, wheelStatus>>
    BY <1>2 DEF citrus!RobotPeriodic, citrus!subsystemVars
  <2>2. ASSUME NEW s \in {"kInit", autoState}, citrus!UpdateAutonomous(s) PROVE CInv'
    BY <2>1, <2>2, AutonomousKeepsCInv
  <2>3. CASE citrus!UpdateJoysticks(p)
    <3>1. origin' = [known |-> FALSE, at |-> 0] /\ citrusGoals'.drive.to = 0
      BY <2>3 DEF citrus!UpdateJoysticks, citrus!Nowhere, citrus!Sticks
    <3> QED
      BY <2>1, <3>1 DEF CInv, WheelsOK, GoalOK, OnItsWay
  <2>4. CASE UNCHANGED <<autoState, origin, citrusGoals>>
    BY <2>1, <2>4 DEF CInv, WheelsOK, GoalOK, OnItsWay, Forth, Back, Arrived
  <2> QED
    BY <1>2, <2>2, <2>3, <2>4 DEF citrus!RobotPeriodic
<1>3. CASE citrus!Rope \/ citrus!ModeChanges
  <2>1. UNCHANGED <<autoState, origin, citrusGoals, wheels, wheelStatus>>
    BY <1>3 DEF citrus!Rope, citrus!ModeChanges, citrus!robotVars, citrus!subsystemVars
  <2> QED
    BY <2>1 DEF CInv, WheelsOK, GoalOK, OnItsWay, Forth, Back, Arrived
<1> QED
  BY <1>1, <1>2, <1>3 DEF citrus!CitrusNext

\* However long the two drives are, and wherever earlier programs were disabled, one that
\* runs from its beginning to its end ends one drive back from the peg it drove to.
THEOREM BacksOff == SeasonSpec => []BacksOffFromPeg
<1>1. SeasonInit => CInv
  BY CitrusInitInv DEF SeasonInit
<1>2. CInv /\ [SeasonNext]_seasonVars => CInv'
  <2> SUFFICES ASSUME CInv, [SeasonNext]_seasonVars PROVE CInv'
    OBVIOUS
  <2>1. CASE Citrus /\ citrus!CitrusNext
    BY <2>1, CitrusKeepsCInv
  <2>2. CASE UNCHANGED citrusVars
    BY <2>2 DEF citrusVars, CInv, WheelsOK, GoalOK, OnItsWay, Forth, Back, Arrived
  <2> QED
    BY <2>1, <2>2 DEF SeasonNext, OffSeason, seasonVars
<1>3. CInv => BacksOffFromPeg
  BY DistancesAssumption
  DEF CInv, GoalOK, OnItsWay, Back, Apart, BacksOffFromPeg, citrus!BacksOffFromPeg, citrus!Magnitude
<1> QED
  BY <1>1, <1>2, <1>3, PTL DEF SeasonSpec

-----------------------------------------------------------------------------
(* The robot of 2018, which lets its cube go near the switch.               *)

ToLeft == routine \in {"waiting", "left_switch"}
NearLeft == follower.to = "left" /\ follower.progress >= Near

\* The routine has not been left, and the only path that it asks for ends at the switch.
LeftOK ==
  /\ pc \in Nat \ {0} /\ (routine = "waiting" => pc = 1)
  /\ ToLeft => goals.drive \in {NoGoal, TeleopGoal, PathGoal("left")}

FollowerOK ==
  /\ follower = [to |-> follower.to, progress |-> follower.progress]
  /\ follower.progress \in 0 .. Length

\* Only a status of a path says that its end is near, and what has been followed stays so.
NearOK ==
  /\ ToLeft /\ driveStatus.near => NearLeft
  /\ routine = "left_switch" /\ pc >= 8 => NearLeft

LInv == LeftOK /\ FollowerOK /\ NearOK

\* Nothing is followed before the first goal.
LEMMA LeftInit == OffInit => LInv
BY DrivetrainAssumption
DEF OffInit, DrivetrainInit, NoProfile, LInv, LeftOK, FollowerOK, NearOK, ToLeft

\* What the routine for the left switch asks for, in order.
LEMMA LeftSwitchStatements ==
  /\ Len(LeftSwitch) = 10 /\ LeftSwitch[7].op = "near"
  /\ \A i \in 1 .. 10 : LeftSwitch[i].op = "drive" => LeftSwitch[i].to = "left"
  /\ \A i \in 1 .. 10 : LeftSwitch[i].op = "arm" /\ LeftSwitch[i].intake = "OUTTAKE_FAST" => i = 8
<1>1. /\ LeftSwitch[1] = SetArm(4, "INTAKE_NONE") /\ LeftSwitch[2] = Wait
      /\ LeftSwitch[3] = SetArm(0, "INTAKE_NONE") /\ LeftSwitch[4] = SetArm(0, "INTAKE_NONE")
      /\ LeftSwitch[5] = StartDrivePath("left") /\ LeftSwitch[6] = SetArm(2, "INTAKE_NONE")
      /\ LeftSwitch[7] = WaitUntilDrivetrainNear /\ LeftSwitch[8] = SetArm(2, "OUTTAKE_FAST")
      /\ LeftSwitch[9] = Wait /\ LeftSwitch[10] = SetArm(2, "INTAKE_NONE")
  BY DEF LeftSwitch, FreeArm, Score
<1>2. Len(LeftSwitch) = 10
  BY DEF LeftSwitch, FreeArm, Score
<1>3. \A i \in 1 .. 10 : i \in {1, 2, 3, 4, 5, 6, 7, 8, 9, 10}
  OBVIOUS
<1>4. \A i \in 1 .. 10 :
        \/ i = 8
        \/ LeftSwitch[i] = StartDrivePath("left")
        \/ LeftSwitch[i] \in {SetArm(4, "INTAKE_NONE"), SetArm(0, "INTAKE_NONE"),
                             SetArm(2, "INTAKE_NONE"), Wait, WaitUntilDrivetrainNear}
  BY <1>1, <1>3
<1>5. /\ \A a, m : SetArm(a, m).op = "arm" /\ SetArm(a, m).intake = m
      /\ Wait.op = "wait" /\ WaitUntilDrivetrainNear.op = "near"
      /\ \A p : StartDrivePath(p).op = "drive" /\ StartDrivePath(p).to = p
  BY DEF SetArm, Wait, WaitUntilDrivetrainNear, StartDrivePath
<1> QED
  BY <1>1, <1>2, <1>4, <1>5

\* A statement of the routine for the left switch is one of its ten.
LEMMA RunningLeft ==
  ASSUME LInv, routine = "left_switch", NEW op, At(op)
  PROVE  pc \in 1 .. 10
<1>1. Programs[routine] = LeftSwitch /\ pc \in Nat \ {0} /\ ~(pc > Len(Programs[routine]))
  BY DEF At, Done, LInv, LeftOK, Programs
<1> QED
  BY <1>1, LeftSwitchStatements

\* The drivetrain only follows what it is asked to, and further and further.
LEMMA DriveKeepsNear ==
  ASSUME LInv, NEW active, UpdateDrivetrain(goals.drive, active), UNCHANGED <<routine, pc, goals>>
  PROVE  LInv'
<1>1. LeftOK'
  BY DEF LInv, LeftOK, ToLeft
<1>2. CASE follower' = follower /\ driveStatus' = NoProfile
  BY <1>2 DEF LInv, FollowerOK, NearOK, NearLeft, ToLeft, NoProfile, LeftOK
<1>3. CASE goals.drive.kind = "path" /\ FollowPath(goals.drive)
  <2>1. Plan(goals.drive) = [to |-> Plan(goals.drive).to, progress |-> Plan(goals.drive).progress]
        /\ Plan(goals.drive).progress \in 0 .. Length
        /\ Plan(goals.drive).to = goals.drive.to
        /\ (follower.to = goals.drive.to => Plan(goals.drive) = follower)
    BY DrivetrainAssumption DEF Plan, LInv, FollowerOK
  <2>2. follower' = Advance(Plan(goals.drive)) /\ driveStatus'.near = (follower'.progress >= Near)
    BY <1>3 DEF FollowPath
  <2>3. /\ follower' = [to |-> goals.drive.to, progress |-> follower'.progress]
        /\ follower'.to = goals.drive.to
        /\ follower'.progress \in 0 .. Length /\ follower'.progress >= Plan(goals.drive).progress
    BY <2>1, <2>2, DrivetrainAssumption DEF Advance
  <2>4. FollowerOK'
    BY <2>3 DEF FollowerOK
  <2>5. ToLeft => goals.drive.to = "left"
    BY <1>3 DEF LInv, LeftOK, NoGoal, TeleopGoal, PathGoal
  <2>6. NearOK'
    <3>1. ToLeft /\ driveStatus'.near => NearLeft'
      BY <2>2, <2>3, <2>5 DEF NearLeft
    <3>2. ToLeft /\ NearLeft => NearLeft'
      BY <2>1, <2>3, <2>5, DrivetrainAssumption DEF NearLeft, LInv, FollowerOK
    <3> QED
      BY <3>1, <3>2 DEF LInv, NearOK, ToLeft
  <2> QED
    BY <1>1, <2>4, <2>6 DEF LInv
<1> QED
  BY <1>2, <1>3 DEF UpdateDrivetrain, OtherGoal

\* Teleop, the drivetrain and the routine, disabled or not, keep the cube's way.
LEMMA LeftNext == LInv /\ [OffNext]_offVars => LInv'
<1> SUFFICES ASSUME LInv, [OffNext]_offVars PROVE LInv'
  OBVIOUS
<1>1. CASE SubsystemTick
  BY <1>1, DriveKeepsNear DEF SubsystemTick, threadVars
<1>2. CASE TeleopStep
  <2>1. goals'.drive \in {goals.drive, TeleopGoal} /\ UNCHANGED <<routine, pc, follower, driveStatus>>
    BY <1>2 DEF TeleopStep, SendGoals, threadVars, driveVars
  <2> QED
    BY <2>1 DEF LInv, LeftOK, FollowerOK, NearOK, NearLeft, ToLeft
<1>3. CASE ChooseRoutine
  <2>1. pc = 1 /\ ToLeft /\ UNCHANGED <<pc, goals, follower, driveStatus>>
    BY <1>3 DEF ChooseRoutine, LInv, LeftOK, ToLeft, driveVars
  <2>2. routine' # "waiting"
    BY <1>3, RoutinesAssumption DEF ChooseRoutine, Programs
  <2> QED
    BY <2>1, <2>2 DEF LInv, LeftOK, FollowerOK, NearOK, NearLeft, ToLeft
<1>4. CASE RunStatement
  <2>1. /\ pc' = pc + 1 /\ routine # "waiting" /\ UNCHANGED <<routine, follower, driveStatus>>
    BY <1>4 DEF RunStatement, RunSetArm, RunStartDrivePath, GoOn, WaitIsOver, At, driveVars
  <2>2. pc \in Nat \ {0} /\ pc + 1 \in Nat \ {0}
    BY DEF LInv, LeftOK
  <2>3. LeftOK'
    <3>1. routine = "left_switch" => goals'.drive \in {goals.drive, PathGoal("left")}
      <4>1. goals'.drive = goals.drive \/ (At("drive") /\ goals'.drive = PathGoal(Statement.to))
        <5>1. CASE RunSetArm
          BY <5>1 DEF RunSetArm
        <5>2. CASE RunStartDrivePath
          BY <5>2 DEF RunStartDrivePath
        <5>3. CASE GoOn
          BY <5>3 DEF GoOn
        <5> QED
          BY <1>4, <5>1, <5>2, <5>3 DEF RunStatement
      <4>2. routine = "left_switch" /\ At("drive") => Statement.to = "left"
        BY RunningLeft, LeftSwitchStatements DEF Statement, At, Programs
      <4> QED
        BY <4>1, <4>2
    <3> QED
      BY <2>1, <2>2, <3>1 DEF LInv, LeftOK, ToLeft
  <2>4. NearOK'
    <3>1. ASSUME routine = "left_switch", pc + 1 >= 8, ~(pc >= 8) PROVE NearLeft
      <4>1. pc = 7
        BY <2>2, <3>1
      <4>2. Programs[routine][pc].op = "near"
        BY <3>1, <4>1, LeftSwitchStatements DEF Programs
      <4>3. driveStatus.near
        BY <1>4, <4>2 DEF RunStatement, RunSetArm, RunStartDrivePath, GoOn, WaitIsOver, At
      <4> QED
        BY <3>1, <4>3 DEF LInv, NearOK, ToLeft
    <3> QED
      BY <2>1, <2>2, <3>1 DEF LInv, NearOK, NearLeft, ToLeft
  <2> QED
    BY <2>1, <2>3, <2>4 DEF LInv, FollowerOK
<1>5. CASE MatchGoesOn \/ UNCHANGED offVars
  <2>1. UNCHANGED <<routine, pc, goals, follower, driveStatus>>
    BY <1>5 DEF MatchGoesOn, offVars, threadVars, driveVars
  <2> QED
    BY <2>1 DEF LInv, LeftOK, FollowerOK, NearOK, NearLeft, ToLeft
<1> QED
  BY <1>1, <1>2, <1>3, <1>4, <1>5 DEF OffNext

\* The routine for the left switch only lets its cube go near the switch: its wait for
\* that outlives its period and the profile only ever gets nearer.
THEOREM LeftIsNear == SeasonSpec => LeftScoresNear
<1> DEFINE Scores == routine = "left_switch" /\ At("arm") /\ pc' # pc /\ Statement.intake = "OUTTAKE_FAST"
                       => /\ follower = [to |-> "left", progress |-> follower.progress]
                          /\ follower.progress >= Near
<1>1. SeasonInit => LInv
  BY LeftInit DEF SeasonInit
<1>2. LInv /\ [SeasonNext]_seasonVars => LInv'
  BY LeftNext DEF SeasonNext, OffSeason, Citrus, seasonVars
<1>3. LInv => Scores
  <2> SUFFICES ASSUME LInv, routine = "left_switch", At("arm"), Statement.intake = "OUTTAKE_FAST"
               PROVE  /\ follower = [to |-> "left", progress |-> follower.progress]
                      /\ follower.progress >= Near
    OBVIOUS
  <2>1. pc = 8
    BY RunningLeft, LeftSwitchStatements DEF At, Statement, Programs
  <2> QED
    BY <2>1 DEF LInv, NearOK, NearLeft, FollowerOK
<1>4. LInv => [Scores]_offVars
  BY <1>3
<1> QED
  BY <1>1, <1>2, <1>4, PTL DEF SeasonSpec, LeftScoresNear
=============================================================================
