------------------------------- MODULE Drivetrain ------------------------------
(***************************************************************************)
(* muan/subsystems/drivetrain with the trajectory it follows: which        *)
(* controller a goal is given to, when a path is planned anew, and what    *)
(* the status says of it.                                                  *)
(*                                                                         *)
(* A goal is a record with a kind, and for a path its end, `to`.  A        *)
(* trajectory is Length control ticks long, and `progress` counts those    *)
(* that the follower has advanced.  Geometry, gears and setpoints are left *)
(* out, and so are point turns, distances and pairs of wheel positions,    *)
(* which are in the interface and which no program sends.                  *)
(***************************************************************************)
EXTENDS Integers

CONSTANTS
  Paths,    \* the ends of paths that are sent
  Length,   \* control ticks that a trajectory takes (a bound)
  Near      \* progress from which the profile is near its end

ASSUME DrivetrainAssumption == Length \in Nat \ {0} /\ Near \in 0..Length

VARIABLES
  follower,     \* ClosedLoopDrive: the last path goal, and how far it has been followed
  driveStatus,  \* the last status message: what it says of a profile
  driveOutput   \* which kind of output the motors were given last
driveVars == <<follower, driveStatus, driveOutput>>

\* The goals of the three programs that have this drivetrain.
TeleopGoal == [kind |-> "teleop", to |-> "nowhere"]
VelocityGoal == [kind |-> "velocity", to |-> "nowhere"]
PathGoal(p) == [kind |-> "path", to |-> p]
NoGoal == [kind |-> "none", to |-> "nowhere"]
DriveGoals == {TeleopGoal, VelocityGoal, NoGoal} \cup {PathGoal(p) : p \in Paths}

\* A status that says nothing of a profile has the fields' defaults: the origin, and
\* not complete.
NoProfile == [to |-> "origin", near |-> FALSE, complete |-> FALSE]

\* last_goal_pose_ and the trajectory are not initialised.  The memory is taken not to
\* hold the end of a path by chance.
DrivetrainInit ==
  /\ follower = [to |-> "nowhere", progress |-> 0]
  /\ driveStatus = NoProfile
  /\ driveOutput = "NONE"

-----------------------------------------------------------------------------
\* Mutant: every path goal is planned anew.
PlanAlways(g) == [to |-> g.to, progress |-> 0]

\* ClosedLoopDrive::SetGoal: a path to the same place is gone on with, whatever was
\* driven in between.
Plan(g) == IF g.to = follower.to THEN follower ELSE [to |-> g.to, progress |-> 0]

Advance(f) == [f EXCEPT !.progress = IF @ < Length THEN @ + 1 ELSE @]

\* UpdatePathFollower.  The profile is done when all of it has been advanced through.
FollowPath(g) ==
  /\ follower' = Advance(Plan(g))
  /\ driveStatus' = [to |-> g.to, near |-> follower'.progress >= Near,
                     complete |-> follower'.progress = Length]
  /\ driveOutput' = "VELOCITY"

OtherGoal(output) ==
  /\ driveStatus' = NoProfile /\ driveOutput' = output
  /\ UNCHANGED follower

\* Drivetrain::Update.  Without a goal there is a status and no output.  Open loop takes
\* what is no goal of its own for a throttle of zero.
UpdateDrivetrain(g, active) ==
  CASE g = NoGoal -> OtherGoal(driveOutput)
    [] g.kind = "path" /\ active -> FollowPath(g)
    [] g.kind = "velocity" /\ active -> OtherGoal("VELOCITY")
    [] OTHER -> OtherGoal("OPEN_LOOP")

=============================================================================
