---------------------------- MODULE DrivetrainAction ---------------------------
(***************************************************************************)
(* muan/actions/drivetrain_action: a drive of so far and so many turns,    *)
(* which the vision alignment of the 2017 robot begins and then updates    *)
(* until it has ended.                                                     *)
(*                                                                         *)
(* Distances are multiples of what the termination tolerates, and an angle *)
(* is as far as a wheel goes for it.  A constraint is "zero", the "dummy"  *)
(* of 1e-4, or "some".  Of the drivetrain's controller (frc971) there is   *)
(* where its profile is, which goes towards the last goal by at most Speed *)
(* or jumps there if a constraint is zero; that the wheels follow it and   *)
(* stop is an assumption.                                                  *)
(***************************************************************************)
EXTENDS Integers

CONSTANTS
  Drives,    \* what is driven: [forward, turn, absolute, through, closed, literal]
  Overshoot, \* the way that a drive through its goal has for slowing down
  Speed,     \* the most that the profile moves in a tick
  Field      \* how far out a drive is begun (a bound)

VARIABLES
  running,     \* a drive has been begun and not ended
  params,      \* current_params_, or that there is none
  goalOf,      \* goal_left_ and goal_right_
  constraints, \* max_forward_velocity_ and the other three
  complete,    \* left_complete_ and right_complete_
  last,        \* last_left_ and last_right_
  driveGoal,   \* the last goal of the drivetrain: [to, constraints]
  profiled,    \* status: where the profile is
  estimated,   \* status: where the wheels are
  still        \* status: the wheels stand

actionVars == <<running, params, goalOf, constraints, complete, last, driveGoal>>
wheelVars == <<profiled, estimated, still>>
driveActionVars == <<actionVars, wheelVars>>

Sides == {"left", "right"}
Each(x) == [s \in Sides |-> x]
Abs(x) == IF x < 0 THEN -x ELSE x
Signum(x) == IF x < 0 THEN -1 ELSE IF x > 0 THEN 1 ELSE 0
Ordered(a, b, c) == (a <= b /\ b <= c) \/ (c <= b /\ b <= a)

\* Not a number: no position is this far away, and nothing compares with it.
NaN == 1000

Unconstrained == [forwardVelocity |-> "some", forwardAcceleration |-> "some",
                  angularVelocity |-> "some", angularAcceleration |-> "some"]
NoDrive == [forward |-> 0, turn |-> 0, absolute |-> FALSE, through |-> FALSE,
            closed |-> TRUE, literal |-> FALSE]

ActionInit ==
  /\ running = FALSE /\ params = NoDrive /\ goalOf = Each(0)
  /\ constraints = Unconstrained
  /\ complete = Each(FALSE) /\ last = Each(0)
  /\ driveGoal = [to |-> Each(0), constraints |-> Unconstrained]
  /\ profiled = Each(0) /\ estimated = Each(0) /\ still = TRUE

-----------------------------------------------------------------------------
\* The smaller of the two distances gets its share of the other's constraints, which is
\* nothing for a straight drive or a point turn.  The dummies that replace nothing are
\* set for three of the four constraints: the velocity's is set twice, and a turn on the
\* spot is sent with no acceleration forwards.
Constrained(d) ==
  LET straight == ~d.literal /\ d.turn = 0 /\ d.forward # 0
      onTheSpot == ~d.literal /\ d.forward = 0 /\ d.turn # 0
  IN  [forwardVelocity     |-> IF onTheSpot THEN "dummy" ELSE "some",
       forwardAcceleration |-> IF onTheSpot THEN "zero" ELSE "some",
       angularVelocity     |-> IF straight THEN "dummy" ELSE "some",
       angularAcceleration |-> IF straight THEN "dummy" ELSE "some"]

Offset(d) == IF d.absolute THEN Each((estimated.left + estimated.right) \div 2) ELSE estimated

ExecuteDrive(d) ==
  /\ ~running /\ running' = TRUE
  /\ params' = d
  /\ goalOf' = [left |-> Offset(d).left + d.forward - d.turn,
                right |-> Offset(d).right + d.forward + d.turn]
  /\ constraints' = Constrained(d)
  /\ complete' = Each(FALSE) /\ last' = Offset(d)
  /\ UNCHANGED <<driveGoal, wheelVars>>

\* Mutant: a side is complete when its profile is near its goal.
NearGoal(s) == profiled[s] = goalOf[s]

\* The profile of a side has gone over its goal since the last update, or is near it.
AtGoal(s) ==
  /\ profiled[s] # NaN
  /\ profiled[s] = goalOf[s] \/ (last[s] # NaN /\ Ordered(last[s], goalOf[s], profiled[s]))

IsTerminated ==
  IF params.closed
  THEN /\ estimated = goalOf /\ still
       /\ UNCHANGED <<complete, last>>
  ELSE /\ complete' = [s \in Sides |-> complete[s] \/ AtGoal(s)]
       /\ last' = profiled
       /\ \A s \in Sides : complete'[s]

NotTerminated ==
  IF params.closed
  THEN /\ ~(estimated = goalOf /\ still)
       /\ UNCHANGED <<complete, last>>
  ELSE /\ complete' = [s \in Sides |-> complete[s] \/ AtGoal(s)]
       /\ last' = profiled
       /\ \E s \in Sides : ~complete'[s]

\* A drive that goes through its goal is sent to where it can stop: both sides on in the
\* direction that the robot goes in, whichever the side does.  Without an acceleration
\* that is 0 / 0 further.
SendMessage ==
  LET To(s) == IF ~params.through THEN goalOf[s]
               ELSE IF constraints.forwardAcceleration = "zero" THEN NaN
               ELSE goalOf[s] + Signum(params.forward) * Overshoot
  IN  driveGoal' = [to |-> [s \in Sides |-> To(s)], constraints |-> constraints]

\* Update: a drive that has ended sends nothing.
UpdateAction ==
  /\ running
  /\ \/ NotTerminated /\ SendMessage /\ UNCHANGED running
     \/ IsTerminated /\ running' = FALSE /\ UNCHANGED driveGoal
  /\ UNCHANGED <<params, goalOf, constraints, wheelVars>>

\* The controller's loop calls it as long as it runs; another drive begins at any time
\* after that.
BeginDrive ==
  /\ \A s \in Sides : Abs(estimated[s]) <= Field
  /\ \E d \in Drives : ExecuteDrive(d)

-----------------------------------------------------------------------------
(* The drivetrain.                                                          *)

Unprofiled == \E c \in DOMAIN driveGoal.constraints : driveGoal.constraints[c] = "zero"
Towards(x, to) == IF x < to THEN {x + n : n \in 1 .. Speed} \cap (x .. to)
                  ELSE IF x > to THEN {x - n : n \in 1 .. Speed} \cap (to .. x) ELSE {to}

Profile ==
  /\ IF Unprofiled THEN profiled' = driveGoal.to
     ELSE \E l \in Towards(profiled.left, driveGoal.to.left),
             r \in Towards(profiled.right, driveGoal.to.right) :
            profiled' = [left |-> l, right |-> r]
  /\ estimated' = profiled /\ still' = (estimated = profiled)
  /\ UNCHANGED actionVars

ActionNext == BeginDrive \/ UpdateAction \/ Profile

\* Both loops go on.
ActionSpec ==
  /\ ActionInit /\ [][ActionNext]_driveActionVars
  /\ WF_driveActionVars(UpdateAction) /\ WF_driveActionVars(Profile)

-----------------------------------------------------------------------------
(* Properties.                                                              *)

\* The drives that can end.  One through its goal by turning more than it goes forwards
\* sends a side on away from its goal, which that side's profile then never crosses; one
\* by a turn on the spot is sent nowhere; and the wheels of one that is to end by where
\* they are stop past its goal.
CanEnd(d) == d.through => ~d.closed /\ d.forward # 0 /\ Abs(d.turn) <= Abs(d.forward)

\* A drive that can end does, also one whose profile goes over its goal between two
\* updates, one side before the other, and one that goes on through it.
DriveEnds == running /\ CanEnd(params) ~> ~running
=============================================================================
