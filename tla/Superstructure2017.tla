-------------------------- MODULE Superstructure2017 --------------------------
(***************************************************************************)
(* The superstructure of the 2017 robot: a shooter with its conveyors,     *)
(* intakes for balls and for gears that must not leave the robot's box     *)
(* together, and a climber that shares a motor with the shooter            *)
(* (c2017/subsystems/superstructure).                                      *)
(*                                                                         *)
(* The goals are messages that every tick reads again until the next ones  *)
(* come; Init is the robot after its first tick, when every mechanism has  *)
(* published a status.  Voltages, profiles, observers and the rollers of   *)
(* the ball intake are left out.                                           *)
(***************************************************************************)
EXTENDS Integers

CONSTANTS
  Readings,      \* what the sensors can show a tick, see Sensed
  PickupTicks,   \* kPickupTicks, 300
  FaultTicks     \* kEncoderFaultTicksAllowed

VARIABLES
  goal,          \* the last intake and shooter group goals
  shooter,       \* the shooter's state_
  frozenTicks,   \* its num_encoder_fault_ticks_, never reset
  gear, pickup,  \* current_state_ and pickup_timer_ of the ground gear intake
  ballIntakeUp,  \* intake_up_ of the ground ball intake
  climber        \* current_state_ of the climber

shooterVars == <<shooter, frozenTicks>>
gearVars == <<gear, pickup>>
mechanismVars == <<shooterVars, gearVars, ballIntakeUp, climber>>

Wheels == {"IDLE", "SPINUP", "BOTH"}
GearGoals == {"NONE", "DROP", "RISE", "SCORE", "START_DROPPING_BALLS", "STOP_DROPPING_BALLS"}
GearStates == {"IDLE", "INTAKING", "PICKING_UP", "CARRYING", "SCORING", "OUTTAKING",
               "DROP_BALL_WITH_GEAR", "DROP_BALL_WITHOUT_GEAR"}
ClimberStates == {"NOTHING", "SPIN_UP", "APPROACHING", "CLIMBING", "AT_TOP"}
Goals == [wheel : Wheels, climb : BOOLEAN, gear : GearGoals, ballsUp : BOOLEAN]

\* The shooter's wheel is within kSpinupVelocityTolerance of its goal, within
\* kSteadyStateVelocityTolerance, or off; its encoder stands still while it should turn;
\* the gear intake draws current; the climber's rope runs, is taut, or has stopped.
Sensed == [enabled : BOOLEAN, wheel : {"near", "steady", "off"}, frozen : BOOLEAN,
           spike : BOOLEAN, rope : {"fast", "slow", "stopped"}]
ASSUME TicksAssumption == {PickupTicks, FaultTicks} \subseteq Nat /\ Readings \subseteq Sensed

\* Without messages a field has its default: the ball intake is not up.
NoGoal == [wheel |-> "IDLE", climb |-> FALSE, gear |-> "NONE", ballsUp |-> FALSE]

MechanismInit ==
  /\ goal = NoGoal
  /\ shooter = "IDLE" /\ frozenTicks = 0
  /\ gear = "IDLE" /\ pickup = 0
  /\ ballIntakeUp = TRUE /\ climber = "NOTHING"

-----------------------------------------------------------------------------
(* The superstructure's goals for its mechanisms.                           *)

\* shooter_state_.  Climbing sets it to idle first, and the wheel's goal sets it again.
ShooterState ==
  CASE goal.wheel = "IDLE" -> "Idle"
    [] goal.wheel = "BOTH" /\ shooter = "AT_GOAL" -> "Shooting"
    [] OTHER -> "Spinup"

\* Mutant: a climb leaves the gear intake alone.
GearGoalInClimb == goal.gear

GearGoal == IF goal.climb THEN "OUTTAKE" ELSE goal.gear

\* Mutant: only the goal raises the ball intake, not a gear intake that is at work.
BallIntakeGoalOnly ==
  \/ GearGoal \in {"DROP", "SCORE"}
  \/ ShooterState # "Shooting" /\ goal.ballsUp

BallIntakeGoal ==
  \/ GearGoal \in {"DROP", "SCORE"}
  \/ gear \in {"INTAKING", "PICKING_UP", "SCORING"}
  \/ ShooterState # "Shooting" /\ goal.ballsUp

\* The magazine's conveyors carry balls up to the shooter.
Feeding(enabled) == enabled /\ ShooterState = "Shooting"

-----------------------------------------------------------------------------
(* The mechanisms.                                                          *)

\* Mutant: a dead encoder keeps the wheel from its goal.
AtGoalSeen(r) == r.wheel = "near"

\* The wheel is at its goal, or counts as such because the encoder is dead.
AtGoal(r) == r.wheel = "near" \/ frozenTicks' > FaultTicks
OffGoal(r) == r.wheel = "off" /\ frozenTicks' <= FaultTicks

UpdateShooter(r) ==
  LET running == r.enabled /\ ShooterState # "Idle" IN
  /\ frozenTicks' = IF running /\ r.frozen /\ frozenTicks <= FaultTicks
                    THEN frozenTicks + 1 ELSE frozenTicks
  /\ shooter' = CASE ~running -> "IDLE"
                  [] running /\ shooter = "IDLE" -> "SPINUP"
                  [] running /\ shooter = "SPINUP" /\ AtGoal(r) -> "AT_GOAL"
                  [] running /\ shooter = "AT_GOAL" /\ OffGoal(r) -> "SPINUP"
                  [] OTHER -> shooter

\* Mutant: RISE leaves an intake that has not got a gear where it is.
RiseIgnored(s) ==
  CASE GearGoal = "DROP" -> "INTAKING"
    [] GearGoal = "OUTTAKE" -> "OUTTAKING"
    [] GearGoal = "SCORE" /\ s \in {"CARRYING", "IDLE"} -> "SCORING"
    [] GearGoal = "NONE" /\ s = "SCORING" -> "IDLE"
    [] OTHER -> s

SetGear(s) ==
  CASE GearGoal = "DROP" -> "INTAKING"
    [] GearGoal = "OUTTAKE" -> "OUTTAKING"
    [] GearGoal = "RISE" /\ s = "INTAKING" -> "IDLE"
    [] GearGoal = "SCORE" /\ s \in {"CARRYING", "IDLE"} -> "SCORING"
    [] GearGoal = "NONE" /\ s = "SCORING" -> "IDLE"
    [] GearGoal = "START_DROPPING_BALLS" /\ s \in {"PICKING_UP", "CARRYING"} -> "DROP_BALL_WITH_GEAR"
    [] GearGoal = "START_DROPPING_BALLS" /\ s \in {"INTAKING", "IDLE"} -> "DROP_BALL_WITHOUT_GEAR"
    [] GearGoal = "STOP_DROPPING_BALLS" /\ s = "DROP_BALL_WITHOUT_GEAR" -> "IDLE"
    [] GearGoal = "STOP_DROPPING_BALLS" /\ s = "DROP_BALL_WITH_GEAR" -> "CARRYING"
    [] OTHER -> s

UpdateGear(r) ==
  LET s == SetGear(gear)
      spiked == r.enabled /\ s = "INTAKING" /\ r.spike
      lifting == r.enabled /\ s = "PICKING_UP"
  IN  /\ pickup' = IF spiked THEN PickupTicks ELSE IF lifting THEN pickup - 1 ELSE pickup
      /\ gear' = IF spiked THEN "PICKING_UP"
                 ELSE IF lifting /\ pickup' < 0 THEN "CARRYING" ELSE s

\* The solenoids of the two intakes.
GearIntakeDown(r) ==
  r.enabled /\ gear' \in {"INTAKING", "DROP_BALL_WITH_GEAR", "DROP_BALL_WITHOUT_GEAR", "OUTTAKING"}

UpdateClimber(r) ==
  LET s == IF ~goal.climb THEN "NOTHING"
           ELSE IF climber = "NOTHING" THEN "SPIN_UP" ELSE climber
  IN  climber' = CASE r.enabled /\ s = "SPIN_UP" /\ r.rope = "fast" -> "APPROACHING"
                   [] r.enabled /\ s = "APPROACHING" /\ r.rope # "fast" -> "CLIMBING"
                   [] r.enabled /\ s = "CLIMBING" /\ r.rope = "stopped" -> "AT_TOP"
                   [] OTHER -> s

UpdateSuperstructure(r) ==
  /\ UpdateShooter(r) /\ UpdateGear(r) /\ UpdateClimber(r)
  /\ ballIntakeUp' = (BallIntakeGoal \/ ~r.enabled)
=============================================================================
