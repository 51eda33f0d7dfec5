------------------------- MODULE SuperstructurePlant -------------------------
(***************************************************************************)
(* The superstructure in a loop with the arm it moves: what the sensors    *)
(* report next depends on where the mechanisms were and on what the last   *)
(* tick told the motors.  The plant is an assumption about the robot:      *)
(*                                                                         *)
(*  - a powered mechanism stands still or moves towards its setpoint,      *)
(*    never past it, by at most its travel per tick; the wrist does not    *)
(*    reverse from one tick to the next without stopping;                  *)
(*  - without power the elevator stands still or sinks, and the wrist      *)
(*    stays on its side of the pass-through arc (it droops outwards);      *)
(*  - the robot is calibrated by hand, disabled, with the elevator down    *)
(*    while the wrist is in the arc (as superstructure_test.cpp does), and *)
(*    is enabled only then: teleop sends a goal before it reports the      *)
(*    enabled driver station, so the state machine has left CALIBRATING;   *)
(*  - no reading is exactly one of the two safe angles.                    *)
(***************************************************************************)
EXTENDS Superstructure

CONSTANTS ElevatorTravel,  \* the most the elevator moves in a tick
          WristTravel      \* the most the wrist moves in a tick

ASSUME TravelAssumption ==
  /\ ElevatorTravel \in Nat
  /\ WristTravel \in 0 .. kWristSafeBackwardsAngle - kWristSafeForwardsAngle

VARIABLE swing  \* the way the wrist moved in the last tick: -1, 0 or 1

plantVars == <<vars, swing>>

InArc(a) == kWristSafeForwardsAngle < a /\ a < kWristSafeBackwardsAngle
OnThreshold(a) == a \in {kWristSafeForwardsAngle, kWristSafeBackwardsAngle}

\* From p towards goal, by at most travel.
Towards(p, q, goal, travel) ==
  \/ p <= q /\ q <= p + travel /\ (q <= goal \/ q = p)
  \/ q <= p /\ p <= q + travel /\ (goal <= q \/ q = p)

ElevatorFollows(h) ==
  IF elevatorOn THEN Towards(height, h, elevatorSetpoint, ElevatorTravel)
  ELSE IF disk = "LOCKED" THEN h = height
  ELSE Towards(height, h, Elevator!kMinHeight, ElevatorTravel)

WristFollows(a) ==
  IF wristOn THEN Towards(angle, a, wristSetpoint, WristTravel)
  ELSE IF angle < kWristSafeForwardsAngle THEN Towards(angle, a, Wrist!kMinAngle, WristTravel)
  ELSE IF angle > kWristSafeBackwardsAngle THEN Towards(angle, a, Wrist!kMaxAngle, WristTravel)
  ELSE a = angle

\* By hand, before the robot is enabled.
Placed(r) == ~r.enabled /\ (InArc(r.angle) => r.height <= kElevatorPassThroughHeight)

Follows(r) ==
  /\ Latched(r)
  /\ ~OnThreshold(r.angle)
  /\ IF state = "CALIBRATING" THEN Placed(r)
     ELSE ElevatorFollows(r.height) /\ WristFollows(r.angle)

Direction(from, to) == IF to > from THEN 1 ELSE IF to < from THEN -1 ELSE 0

Tick(r) ==
  /\ Follows(r)
  /\ Control(r)
  /\ swing' = IF state = "CALIBRATING" THEN 0 ELSE Direction(angle, r.angle)
  /\ ~(swing # 0 /\ swing' = -swing)

PlantInit == Init /\ swing = 0

PlantNext == \/ \E c \in Commands : HandleGoal(c) /\ UNCHANGED swing
             \/ \E r \in Readings : Tick(r)

\* A motor that is not where it was sent gets somewhere.
ElevatorMoves == elevatorOn /\ \E r \in Readings : r.height # height /\ Tick(r)
WristMoves == wristOn /\ \E r \in Readings : r.angle # angle /\ Tick(r)

PlantFairness ==
  /\ WF_plantVars(\E r \in Readings : Tick(r))
  /\ WF_plantVars(ElevatorMoves)
  /\ WF_plantVars(WristMoves)

PlantSpec == PlantInit /\ [][PlantNext]_plantVars /\ PlantFairness
-----------------------------------------------------------------------------
(* Properties.                                                              *)

\* The wrist is in the arc only while the elevator is down, give or take what
\* it can climb in the ticks before a reading has its effect.
ArcOnlyWhenLow == InArc(angle) => height <= kElevatorPassThroughHeight + 2 * ElevatorTravel

\* Refinement: the arm keeps the promise of Passage.
Side(a) == IF InArc(a) THEN "ARC" ELSE IF a < kWristSafeForwardsAngle THEN "FRONT" ELSE "BACK"
Arm == INSTANCE Passage WITH
  side <- IF state = "CALIBRATING" THEN "BY_HAND" ELSE Side(angle),
  low <- height <= kElevatorPassThroughHeight + 2 * ElevatorTravel
KeepsPassage == Arm!Spec

\* What the arm was told to do, on an enabled robot that does not brake.
Wants(score) ==
  /\ enabled /\ ~brake
  /\ elevatorHeight = Position[score][1] /\ wristAngle = Position[score][2]
Reached(score) == height = Position[score][1] /\ angle = Position[score][2]
==============================================================================
