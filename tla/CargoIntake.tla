----------------------------- MODULE CargoIntake -----------------------------
(***************************************************************************)
(* The cargo rollers on the wrist.  Every goal names a state, so whatever  *)
(* Update decides holds only until the next tick's SetGoal.  PICKING_UP is *)
(* a state of the enumeration that no statement assigns.                   *)
(***************************************************************************)
EXTENDS Integers

CONSTANT OuttakeTicks  \* kOuttakeTicks

VARIABLES
  cargoState,      \* state_
  outtakeCounter,  \* outtake_counter_
  cargoRoller      \* output: roller voltage, positive pulls in

States == {"IDLE", "INTAKING", "PICKING_UP", "HOLDING", "OUTTAKING"}
Goals == {"NONE", "INTAKE", "STOP_INTAKE", "OUTTAKE"}

Init == cargoState = "IDLE" /\ outtakeCounter = 0 /\ cargoRoller = 0

\* SetGoal.
StateFor(goal) ==
  CASE goal \in {"NONE", "STOP_INTAKE"} -> "IDLE"
    [] goal = "INTAKE"  -> "INTAKING"
    [] goal = "OUTTAKE" -> "OUTTAKING"

CounterFor(goal) == IF goal = "OUTTAKE" THEN 0 ELSE outtakeCounter

Voltage(s) ==
  CASE s = "IDLE" -> 0
    [] s = "INTAKING" -> 12
    [] s \in {"PICKING_UP", "HOLDING"} -> 4
    [] s = "OUTTAKING" -> -12

\* Nothing but SetGoal happens while the robot is disabled.
Tick(goal, cargoProxy, enabled) ==
  LET s == StateFor(goal)
      n == CounterFor(goal)
      spitting == enabled /\ s = "OUTTAKING"
      spat == spitting /\ n + 1 > OuttakeTicks
  IN /\ cargoState' = IF enabled /\ s = "INTAKING" /\ cargoProxy THEN "HOLDING"
                      ELSE IF spat THEN "IDLE" ELSE s
     /\ outtakeCounter' = IF ~spitting THEN n ELSE IF spat THEN 0 ELSE n + 1
     /\ cargoRoller' = IF enabled THEN Voltage(s) ELSE 0

TypeOK ==
  /\ cargoState \in States
  /\ outtakeCounter \in 0 .. OuttakeTicks
  /\ cargoRoller \in {-12, 0, 4, 12}
=============================================================================
