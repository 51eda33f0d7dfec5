-------------------------- MODULE GroundHatchIntake --------------------------
(***************************************************************************)
(* The intake that picks hatch panels off the floor.  A stalled roller     *)
(* (current above the threshold) means that it has got one.                *)
(***************************************************************************)
EXTENDS Integers

CONSTANTS PickupTicks,  \* kPickupTicks: how long to pull after the stall
          EjectTicks    \* kOuttakeTicks

VARIABLES
  groundState,    \* current_state_
  pickupCounter,  \* pickup_counter_
  ejectCounter,   \* outtake_counter_
  groundRoller,   \* output: roller voltage, positive pulls in
  snapDown        \* output: the intake is lowered

States == {"IDLE", "INTAKING", "PICKING_UP", "CARRYING", "OUTTAKING"}
Goals == {"NONE", "REQUEST_HATCH", "EJECT", "RISE"}

Init ==
  /\ groundState = "IDLE" /\ pickupCounter = 0 /\ ejectCounter = 0
  /\ groundRoller = 0 /\ snapDown = FALSE

\* SetGoal.
StateFor(goal) ==
  CASE goal = "NONE"          -> groundState
    [] goal = "REQUEST_HATCH" -> "INTAKING"
    [] goal = "EJECT"         -> "OUTTAKING"
    [] goal = "RISE"          -> "IDLE"

CounterFor(goal) == IF goal = "EJECT" THEN 0 ELSE ejectCounter

HasHatch == groundState = "CARRYING"

Tick(goal, stalled, enabled) ==
  LET s == StateFor(goal)
      n == CounterFor(goal)
      In(t) == enabled /\ s = t
      pickedUp == In("PICKING_UP") /\ pickupCounter + 1 > PickupTicks
      ejected == In("OUTTAKING") /\ n + 1 > EjectTicks
      gripped == In("INTAKING") /\ stalled
  IN /\ groundState' = IF gripped THEN "PICKING_UP"
                       ELSE IF pickedUp THEN "CARRYING"
                       ELSE IF ejected THEN "IDLE" ELSE s
     /\ pickupCounter' = IF gripped \/ pickedUp THEN 0
                         ELSE IF In("PICKING_UP") THEN pickupCounter + 1 ELSE pickupCounter
     /\ ejectCounter' = IF ejected THEN 0 ELSE IF In("OUTTAKING") THEN n + 1 ELSE n
     /\ groundRoller' = IF In("INTAKING") \/ In("PICKING_UP") THEN 12
                        ELSE IF In("OUTTAKING") THEN -12 ELSE 0
     /\ snapDown' = (In("INTAKING") \/ In("PICKING_UP"))

TypeOK ==
  /\ groundState \in States
  /\ pickupCounter \in 0 .. PickupTicks
  /\ ejectCounter \in 0 .. EjectTicks
  /\ groundRoller \in {-12, 0, 12}
  /\ snapDown \in BOOLEAN
=============================================================================
