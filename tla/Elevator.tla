------------------------------ MODULE Elevator ------------------------------
(***************************************************************************)
(* The elevator, its disk brake, its gearbox and the crawlers that share   *)
(* its goal.  Heights are in millimetres, so "enc < 1e-3" is "enc < 1".    *)
(*                                                                         *)
(* The disk brake integrates the time since its last update; how many      *)
(* ticks it needs to change is left open.  The encoder fault counter is    *)
(* left out: nothing reads it and the status always reports no fault.      *)
(***************************************************************************)
EXTENDS Integers

CONSTANT CrawlerTicks  \* ticks between the first and the second crawler piston (100)

VARIABLES
  height,           \* status: elevator_height, the last encoder reading
  zeroed,           \* status: is_calibrated
  disk,             \* disk_brake_: what its last Update returned
  elevatorOn,       \* output type POSITION (else OPEN_LOOP with 0 V)
  elevatorSetpoint, \* output
  braking,          \* output: brake
  lowGear,          \* output: not high_gear
  crawlerOne,       \* output: first crawler piston
  crawlerTwo,       \* output: second crawler piston
  crawlerDriven,    \* output: 12 V on the crawler
  crawlerCounter    \* counter_, counted no further than it is compared

kMinHeight == 0
kMaxHeight == 1793

\* muan::utils::Cap
Cap(x, low, high) == IF x < low THEN low ELSE IF x > high THEN high ELSE x

Init ==
  /\ height = 0 /\ zeroed = FALSE /\ disk = "UNLOCKED"
  /\ elevatorOn = FALSE /\ elevatorSetpoint = 0
  /\ braking = FALSE /\ lowGear = TRUE
  /\ crawlerOne = FALSE /\ crawlerTwo = FALSE
  /\ crawlerDriven = FALSE /\ crawlerCounter = 0

\* DiskBrake::Update: it moves to the requested end, and gets there or is
\* found on the way.
DiskBrake(locking) ==
  LET end == IF locking THEN "LOCKED" ELSE "UNLOCKED"
  IN  IF disk = end THEN {end} ELSE {"CHANGING", end}

\* At the bottom and wanted there: the motor rests.
Resting(goalHeight, encoder) == goalHeight < 1 /\ encoder < 1

\* Mutant: the motor does not wait for the brake.
DrivesAgainstBrake(active, braked, goalHeight, encoder) ==
  active /\ ~Resting(goalHeight, encoder)

\* The output is a position: the motor is powered.
Drives(active, braked, goalHeight, encoder) ==
  active /\ ~braked /\ ~Resting(goalHeight, encoder)

\* goal: [height, crawling, highGear, crawlerDown, brake]
Tick(goal, encoder, isZeroed, enabled) ==
  LET active == isZeroed /\ enabled
      goalHeight == Cap(goal.height, kMinHeight, kMaxHeight)
      count == IF crawlerCounter > CrawlerTicks THEN crawlerCounter ELSE crawlerCounter + 1
  IN /\ disk' \in DiskBrake(goal.brake /\ enabled)
     /\ elevatorOn' = Drives(active, disk' = "LOCKED", goalHeight, encoder)
     /\ elevatorSetpoint' = IF elevatorOn' THEN goalHeight ELSE 0
     /\ braking' = (active /\ goal.brake)
     /\ lowGear' = ~(active /\ goal.highGear)
     /\ crawlerOne' = (active /\ goal.crawlerDown)
     /\ crawlerCounter' = IF crawlerOne' THEN count ELSE crawlerCounter
     /\ crawlerTwo' = (crawlerOne' /\ count > CrawlerTicks)
     /\ crawlerDriven' = (active /\ goal.crawling)
     /\ height' = encoder
     /\ zeroed' = isZeroed

TypeOK ==
  /\ height \in Int /\ zeroed \in BOOLEAN
  /\ disk \in {"UNLOCKED", "CHANGING", "LOCKED"}
  /\ elevatorOn \in BOOLEAN
  /\ elevatorSetpoint \in kMinHeight .. kMaxHeight
  /\ braking \in BOOLEAN /\ lowGear \in BOOLEAN
  /\ crawlerOne \in BOOLEAN /\ crawlerTwo \in BOOLEAN /\ crawlerDriven \in BOOLEAN
  /\ crawlerCounter \in 0 .. CrawlerTicks + 1
=============================================================================
