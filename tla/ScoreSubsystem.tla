---------------------------- MODULE ScoreSubsystem ----------------------------
(***************************************************************************)
(* The score subsystem of the 2018 robot: an elevator, a wrist that may    *)
(* only be turned back over the elevator when that is high enough, and an  *)
(* intake that opens, closes and runs its rollers for a power cube         *)
(* (c2018/subsystems/score_subsystem).                                     *)
(*                                                                         *)
(* Heights are centimetres, angles degrees.  Both mechanisms follow their  *)
(* trapezoidal profiles, which keep their speed when the goal changes and  *)
(* run past it where they cannot stop in time.  Gains, observers and the   *)
(* whisker, an output that nothing depends on, are left out.               *)
(***************************************************************************)
EXTENDS Integers

CONSTANTS
  Readings,    \* [enabled, hall, frozen, push]: what a tick can find, see Tick
  Offset,      \* <<height, angle>> that calibration adds to what was read before
  LiftConstraints,   \* [acceleration, velocity] of the elevator's profile,
  WristConstraints,  \* and of the wrist's, for the length of a tick
  MaxSwerves,  \* bound: how often goals change before the arm stands still
  PinchTicks,  \* kNumHasCubeTicks, 150
  FaultTicks   \* kEncoderFaultTicksAllowed, 100

VARIABLES
  goal,                \* state_, intake_bounded, elevator_height_ and wrist_angle_
  calibrated,          \* the mechanisms that have found their hall sensors
  lift, liftSpeed,     \* profiled_bounded of the elevator, and where it is
  wrist, wristSpeed,   \* profiled_bounded of the wrist, and where it is
  swerves,             \* history: the times that a new goal, or a cut of the power, has
                       \* met the arm moving since it last stood still
  stuck, fault,        \* num_encoder_fault_ticks_, encoder_fault_detected_
  cube,                \* a cube is in the intake, for the proximity sensor to see
  pinch, pinchTicks,   \* pinch_state_, has_cube_for_ticks_
  hasCube              \* has_cube of the last status

state == goal.state
intakeGoal == goal.intake
height == goal.height
angle == goal.angle

elevatorVars == <<lift, liftSpeed, stuck, fault>>
armVars == <<calibrated, elevatorVars, wrist, wristSpeed>>
intakeVars == <<pinch, pinchTicks, hasCube>>
scoreVars == <<goal, armVars, intakeVars, cube, swerves>>

Mechanisms == {"elevator", "wrist"}
IntakingStates == {"INTAKING_TO_STOW", "INTAKING_ONLY"}
States == {"CALIBRATING", "HOLDING"} \cup IntakingStates
Intakes == {"INTAKE", "INTAKE_OPEN", "INTAKE_CLOSE"}
Outtakes == {"OUTTAKE_SLOW", "OUTTAKE_FAST", "DROP"}
IntakeGoals == Intakes \cup Outtakes \cup {"INTAKE_NONE", "SETTLE"}

MaxHeight == 192
MaxAngle == 160
SafeHeight == 93
SafeAngle == 90

\* A counter that only has to be over or below its limit stays within one or two of it.
ASSUME ScoreAssumption ==
  /\ Offset \in (0..MaxHeight) \X (0..SafeAngle)
  /\ {LiftConstraints, WristConstraints}
       \subseteq [acceleration : Nat \ {0}, velocity : Nat \ {0}]
  /\ {PinchTicks, FaultTicks} \subseteq Nat \ {0} /\ MaxSwerves \in Nat
  /\ Readings \subseteq [enabled : BOOLEAN, hall : SUBSET Mechanisms,
                         frozen : BOOLEAN, push : BOOLEAN]
  /\ \A r \in Readings : r.frozen => "elevator" \notin r.hall

\* Where each score goal puts the elevator and the wrist.
Posture == [
  INTAKE_0           |-> <<0, 0>>,
  INTAKE_1           |-> <<30, 0>>,
  INTAKE_2           |-> <<60, 0>>,
  STOW               |-> <<0, 80>>,
  SWITCH             |-> <<70, 0>>,
  SCALE_LOW_FORWARD  |-> <<147, 0>>,
  SCALE_LOW_REVERSE  |-> <<97, 160>>,
  SCALE_MID_FORWARD  |-> <<174, 0>>,
  SCALE_MID_REVERSE  |-> <<124, 160>>,
  SCALE_HIGH_FORWARD |-> <<201, 0>>,
  SCALE_HIGH_REVERSE |-> <<151, 160>>,
  SCALE_SUPER_HIGH_FORWARD |-> <<190, 30>>,
  SCALE_SUPER_HIGH_REVERSE |-> <<178, 160>>,
  SCALE_SHOOT        |-> <<124, 140>>,
  EXCHANGE           |-> <<7, 0>>,
  PORTAL             |-> <<37, 20>>]
ScoreGoals == DOMAIN Posture \cup {"SCORE_NONE"}

Cap(x, low, high) == IF x < low THEN low ELSE IF x > high THEN high ELSE x

\* A goal message; lift and tilt are the god mode joystick.
Goal(score, intake) == [score |-> score, intake |-> intake, lift |-> 0, tilt |-> 0]

ScoreInit ==
  /\ goal = [state |-> "CALIBRATING", intake |-> "INTAKE_NONE", height |-> 0, angle |-> 0]
  /\ calibrated = {} /\ lift = 0 /\ wrist = 0
  /\ liftSpeed = 0 /\ wristSpeed = 0 /\ swerves = 0
  /\ stuck = 0 /\ fault = FALSE
  /\ cube \in BOOLEAN
  /\ pinch = "IDLE_WITH_CUBE" /\ pinchTicks = 0 /\ hasCube = FALSE

-----------------------------------------------------------------------------
(* The state machine.                                                       *)

Calibrated == calibrated = Mechanisms
Moving == liftSpeed # 0 \/ wristSpeed # 0

\* Only a transition between states looks at whether the intake goal belongs to
\* the state; the one that leaves CALIBRATING keeps the old intake goal.
GoToState(s, to, intake) ==
  IF s.state = "CALIBRATING"
  THEN IF Calibrated THEN [s EXCEPT !.state = to] ELSE s
  ELSE [s EXCEPT !.state = to,
                 !.intake = IF (to \in IntakingStates) <=> (intake \in Intakes)
                            THEN intake ELSE @]

SetPosture(s, g) ==
  LET to == IF g.score = "SCORE_NONE" THEN <<s.height, s.angle>> ELSE Posture[g.score]
  IN  [s EXCEPT !.height = Cap(to[1] + g.lift, 0, MaxHeight),
                !.angle = Cap(to[2] + g.tilt, 0, MaxAngle)]

SetIntake(s, intake) ==
  IF intake \notin Intakes THEN GoToState(s, "HOLDING", intake)
  ELSE IF hasCube THEN s
  ELSE GoToState(s, IF s.height = 0 /\ s.angle = 0 THEN "INTAKING_TO_STOW"
                                                   ELSE "INTAKING_ONLY", intake)

SetGoal(s, g) == SetIntake(SetPosture(s, g), g.intake)

Stowed(s) == [s EXCEPT !.height = Posture.STOW[1], !.angle = Posture.STOW[2]]

RunStateMachine(s) ==
  CASE s.state = "CALIBRATING" /\ Calibrated ->
         GoToState(Stowed(s), "HOLDING", "INTAKE_NONE")
    [] s.state = "CALIBRATING" /\ ~Calibrated ->
         [s EXCEPT !.height = lift, !.angle = wrist]
    [] s.state = "INTAKING_TO_STOW" /\ hasCube ->
         GoToState(Stowed(s), "HOLDING", "INTAKE_NONE")
    [] s.state = "INTAKING_ONLY" /\ hasCube ->
         GoToState(s, "HOLDING", "INTAKE_NONE")
    [] OTHER -> s

\* A goal message is drained: it sets the goals and runs the state machine once.
\* Nothing it reads changes between the write and the drain.
HandleGoal(g) ==
  /\ goal' = RunStateMachine(SetGoal(goal, g))
  /\ IF Moving /\ <<height', angle'>> # <<height, angle>>
     THEN swerves < MaxSwerves /\ swerves' = swerves + 1
     ELSE swerves' = swerves
  /\ UNCHANGED <<armVars, intakeVars, cube>>

-----------------------------------------------------------------------------
\* "Wrist doesn't try to go too far if the elevator can't handle it": the wrist is back
\* over the elevator only while the elevator is high.
WristClearsElevator == wrist > SafeAngle => lift >= SafeHeight

\* The same with a margin, which the rounding of the profiles to ticks does not use up.
WristNearlyClears ==
  wrist > SafeAngle => lift >= SafeHeight - 3 * LiftConstraints.acceleration

-----------------------------------------------------------------------------
(* The profile of a motion: [position, speed], with unit steps of the tick. *)

\* How far a profile still goes after a tick at some speed, and where it then halts.
Brake(speed, a) == LET n == speed \div a IN n * speed - (a * n * (n + 1)) \div 2
Halt(at, a) == IF at[2] >= 0 THEN at[1] + Brake(at[2], a) ELSE at[1] - Brake(-at[2], a)

\* The greatest speed that a profile can go at and halt a distance ahead, in n ticks more.
TopSpeed(distance, a) ==
  LET n == CHOOSE n \in 0 .. distance :
             a * n * (n + 1) <= 2 * distance /\ 2 * distance < a * (n + 1) * (n + 2)
  IN  (distance + (a * n * (n + 1)) \div 2) \div (n + 1)

\* The speed that a profile goes towards its goal at, from the speed that it has: as fast
\* as it can without running past it.
Faster(v, distance, c) ==
  LET fastest == Cap(v + c.acceleration, -c.velocity, c.velocity)
  IN  IF distance < 0 THEN fastest
      ELSE Cap(fastest, -c.velocity, TopSpeed(distance, c.acceleration))

\* The next tick.  A profile that has to run past its goal is flipped: it brakes, and
\* comes back.
Calculate(at, to, c) ==
  LET w == IF Halt(at, c.acceleration) <= to THEN Faster(at[2], to - at[1], c)
                                             ELSE -Faster(-at[2], at[1] - to, c)
  IN  <<at[1] + w, w>>

\* The ticks that a profile takes to be up at a position on its way to a goal above it.
TimeLeftUntil(position, at, to, c) ==
  LET left[p \in Int \X Int] ==
        IF p[1] >= position THEN 0 ELSE 1 + left[Calculate(p, to, c)]
  IN  left[at]

-----------------------------------------------------------------------------
(* The control tick.                                                        *)

\* Mutant: the elevator does not wait for the wrist.
BoundHeightFree == height

\* The elevator waits for a wrist that is back over it.
BoundHeight == IF wrist > SafeAngle THEN Cap(height, SafeHeight, MaxHeight) ELSE height

\* Mutant: the wrist sets off with the elevator.
NeverLate == {FALSE}

\* Whether the elevator may be found to be safe later than the wrist needs it to be.
\* Nothing is left of the time to a height that is reached, even by an elevator that
\* falls through it.  A profile at rest below the height gives a negative time, and one
\* that moves to a goal below it what its formulas make of that.  Equal numbers of ticks
\* may hide a difference.
ElevatorLate ==
  LET e == TimeLeftUntil(SafeHeight, <<lift, liftSpeed>>, BoundHeight, LiftConstraints)
      w == TimeLeftUntil(SafeAngle, <<wrist, wristSpeed>>, MaxAngle, WristConstraints)
  IN  IF lift >= SafeHeight \/ (lift = BoundHeight /\ liftSpeed = 0) THEN {FALSE}
      ELSE IF BoundHeight < SafeHeight \/ e = w THEN BOOLEAN
      ELSE {e > w}

BoundAngle(late) == IF angle > SafeAngle /\ late THEN 0 ELSE angle

\* Where a mechanism is after a tick, and how fast: one value, in a set so that TLC
\* computes it once.  Calibration shifts its position and the profile starts again
\* there; uncalibrated, its goal is where it is.  Without power the profile is kept at
\* the mechanism, which rolls out.
Move(m, at, to, c, offset, r) ==
  LET From == {IF m \in r.hall \ calibrated THEN <<at[1] + offset, 0>> ELSE at}
  IN  IF m \notin calibrated \cup r.hall THEN {at}
      ELSE IF r.enabled THEN {Calculate(from, to, c) : from \in From}
      ELSE {<<Halt(from, c.acceleration), 0>> : from \in From}

MoveArm(r) ==
  /\ calibrated' = calibrated \cup r.hall
  /\ \E l \in Move("elevator", <<lift, liftSpeed>>, BoundHeight, LiftConstraints, Offset[1], r) :
       lift' = l[1] /\ liftSpeed' = l[2]
  /\ \E late \in IF angle > SafeAngle THEN ElevatorLate ELSE {FALSE} :
     \E w \in Move("wrist", <<wrist, wristSpeed>>, BoundAngle(late), WristConstraints, Offset[2], r) :
       wrist' = w[1] /\ wristSpeed' = w[2]
  /\ swerves' = IF ~Moving' /\ WristClearsElevator' THEN 0
                ELSE IF Moving /\ ~r.enabled THEN Cap(swerves + 1, 0, MaxSwerves + 1)
                ELSE swerves

\* Mutant: a fault does not end the pushing.
HighVoltageInFault(r) ==
  /\ r.enabled
  /\ \/ "elevator" \notin calibrated'
     \/ lift' > 0 /\ r.push

\* At least kEncoderFaultMinVoltage: always while the elevator calibrates, never in
\* a fault or at the bottom, and else when the controller pushes.
HighVoltage(r) ==
  /\ r.enabled
  /\ \/ "elevator" \notin calibrated'
     \/ ~fault /\ lift' > 0 /\ r.push

CheckEncoder(r) ==
  IF ~r.frozen THEN stuck' = 0 /\ fault' = FALSE
  ELSE IF ~HighVoltage(r) THEN UNCHANGED <<stuck, fault>>
  ELSE /\ stuck' = Cap(stuck + 1, 0, FaultTicks + 2)
       /\ fault' = (fault \/ stuck' > FaultTicks)

\* Mutant: INTAKE_CLOSE only runs the rollers.
ClosesToHold(r) == r.enabled /\ intakeGoal \in {"INTAKE_NONE", "SETTLE",
                                                "OUTTAKE_SLOW", "OUTTAKE_FAST"}

\* The pistons of the intake for each intake goal.
Closes(r) == r.enabled /\ intakeGoal \in {"INTAKE_NONE", "INTAKE_CLOSE", "SETTLE",
                                          "OUTTAKE_SLOW", "OUTTAKE_FAST"}
Opens(r) == r.enabled /\ intakeGoal \in {"INTAKE_OPEN", "DROP"}

Pinch(r) ==
  /\ hasCube' = (pinch = "IDLE_WITH_CUBE" /\ cube)
  /\ pinchTicks' = CASE pinch # "MOVING" -> pinchTicks
                     [] pinch = "MOVING" /\ Closes(r) -> Cap(pinchTicks - 1, -1, PinchTicks)
                     [] pinch = "MOVING" /\ ~Closes(r) -> PinchTicks
  /\ pinch' = CASE pinch = "MOVING" /\ pinchTicks' < 0 -> "IDLE_WITH_CUBE"
                [] pinch = "IDLE_WITH_CUBE" /\ Opens(r) -> "IDLE_NO_CUBE"
                [] pinch = "IDLE_NO_CUBE" /\ Closes(r) -> "MOVING"
                [] OTHER -> pinch

Tick(r) ==
  /\ MoveArm(r) /\ CheckEncoder(r) /\ Pinch(r)
  /\ UNCHANGED <<goal, cube>>

\* The rollers, or an open intake, take a cube in or let it go.
CubeEnters == ~cube /\ intakeGoal \in Intakes \cup {"SETTLE"} /\ cube' = TRUE
CubeLeaves == cube /\ intakeGoal \in Outtakes \cup {"INTAKE_OPEN"} /\ cube' = FALSE
MoveCube == (CubeEnters \/ CubeLeaves) /\ UNCHANGED <<goal, armVars, intakeVars, swerves>>

-----------------------------------------------------------------------------
(* Properties.                                                              *)

\* The elevator is high, and halts high if it has to.
High == lift >= SafeHeight /\ Halt(<<lift, liftSpeed>>, LiftConstraints.acceleration) >= SafeHeight

\* As long as goals change, and the power is cut, only while the arm stands still, the
\* wrist is back over the elevator only while that is high: the elevator's time left is
\* compared with the wrist's until both have arrived.  momentum2018 shows what a
\* change on the way does.
PatientGoalsClear == swerves = 0 => WristClearsElevator

\* An elevator whose encoder stands still is not pushed for longer than the fault
\* check allows, whatever it does before the check and between two of its calls.
StallEnds == "elevator" \in calibrated => stuck <= FaultTicks + 1

\* "Stow after calibrating": a goal message with no score goal that takes the robot
\* out of CALIBRATING stows it; it does not leave the goal where it was read before
\* calibration moved the goalposts.
StowAfterCalibrating ==
  [][\A intake \in IntakeGoals :
       HandleGoal(Goal("SCORE_NONE", intake)) /\ state = "CALIBRATING" /\ state' # state
       => <<height', angle'>> = Posture.STOW]_scoreVars
=============================================================================
