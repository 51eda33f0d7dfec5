-------------------------------- MODULE Wrist --------------------------------
(***************************************************************************)
(* The wrist.  Angles are in milliradians: 0 is level to the front, 1570   *)
(* straight up, 3142 level to the back.  Tick is given the hall            *)
(* calibration's answer for the tick: the calibrated angle (the raw one    *)
(* until the magnet has been passed) and whether it is calibrated.         *)
(***************************************************************************)
EXTENDS Integers

VARIABLES
  angle,            \* status: wrist_angle
  wristCalibrated,  \* status: is_calibrated
  wristOn,          \* output type POSITION (else OPEN_LOOP with 0 V)
  wristSetpoint     \* output, as a calibrated angle: the code subtracts the offset

kMinAngle == 0
kMaxAngle == 3665

\* muan::utils::Cap
Cap(x, low, high) == IF x < low THEN low ELSE IF x > high THEN high ELSE x

Init == angle = 0 /\ wristCalibrated = FALSE /\ wristOn = FALSE /\ wristSetpoint = 0

\* Level to the front and wanted there: the motor rests.
Resting(goalAngle, reading) == goalAngle < 10 /\ reading <= 10

Tick(goal, reading, isCalibrated, enabled) ==
  LET goalAngle == Cap(goal, kMinAngle, kMaxAngle)
  IN /\ angle' = reading
     /\ wristCalibrated' = isCalibrated
     /\ wristOn' = (enabled /\ isCalibrated /\ ~Resting(goalAngle, reading))
     /\ wristSetpoint' = IF wristOn' THEN goalAngle ELSE 0

TypeOK ==
  /\ angle \in Int
  /\ wristCalibrated \in BOOLEAN /\ wristOn \in BOOLEAN
  /\ wristSetpoint \in kMinAngle .. kMaxAngle
=============================================================================
