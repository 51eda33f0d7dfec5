--------------------------- MODULE HallCalibration ---------------------------
(***************************************************************************)
(* muan/control/calibration/hall_calibration: finds the wrist's zero from  *)
(* a magnet that a hall sensor passes while somebody moves the wrist.      *)
(* Update is called in every control tick with the encoder's reading and   *)
(* the hall sensor's; the middle of the readings at which the hall sensor  *)
(* was on is taken for the middle of the magnet.                           *)
(*                                                                         *)
(* The mechanism (Trail, Move) is an assumption: the encoder moves by at   *)
(* most Step from tick to tick, which is less than the magnet is wide, and *)
(* the hall sensor follows it with a backlash of Slack to either side.     *)
(* With a backlash the wrist starts off the magnet: started at its edge,   *)
(* the hall sensor can go off and on again on one side, which the code     *)
(* takes for a pass.                                                       *)
(*                                                                         *)
(* Positions are in encoder units.  The code halves the sum of the two     *)
(* ends, the model keeps twice the offset.                                 *)
(***************************************************************************)
EXTENDS Integers

CONSTANTS
  MagnetPosition,  \* magnet_position_: what the middle of the magnet should read
  Near, Far,       \* the ends of the magnet, as encoder readings
  Step,            \* the most the encoder moves in a tick
  Slack,           \* how far the hall sensor is behind or ahead of the encoder
  Positions        \* the encoder readings of the mechanism's travel

ASSUME MagnetAssumption == MagnetPosition \in Int /\ Near \in Int /\ Far \in Int
ASSUME StepAssumption == Step \in Nat /\ Step <= Far - Near + 1
ASSUME SlackAssumption == Slack \in Nat
ASSUME PositionsAssumption == Positions \subseteq Int

VARIABLES
  maxHall, minHall,        \* max_hall_true_, min_hall_true_
  maxOverall, minOverall,  \* max_overall_, min_overall_
  firstTime,               \* first_time_
  magnetFound,             \* magnet_found_
  calibrated,              \* calibrated_
  twiceOffset,             \* 2 * offset_
  sensor,                  \* where the encoder is
  hall                     \* where the hall sensor is

calibrationVars == <<maxHall, minHall, maxOverall, minOverall,
                     firstTime, magnetFound, calibrated, twiceOffset>>
vars == <<calibrationVars, sensor, hall>>

OnMagnet(p) == Near <= p /\ p <= Far

Init ==
  /\ maxHall = 0 /\ minHall = 0 /\ maxOverall = 0 /\ minOverall = 0
  /\ firstTime = TRUE /\ magnetFound = FALSE /\ calibrated = FALSE /\ twiceOffset = 0
  /\ sensor \in Positions
  /\ hall \in sensor - Slack .. sensor + Slack
  /\ OnMagnet(hall) => Slack = 0

\* Mutants: the range starts from zero, not from the first reading; it is widened
\* off the magnet, too.
WidensFromZero(hallValue, beyond) == hallValue /\ beyond
WidensAnywhere(hallValue, beyond) == beyond \/ ~magnetFound

\* A reading with the hall sensor on widens the magnet's range; the first one
\* starts it.
Widens(hallValue, beyond) == hallValue /\ (beyond \/ ~magnetFound)

\* Readings beyond both ends of the magnet's range have been seen.
Passed(found) == found /\ maxOverall' > maxHall' /\ minOverall' < minHall'

Update(value, hallValue) ==
  LET found == magnetFound \/ hallValue IN
  /\ maxHall' = IF Widens(hallValue, value > maxHall) THEN value ELSE maxHall
  /\ minHall' = IF Widens(hallValue, value < minHall) THEN value ELSE minHall
  /\ magnetFound' = found
  /\ maxOverall' = IF value > maxOverall \/ firstTime THEN value ELSE maxOverall
  /\ minOverall' = IF value < minOverall \/ firstTime THEN value ELSE minOverall
  /\ calibrated' = (calibrated \/ Passed(found))
  /\ twiceOffset' = IF calibrated' THEN 2 * MagnetPosition - (maxHall' + minHall')
                    ELSE twiceOffset
  /\ firstTime' = FALSE

\* The hall sensor is pushed or pulled along once the slack is used up.
Trail(value) ==
  IF value > hall + Slack THEN value - Slack
  ELSE IF value < hall - Slack THEN value + Slack
  ELSE hall

Move(value) ==
  /\ value <= sensor + Step /\ sensor <= value + Step
  /\ sensor' = value
  /\ hall' = Trail(value)
  /\ Update(value, OnMagnet(hall'))

Next == \E value \in Positions : Move(value)

Spec == Init /\ [][Next]_vars
-----------------------------------------------------------------------------
(* Properties.                                                              *)

\* Type invariant.
TypeOK ==
  /\ maxHall \in Int /\ minHall \in Int /\ maxOverall \in Int /\ minOverall \in Int
  /\ firstTime \in BOOLEAN /\ magnetFound \in BOOLEAN /\ calibrated \in BOOLEAN
  /\ twiceOffset \in Int /\ sensor \in Int /\ hall \in Int

\* Twice the error of the estimate: what the middle of the magnet would read,
\* less what it should read.
TwiceError == Near + Far + twiceOffset - 2 * MagnetPosition
Tolerance == Step + 2 * Slack

\* A calibrated sensor is right up to half a step and the slack, however the
\* mechanism was moved to and fro over the ends of the magnet before.
CalibratedIsAccurate ==
  calibrated => -Tolerance < TwiceError /\ TwiceError < Tolerance

\* Once the mechanism has been moved beyond both ends of the magnet it is
\* calibrated, whichever end came first and however often it turned back.
FullPassCalibrates ==
  ~firstTime /\ minOverall < Near - Slack /\ Far + Slack < maxOverall => calibrated
=============================================================================
