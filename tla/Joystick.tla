------------------------------- MODULE Joystick --------------------------------
(***************************************************************************)
(* muan/teleop: what a joystick's readings make of its buttons, and which  *)
(* changes of a button its two last updates show.                          *)
(*                                                                         *)
(* A reading of the hat is an angle, or -1.  Axes are in tenths of their   *)
(* way.  A stick's reading is the angle it points at, in degrees from      *)
(* beyond -180 to 180, and how far out it is.                              *)
(***************************************************************************)
EXTENDS Integers

Unpressed == [current |-> FALSE, last |-> FALSE]

UpdateButton(b, value) == [current |-> value, last |-> b.current]

WasClicked(b) == b.current /\ ~b.last
WasReleased(b) == ~b.current /\ b.last

\* Joystick::Update, for all of its buttons.
UpdateJoystick(buttons, values) ==
  [b \in DOMAIN buttons |-> UpdateButton(buttons[b], values[b])]

-----------------------------------------------------------------------------
Signum(x) == IF x < 0 THEN -1 ELSE IF x > 0 THEN 1 ELSE 0
Magnitude(x) == IF x < 0 THEN -x ELSE x

PovPressed(pov, position) == pov = position

PovInRange(pov, minimum, maximum) == minimum < pov /\ pov < maximum

\* With a threshold below zero every reading below zero is past it.
AxisPressed(axis, threshold) ==
  Signum(axis) = Signum(threshold) /\ Magnitude(axis) >= threshold

\* Angles below -135 count as those above 135.
AxisInRange(stick, minimum, maximum, threshold) ==
  LET angle == IF stick.angle < -135 THEN -stick.angle ELSE stick.angle
  IN  minimum <= angle /\ angle <= maximum /\ stick.out > threshold /\ stick.out > 1
=============================================================================
