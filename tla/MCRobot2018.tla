------------------------------ MODULE MCRobot2018 -----------------------------
(***************************************************************************)
(* Matches of the 2018 robot for TLC: what a driver does with cubes and    *)
(* with the arm, a stalled elevator, and every autonomous routine.         *)
(***************************************************************************)
EXTENDS Robot2018

\* A drill of the operator, and a match that begins with an autonomous routine.
Drills == [
  cubes |-> {{}, {"height_0", "intake"}, {"height_1", "intake_close"}, {"intake_open"},
             {"settle"}, {"outtake_fast"}, {"intake"}},
  match |-> {{}, {"pos_1"}}]
Selected == [
  cubes |-> {},
  match |-> {"SWITCH_ONLY", "SCALE_ONLY", "SWITCH_AND_SCALE", "DRIVE", "SNEAK",
             "BACKSIDE_SWITCH", "nothing"}]

\* A robot that calibrates and is enabled and disabled at any time, with an elevator that
\* stalls as well while it handles cubes.
Reading(halls, freeze, pushes) ==
  [enabled : BOOLEAN, hall : halls, frozen : freeze, push : pushes]
Sensed == [
  cubes |-> Reading({{}, Mechanisms}, {FALSE}, {FALSE}) \cup Reading({{}}, {TRUE}, {TRUE}),
  match |-> Reading({Mechanisms}, {FALSE}, {FALSE})]
AllSensed == UNION {Sensed[d] : d \in DOMAIN Sensed}

\* An operator who moves the arm on from where it is, and changes his mind on the way,
\* with the power on.
Moves == [arm |-> {{"height_0"}, {"pos_2"}, {"back", "pos_0"}, {"front", "pos_1"}, {"pos_3"}}]
NoRoutine == [arm |-> {}]
Powered == [arm |-> {r \in Sensed.match : r.enabled}]

Announced == {<<"L", "R">>, <<"?", "L">>}

\* The constraints of the profiles, 4 m/s^2 and 2.5 m/s, 8 rad/s^2 and 8 rad/s, in ticks
\* of a second, of a quarter of a second, and of a tenth.
LiftSecond == [acceleration |-> 400, velocity |-> 250]
WristSecond == [acceleration |-> 458, velocity |-> 458]
LiftQuarter == [acceleration |-> 25, velocity |-> 62]
WristQuarter == [acceleration |-> 28, velocity |-> 114]
LiftTenth == [acceleration |-> 4, velocity |-> 25]
WristTenth == [acceleration |-> 4, velocity |-> 45]

\* The robot starts stowed, with its encoders at zero.
Stow == <<0, 80>>
=============================================================================
