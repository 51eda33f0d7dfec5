------------------------------ MODULE MCRobot2017 -----------------------------
(***************************************************************************)
(* What a driver of the 2017 robot does, for TLC: shooting with and        *)
(* without vision, picking up and scoring gears, and climbing.             *)
(***************************************************************************)
EXTENDS Robot2017

Pressed == [
  start |-> {{}},
  shoot |-> {{}, {"align_shoot"}, {"just_spinup"}, {"just_shoot"}, {"stop_shooting"}, {"distance"}},
  gear  |-> {{}, {"gear_down"}, {"drop_balls"}, {"gear_down", "drop_balls"}, {"score_gear"},
             {"just_shoot"}},
  climb |-> {{}, {"climb"}, {"gear_down"}, {"just_shoot"}, {"gear_down", "climb"}}]

\* Gears are handled in teleop; a climb may meet a brownout.
Teleop == [mode |-> "TELEOP", active |-> TRUE]
Autonomous == [mode |-> "AUTONOMOUS", active |-> TRUE]
Disabled == [mode |-> "DISABLED", active |-> FALSE]
Reported == [
  start |-> {Disabled, Autonomous, Teleop},
  shoot |-> {Autonomous, Teleop},
  gear  |-> {Teleop},
  climb |-> {Teleop, [mode |-> "TELEOP", active |-> FALSE]}]

Reading(wheels, freeze, spikes, ropes) ==
  [enabled : BOOLEAN, wheel : wheels, frozen : freeze, spike : spikes, rope : ropes]
Sensing == [
  start |-> Reading({"near"}, {FALSE}, {FALSE}, {"stopped"}),
  shoot |-> Reading({"near", "steady", "off"}, {FALSE}, {FALSE}, {"stopped"})
            \cup Reading({"off"}, {TRUE}, {FALSE}, {"stopped"}),
  gear  |-> Reading({"near", "off"}, {FALSE}, BOOLEAN, {"stopped"}),
  climb |-> Reading({"near"}, {FALSE}, {FALSE}, {"fast", "slow", "stopped"})]
AllReadings == UNION {Sensing[d] : d \in DOMAIN Sensing}

Seen == [start |-> {"none"}, shoot |-> AllSights, gear |-> {"none"}, climb |-> {"none"}]
Gyro == [start |-> {"none", "counting", "done"},
         shoot |-> {"done"}, gear |-> {"done"}, climb |-> {"done"}]
=============================================================================
