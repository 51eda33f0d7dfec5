-------------------------- MODULE MCSuperstructure --------------------------
(***************************************************************************)
(* Instances of Superstructure for TLC: which goals arrive and what the    *)
(* sensors can report in each run.                                         *)
(***************************************************************************)
EXTENDS Superstructure

Goal(score, intake) == [score |-> score, intake |-> intake, lift |-> 0, tilt |-> 0]
Quiet == Goal("NONE", "INTAKE_NONE")

FirstCommands == {Quiet, Goal("NONE", "INTAKE_CARGO")}

\* A game piece sensor, or none, trips; mechanisms are calibrated or not.
Reading(pieces, calibrations, enable) ==
  {[height |-> 0, angle |-> 0, zeroed |-> c[1], calibrated |-> c[2],
    hatch |-> p = "hatch", cargo |-> p = "cargo", stalled |-> p = "stall", enabled |-> on] :
     p \in pieces, c \in calibrations, on \in enable}

\* An empty robot, calibrated in any order and enabled at any time.
ClimbReadings == Reading({"none"}, BOOLEAN \X BOOLEAN, BOOLEAN)

Uninitialised == {<<0, 0>>, <<987, 870>>}
=============================================================================
