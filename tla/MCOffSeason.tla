------------------------------ MODULE MCOffSeason -----------------------------
(***************************************************************************)
(* The off-season robots of 2017 and 2018 for TLC: a behaviour is one of   *)
(* one robot, chosen at its beginning, and the other stands still.         *)
(***************************************************************************)
EXTENDS OffSeason2018

CONSTANTS Drills, Forwards, Backwards, Field

VARIABLE robot  \* which robot this is a behaviour of
VARIABLES drill, mode, lastMode, citrusStation, autoState, origin, buttons, climbing,
          citrusGoals, wheels, wheelStatus, climber, voltage, spool, begun

ASSUME DistancesAssumption == {Forwards, Backwards, Field} \subseteq Nat

citrus == INSTANCE CitrusRobot WITH
  Presses <- Drills, station <- citrusStation, goals <- citrusGoals

citrusVars == <<drill, mode, lastMode, citrusStation, autoState, origin, buttons, climbing,
                citrusGoals, wheels, wheelStatus, climber, voltage, spool, begun>>
seasonVars == <<robot, offVars, citrusVars>>

\* Each robot begins as it may in behaviours of its own, and in one way in the other's.
SeasonInit ==
  /\ robot \in {"o2018", "o2017"}
  /\ OffInit /\ citrus!CitrusInit
  /\ robot # "o2018" => match.period = "teleop" /\ arm.at = 0
  /\ robot # "o2017" => drill = "drive" /\ mode.period = "teleop"

OffSeason == robot = "o2018" /\ UNCHANGED <<robot, citrusVars>>
Citrus == robot = "o2017" /\ UNCHANGED <<robot, offVars>>

SeasonNext ==
  \/ OffSeason /\ OffNext
  \/ Citrus /\ citrus!CitrusNext

\* The fairness that the robots are specified with.
SeasonSpec ==
  /\ SeasonInit /\ [][SeasonNext]_seasonVars
  /\ WF_seasonVars(OffSeason /\ TeleopStep /\ station' # station)
  /\ WF_seasonVars(OffSeason /\ SubsystemTick)
  /\ WF_seasonVars(OffSeason /\ ChooseRoutine) /\ WF_seasonVars(OffSeason /\ RunStatement)
  /\ WF_seasonVars(Citrus /\ citrus!RobotPeriodic(citrus!Held))
  /\ WF_seasonVars(Citrus /\ citrus!SubsystemTick) /\ WF_seasonVars(Citrus /\ citrus!Rope)

-----------------------------------------------------------------------------
ArmAndIntake == {{}, {"pos_2"}, {"god_down", "intake_open"}}
DriveAndClimb == [drive |-> {{}, {"throttle"}, {"gear"}}, climb |-> {{}, {"climb"}}]

BacksOffFromPeg == citrus!BacksOffFromPeg
ClimbEases == citrus!ClimbEases
=============================================================================
