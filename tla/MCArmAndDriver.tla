---------------------------- MODULE MCArmAndDriver ----------------------------
(***************************************************************************)
(* The superstructure for TLC, in one of two exercises.  In "motion" it    *)
(* moves the arm on a grid of positions with the goals' own on it, and the *)
(* elevator takes several ticks to pass any of the thresholds.  In "drive" *)
(* a driver picks up game pieces, climbs, or scores with vision, and the   *)
(* arm stands still.                                                       *)
(***************************************************************************)
EXTENDS SuperstructurePlant, DriverButtons

VARIABLE exercise

armAndDriverVars == <<exercise, plantVars, drill, second>>

-----------------------------------------------------------------------------
(* Motion.                                                                  *)

MotionCommands ==
  {[score |-> score, intake |-> "INTAKE_NONE", lift |-> 0, tilt |-> 0] :
     score \in {"NONE", "STOW", "HANDOFF", "HATCH_ROCKET_SECOND", "LIMELIGHT_OVERRIDE"}}

Heights == {0, 20, 120, 220, 310, 410, 510, 610, 710, 810, 910, 987}
Angles == {0, 600, 1000, 1200, 1700, 2200, 2700, 3520}

MotionReadings ==
  [height : Heights, angle : Angles, zeroed : {TRUE}, calibrated : {TRUE},
   hatch : {FALSE}, cargo : {FALSE}, stalled : {FALSE}, enabled : BOOLEAN]

Moving == exercise = "motion" /\ UNCHANGED <<exercise, drill, second>>

-----------------------------------------------------------------------------
(* Driving.                                                                 *)

Drills == [
  intake |-> {{}, {"hp_hatch_intake"}, {"cargo_intake", "ground_intake_height"},
              {"ground_hatch_intake", "safety"}, {"hp_hatch_outtake"}},
  climb  |-> {{}, {"stow"}, {"drop_forks", "safety"}, {"pop", "safety"}, {"crawl"},
              {"brake", "safety"}, {"drop_crawlers", "safety"}, {"winch", "safety"}},
  score  |-> {{}, {"level_2"}, {"vision"}, {"ship", "backwards"}, {"level_3", "safety"},
              {"cargo_outtake"}}]

\* A game piece sensor, or none, trips; mechanisms are calibrated or not.
Reading(pieces, calibrations, enable) ==
  {[height |-> 0, angle |-> 0, zeroed |-> c[1], calibrated |-> c[2],
    hatch |-> p = "hatch", cargo |-> p = "cargo", stalled |-> p = "stall", enabled |-> on] :
     p \in pieces, c \in calibrations, on \in enable}

\* A calibrated robot that picks up and loses game pieces, or is disabled empty;
\* an empty robot, calibrated in any order and enabled at any time; and one that
\* scores what it has.
Sensed == [
  intake |-> Reading({"none", "hatch", "cargo", "stall"}, {<<TRUE, TRUE>>}, {TRUE})
             \cup Reading({"none"}, {<<TRUE, TRUE>>}, {FALSE}),
  climb  |-> Reading({"none"}, BOOLEAN \X BOOLEAN, BOOLEAN),
  score  |-> Reading({"none", "hatch", "cargo"}, {<<TRUE, TRUE>>}, {TRUE})]

AllSights == [front : BOOLEAN, near : {TRUE}] \cup [front : {TRUE}, near : {FALSE}]

Driving == exercise = "drive" /\ UNCHANGED <<exercise, swing>>

-----------------------------------------------------------------------------
AllReadings == MotionReadings \cup UNION {Sensed[d] : d \in DOMAIN Sensed}
Cleared == {<<0, 0>>}

\* The drill only counts for driving.
ArmAndDriverInit ==
  /\ exercise \in {"motion", "drive"}
  /\ DriverInit /\ PlantInit
  /\ exercise = "motion" => drill = "climb"

ArmAndDriverNext ==
  \/ Moving /\ \/ \E c \in MotionCommands : HandleGoal(c) /\ UNCHANGED swing
               \/ \E r \in MotionReadings : Tick(r)
  \/ Driving /\ DriverNext

\* The fairness that the two are specified with.
ArmAndDriverSpec ==
  /\ ArmAndDriverInit /\ [][ArmAndDriverNext]_armAndDriverVars
  /\ WF_armAndDriverVars(Moving /\ \E r \in MotionReadings : Tick(r))
  /\ WF_armAndDriverVars(Moving /\ elevatorOn /\
       \E r \in MotionReadings : r.height # height /\ Tick(r))
  /\ WF_armAndDriverVars(Moving /\ wristOn /\
       \E r \in MotionReadings : r.angle # angle /\ Tick(r))
  /\ WF_armAndDriverVars(Driving /\ IntakeWaits /\ TeleopStep)
  /\ WF_armAndDriverVars(Driving /\ \E r \in Sensors[drill] : Publish(r) /\ disk' # "CHANGING")

-----------------------------------------------------------------------------
\* A goal that stays is reached, whatever positions the robot was in and
\* whatever detour the wrist and the elevator have to make for each other.
GoalReached ==
  \A score \in {c.score : c \in Commands} \cap DOMAIN Position :
    <>[](exercise = "motion" /\ Wants(score)) => <>[]Reached(score)
==============================================================================
