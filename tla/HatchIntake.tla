----------------------------- MODULE HatchIntake -----------------------------
(***************************************************************************)
(* The hatch panel intake on the wrist: "flutes" that grip a panel and a   *)
(* backplate that pushes it off.  The superstructure calls SetGoal and     *)
(* then Update in every control tick; Tick is the two together.            *)
(***************************************************************************)
EXTENDS Naturals

CONSTANT ScoreTicks  \* kScoreTicks: ticks for which the backplate pushes

VARIABLES
  hatchState,    \* state_
  scoreCounter,  \* counter_
  flute,         \* output: the flutes grip
  backplate      \* output: the backplate is out

States == {"IDLE", "INTAKING", "CARRYING", "OUTTAKING", "PREPPING_SCORE", "HANDOFF_INTAKING"}
Goals == {"NONE", "INTAKE", "HOLD", "SCORE", "PREP_SCORE", "HANDOFF"}

Init ==
  /\ hatchState = "IDLE" /\ scoreCounter = 0
  /\ flute = FALSE /\ backplate = FALSE

\* SetGoal: the state a goal asks for; NONE leaves the mechanism where it is.
StateFor(goal) ==
  CASE goal = "NONE"       -> hatchState
    [] goal = "INTAKE"     -> "INTAKING"
    [] goal = "HOLD"       -> "CARRYING"
    [] goal = "SCORE"      -> "OUTTAKING"
    [] goal = "PREP_SCORE" -> "PREPPING_SCORE"
    [] goal = "HANDOFF"    -> "HANDOFF_INTAKING"

CounterFor(goal) == IF goal = "SCORE" THEN 0 ELSE scoreCounter

\* The flutes are closed in state s.
Grips(s) == s \in {"IDLE", "INTAKING", "CARRYING", "PREPPING_SCORE"}

Tick(goal, forceBackplate, hatchProxy, enabled) ==
  LET s == StateFor(goal)
      n == CounterFor(goal)
      scored == s = "OUTTAKING" /\ n + 1 > ScoreTicks
  IN /\ hatchState' = IF s \in {"IDLE", "INTAKING"} /\ hatchProxy THEN "CARRYING"
                      ELSE IF scored THEN "IDLE" ELSE s
     /\ scoreCounter' = IF s # "OUTTAKING" THEN n ELSE IF scored THEN 0 ELSE n + 1
     /\ flute' = (enabled /\ Grips(s))
     /\ backplate' = /\ enabled /\ ~forceBackplate
                     /\ \/ s = "PREPPING_SCORE"
                        \/ s = "OUTTAKING" /\ ~scored
                        \/ s = "IDLE" /\ hatchProxy

TypeOK ==
  /\ hatchState \in States
  /\ scoreCounter \in 0 .. ScoreTicks
  /\ flute \in BOOLEAN /\ backplate \in BOOLEAN
=============================================================================
