-------------------------------- MODULE Winch --------------------------------
(***************************************************************************)
(* The winch and the forks on which a partner robot is lifted.             *)
(***************************************************************************)
VARIABLES
  winchOn,   \* output: 12 V on the winch
  dropForks  \* output: the forks are down

ClimbGoals == {"NONE", "SOLO", "BUDDY"}

Init == winchOn = FALSE /\ dropForks = FALSE

Tick(winch, climbGoal, enabled) ==
  /\ dropForks' = (enabled /\ climbGoal = "BUDDY")
  /\ winchOn' = (winch /\ dropForks')

TypeOK == winchOn \in BOOLEAN /\ dropForks \in BOOLEAN
=============================================================================
