------------------------------- MODULE Passage -------------------------------
(***************************************************************************)
(* What the superstructure promises about its arm: the wrist changes sides *)
(* only through the arc above the elevator's carriage, and is in the arc   *)
(* only while the elevator is low.                                         *)
(***************************************************************************)
VARIABLES
  side,  \* "BY_HAND" (not calibrated yet) | "FRONT" | "ARC" | "BACK"
  low    \* the elevator is low enough for the wrist to swing

vars == <<side, low>>

Sides == {"FRONT", "ARC", "BACK"}

Init == side = "BY_HAND" /\ low \in BOOLEAN

\* Put down by hand and calibrated, wherever the arm is allowed to be.
Place ==
  /\ side = "BY_HAND"
  /\ side' \in Sides \cup {"BY_HAND"} /\ low' \in BOOLEAN
  /\ side' = "ARC" => low'

\* Into the arc, or out of it, while the elevator is low at both ends.
Enter == side \in {"FRONT", "BACK"} /\ side' = "ARC" /\ low /\ low'
Leave == side = "ARC" /\ side' \in {"FRONT", "BACK"} /\ low /\ low' \in BOOLEAN

\* The elevator is moved while the wrist keeps to its side.
Lift == side \in {"FRONT", "BACK"} /\ low' \in BOOLEAN /\ UNCHANGED side

Next == Place \/ Enter \/ Leave \/ Lift

Spec == Init /\ [][Next]_vars
=============================================================================
