----------------------------- MODULE ButtonRules ------------------------------
(***************************************************************************)
(* How the teleop loops turn buttons into one field of a goal.             *)
(***************************************************************************)
EXTENDS Sequences, Naturals

\* The value of the first rule that holds: a chain of if and else, or, listed from
\* the last to the first, a chain of assignments.
IsFirst(rules, i) == rules[i][1] /\ \A j \in 1 .. i - 1 : ~rules[j][1]
FirstOf(rules) == rules[CHOOSE i \in DOMAIN rules : IsFirst(rules, i)][2]
=============================================================================
