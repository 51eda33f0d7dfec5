--------------------------- MODULE ButtonRulesProofs --------------------------
(***************************************************************************)
(* A chain of rules that ends in one that holds takes the value of one of  *)
(* its rules, the first that holds.                                        *)
(***************************************************************************)
EXTENDS ButtonRules, WellFoundedInduction, TLAPS

\* A set of numbers has a least one.
LEMMA LeastNumber ==
  ASSUME NEW S \in SUBSET Nat, S # {}
  PROVE  \E i \in S : \A j \in S : i <= j
<1> DEFINE Below == {p \in Nat \X Nat : p[1] < p[2]}
<1>1. IsWellFoundedOn(Below, Nat)
  BY NatLessThanWellFounded DEF OpToRel
<1>2. PICK i \in S : \A j \in S : <<j, i>> \notin Below
  <2> HIDE DEF Below
  <2> QED BY <1>1, WFMin
<1>3. ASSUME NEW j \in S PROVE i <= j
  <2>1. <<j, i>> \in Nat \X Nat /\ <<j, i>>[1] = j /\ <<j, i>>[2] = i
    OBVIOUS
  <2>2. ~(j < i)
    BY <1>2, <2>1
  <2> QED
    BY <2>2
<1> QED
  BY <1>3

\* A chain of rules that ends in one that holds has a first one that holds.
LEMMA FirstExists ==
  ASSUME NEW rules, NEW n \in Nat \ {0}, DOMAIN rules = 1 .. n, rules[n][1]
  PROVE  \E i \in DOMAIN rules : IsFirst(rules, i)
<1> DEFINE Holding == {i \in 1 .. n : rules[i][1]}
<1>1. Holding \in SUBSET Nat /\ Holding # {}
  OBVIOUS
<1>2. PICK i \in Holding : \A j \in Holding : i <= j
  <2> HIDE DEF Holding
  <2> QED BY <1>1, LeastNumber
<1>3. IsFirst(rules, i)
  BY <1>2 DEF IsFirst
<1> QED
  BY <1>2, <1>3

\* FirstOf is the value of a rule of the chain.
LEMMA FirstOfOne ==
  ASSUME NEW rules, NEW n \in Nat \ {0}, DOMAIN rules = 1 .. n, rules[n][1], NEW Values,
         \A i \in 1 .. n : rules[i][2] \in Values
  PROVE  FirstOf(rules) \in Values
BY FirstExists DEF FirstOf
=============================================================================
