----------------------------- MODULE MCConfigPage -----------------------------
(* Instances of ConfigPage for TLC: one tab, one variable of each sort. *)
EXTENDS ConfigPage

CONSTANT tab1

OneNumber   == {"STABILIZATION_N"}
EveryKey    == OneNumber \cup SecretKeys

(* What is typed for the number is the 1 in quotes, no number before it is stripped. *)
TypedTexts  == [k \in EveryKey |-> IF k \in OneNumber THEN {2} ELSE {1}]
TwoIsQuoted == [v \in Values |-> IF v = 2 THEN 1 ELSE v]
OnlyDigits  == [v \in 0..1 |-> v]

NumbersSet  == [k \in EveryKey |-> IF k \in OneNumber THEN 0 ELSE Blank]
DatabaseSet == [k \in {"DATABASE_URL"} |-> 0]
AllZero     == [k \in EveryKey |-> 0]
OneOnConfig == [t \in {tab1} |-> "config"]
===============================================================================
