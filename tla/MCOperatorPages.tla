---------------------------- MODULE MCOperatorPages ----------------------------
(* Instances of OperatorPages for TLC. *)
EXTENDS OperatorPages

CONSTANTS d1, tab1, tab2

(* Two operators look at Health at the same time. *)
BothOnHealth == [t \in {tab1, tab2} |-> "health"]
===============================================================================
