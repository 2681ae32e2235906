-------------------------- MODULE MCTransactionsPage --------------------------
(* Instances of TransactionsPage for TLC: three holds on two pages, a text
   that finds one. *)
EXTENDS TransactionsPage

CONSTANTS t1, t2, t3, anyText, oneText

HoldsNewest  == <<t1, t2, t3>>
TextMatching == [q \in {anyText, oneText} |-> IF q = anyText THEN {t1, t2, t3} ELSE {t2}]
===============================================================================
