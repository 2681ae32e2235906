---------------------------- MODULE HoldLifecycle ----------------------------
(***************************************************************************)
(* What Paystable promises a merchant about one hold, with no pollers,     *)
(* scanners, crashes or retries in it: a hold is opened once, evidence     *)
(* about the payment accumulates, and at most once the hold is resolved    *)
(* to an outcome the evidence supports; at that same instant exactly one   *)
(* notice of that outcome is queued for the merchant, and neither the      *)
(* outcome nor the notice ever changes again.                              *)
(*                                                                         *)
(* The schema reserves CONFIRMED -> REFUNDED; no code path takes it, and   *)
(* it is not part of the promise.                                          *)
(***************************************************************************)
EXTENDS Sequences

CONSTANT Txns

VARIABLES
    hold,      \* status of the hold of each transaction
    grounds,   \* outcomes the evidence gathered so far supports
    notices    \* outcomes queued for the merchant, oldest first

vars == <<hold, grounds, notices>>

Outcomes == {"CONFIRMED", "FAILED", "INDETERMINATE", "MISMATCH"}
Open     == {"PENDING", "VERIFYING"}

Init ==
    /\ hold = [t \in Txns |-> "NONE"]
    /\ grounds = [t \in Txns |-> {}]
    /\ notices = [t \in Txns |-> <<>>]

(* The merchant opens a hold. *)
Create(t) ==
    /\ hold[t] = "NONE"
    /\ hold' = [hold EXCEPT ![t] = "PENDING"]
    /\ UNCHANGED <<grounds, notices>>

(* Evidence is only ever added, and only about a hold that exists. *)
Observe(t) ==
    /\ hold[t] # "NONE"
    /\ \E seen \in SUBSET Outcomes :
          grounds' = [grounds EXCEPT ![t] = @ \cup seen]
    /\ UNCHANGED <<hold, notices>>

(* The one decision: outcome and notice together, and never without grounds. *)
Resolve(t) ==
    /\ hold[t] \in Open
    /\ \E o \in grounds[t] :
          /\ hold' = [hold EXCEPT ![t] = o]
          /\ notices' = [notices EXCEPT ![t] = Append(@, o)]
    /\ UNCHANGED grounds

Next == \E t \in Txns : Create(t) \/ Observe(t) \/ Resolve(t)

Spec == Init /\ [][Next]_vars
==============================================================================
