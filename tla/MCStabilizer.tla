----------------------------- MODULE MCStabilizer -----------------------------
(* Instances of Stabilizer for TLC. *)
EXTENDS Stabilizer, TLC

CONSTANTS t1, t2, e1, e2, i1, i2

(* Both events are about t1: two poll chains race on one hold. *)
SameTxn == [e \in Events |-> t1]

(* e1 is about t1, e2 about t2. *)
OwnTxn == (e1 :> t1) @@ (e2 :> t2)

InstanceSymmetry == Permutations({i1, i2})
===============================================================================
