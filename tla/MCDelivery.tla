------------------------------ MODULE MCDelivery ------------------------------
(* Instances of Delivery for TLC. *)
EXTENDS Delivery, TLC

CONSTANTS r1, r2, i1, i2

InstanceSymmetry == Permutations({i1, i2})
===============================================================================
