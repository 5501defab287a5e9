-------------------------- MODULE MCMax1187xPower --------------------------
(* Instances of Max1187xPower for TLC.                                     *)
EXTENDS Max1187xPower
=============================================================================
