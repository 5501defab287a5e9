----------------------------- MODULE MCWcnssFm -----------------------------
(* Instances of WcnssFm for TLC; without symmetry, as one checks liveness. *)
EXTENDS WcnssFm

=============================================================================
