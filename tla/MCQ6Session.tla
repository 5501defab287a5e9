---------------------------- MODULE MCQ6Session ----------------------------
(* The instance of Q6Session for TLC. Sessions and handles are model        *)
(* values; there is no symmetry, as the run checks liveness too.            *)
EXTENDS Q6Session

=============================================================================
