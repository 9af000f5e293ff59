---------------------------- MODULE MCAdmission ----------------------------
(* Admission for TLC.  No symmetry: the run also checks liveness.          *)
EXTENDS Admission, TLC
=============================================================================
