------------------------------ MODULE MCOutbox ------------------------------
(* Outbox for TLC: two sizes of which three fill the buffer. *)
EXTENDS Outbox, TLC
=============================================================================
