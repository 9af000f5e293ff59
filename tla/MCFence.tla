------------------------------- MODULE MCFence -------------------------------
(* Fence for TLC.                                                          *)
EXTENDS Fence, TLC

Symmetry == Permutations(Account) \cup Permutations(Conn)
=============================================================================
