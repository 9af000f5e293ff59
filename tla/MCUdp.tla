-------------------------------- MODULE MCUdp --------------------------------
(* Udp for TLC: clients are interchangeable, and so are rooms and addresses. *)
EXTENDS Udp, TLC

Symmetry == Permutations(Client) \cup Permutations(Room) \cup Permutations(Address)
=============================================================================
