------------------------------ MODULE MCRooms ------------------------------
\* Small instances of Rooms for TLC.
EXTENDS Rooms, TLC

\* Sound for the safety runs: no model value is singled out by the module.
Symmetry == Permutations(Account) \cup Permutations(Conn) \cup Permutations(Room)
=============================================================================
