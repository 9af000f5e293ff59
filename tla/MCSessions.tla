----------------------------- MODULE MCSessions -----------------------------
(* Small instances of Sessions for TLC.                                    *)
EXTENDS Sessions, TLC

\* Accounts and uploads are only compared with each other.
Symmetry == Permutations(Account) \cup Permutations(Request)
=============================================================================
