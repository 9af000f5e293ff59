------------------------------ MODULE IndexSet ------------------------------
(***************************************************************************)
(* indexmap::IndexSet, as the server uses it for the members of a room:    *)
(* a sequence without repetition.                                          *)
(***************************************************************************)
EXTENDS Integers, Sequences

\* The elements.
Members(s) == {s[i] : i \in DOMAIN s}

\* No repetition.
Distinct(s) == \A i, j \in DOMAIN s : s[i] = s[j] => i = j

\* IndexSet::swap_remove: the last one takes the free place.
SwapRemove(s, p) ==
  IF p \in Members(s)
  THEN LET k == CHOOSE i \in DOMAIN s : s[i] = p
       IN  [i \in 1 .. Len(s) - 1 |-> IF i = k THEN s[Len(s)] ELSE s[i]]
  ELSE s

\* IndexSet::shift_remove: the others keep their order.
ShiftRemove(s, p) ==
  IF p \in Members(s)
  THEN LET k == CHOOSE i \in DOMAIN s : s[i] = p
       IN  [i \in 1 .. Len(s) - 1 |-> IF i < k THEN s[i] ELSE s[i + 1]]
  ELSE s
=============================================================================
