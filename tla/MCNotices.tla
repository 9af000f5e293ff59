------------------------------ MODULE MCNotices ------------------------------
(* Notices for TLC: what hosts send, one event at two times, once to both  *)
(* accounts and once to one of them twice.                                 *)
EXTENDS Notices

CONSTANTS p, q, e

Both(t) == [event |-> e, at |-> t, to |-> <<p, q>>]
Twice(t) == [event |-> e, at |-> t, to |-> <<p, p>>]

Sent == {Twice(0), Both(1)}
SentToBoth == {Both(0)}
=============================================================================
