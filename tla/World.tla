-------------------------------- MODULE World --------------------------------
(***************************************************************************)
(* What a persistent game promises its players (README, "Persistent        *)
(* sessions"): one copy that everybody sees, which advances by whole       *)
(* snapshots and by changes of host, and one copy on disk that survives    *)
(* the process.                                                            *)
(***************************************************************************)
EXTENDS Naturals

CONSTANTS
  Account,    \* who may be host
  Snapshot,   \* the complete states a host may commit
  Empty,      \* the state of a game nobody has committed to
  Gone        \* no world, or none on disk

VARIABLES
  current,    \* the world its next reader sees
  saved       \* the copy on disk

world == <<current, saved>>

Copy == [players : SUBSET Account, owner : Account, generation : Nat,
         revision : Nat, state : Snapshot \cup {Empty}]

Init == current = Gone /\ saved = Gone

\* A game starts, perhaps after changes of host in its room; it is not on
\* disk yet.  Its roster is fixed.
Begin ==
  /\ current = Gone /\ saved = Gone
  /\ current' \in Copy
  /\ current'.revision = 0 /\ current'.state = Empty
  /\ current'.owner \in current'.players
  /\ UNCHANGED saved

\* Another host, or the same one back again, has a generation of its own; all
\* hosts are of the roster.
Handover(p) ==
  /\ current # Gone /\ p \in current.players
  /\ current' = [current EXCEPT !.owner = p, !.generation = @ + 1]
  /\ UNCHANGED saved

\* The host's next complete state: one revision at a time, nothing lost.
Commit(s) ==
  /\ current # Gone
  /\ current' = [current EXCEPT !.state = s, !.revision = @ + 1]
  /\ UNCHANGED saved

Save == saved' = current /\ UNCHANGED current

\* Whatever was not saved is lost, and nothing else is.
Lose == current' = saved /\ UNCHANGED saved

\* The quota makes room for newer worlds.
Evict == current' = Gone /\ saved' = Gone

Next ==
  \/ Begin
  \/ \E p \in Account : Handover(p)
  \/ \E s \in Snapshot : Commit(s)
  \/ Save \/ Lose \/ Evict

Spec == Init /\ [][Next]_world
=============================================================================
