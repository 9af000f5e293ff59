------------------------------- MODULE Mailbox -------------------------------
(***************************************************************************)
(* What the relay promises of frames it holds back (README, "Limits":      *)
(* "Delayed global/room-transition commands preserve order; queued         *)
(* room-scoped traffic is discarded if membership or session changes"):    *)
(* each session has a box that is emptied from the front, one frame at a   *)
(* time, and a frame that belongs to a room is acted upon exactly when the *)
(* sender is still in the stay it was sent in.                             *)
(***************************************************************************)
EXTENDS Naturals, Sequences

CONSTANTS
  Session,    \* one box each
  Global,     \* frames that are acted upon wherever the sender is
  Scoped      \* frames for the room the sender is in

VARIABLES
  box,    \* what waits
  stay,   \* the sender's present stay: the number of moves, and whether it is in a room
  heard   \* the frame acted upon in the last step

mail == <<box, stay, heard>>

Stay == [moves : Nat, inside : BOOLEAN]
Letter == [what : Global \cup Scoped, stay : Stay]

Init ==
  /\ box = [c \in Session |-> <<>>]
  /\ stay \in [Session -> Stay]
  /\ heard = <<>>

\* A stay is never come back to while the session lasts.
Moves ==
  /\ stay' \in [Session -> Stay]
  /\ \A c \in Session :
       stay'[c] = stay[c] \/ stay'[c].moves > stay[c].moves \/ box'[c] = <<>>

\* A frame is put behind the others, with the stay it was sent in.
Put(c) ==
  /\ \E w \in Global \cup Scoped :
       box' = [box EXCEPT ![c] = Append(@, [what |-> w, stay |-> stay[c]])]
  /\ heard' = <<>> /\ UNCHANGED stay

\* The first frame is acted upon: a move, perhaps, of several sessions.
Act(c) ==
  /\ box[c] # <<>>
  /\ Head(box[c]).what \in Scoped => Head(box[c]).stay = stay[c] /\ stay' = stay
  /\ box' = [box EXCEPT ![c] = Tail(@)]
  /\ heard' = <<c, Head(box[c])>>
  /\ Moves

\* It is discarded: its stay is over, or it was sent in no room at all.
Discard(c) ==
  /\ box[c] # <<>>
  /\ Head(box[c]).what \in Scoped
  /\ Head(box[c]).stay # stay[c] \/ ~Head(box[c]).stay.inside
  /\ box' = [box EXCEPT ![c] = Tail(@)]
  /\ heard' = <<>> /\ UNCHANGED stay

\* Sessions end, and their boxes with them; others move.
End ==
  /\ \A c \in Session : box'[c] \in {box[c], <<>>}
  /\ Moves
  /\ heard' = <<>>

Next == End \/ \E c \in Session : Put(c) \/ Act(c) \/ Discard(c)

Spec == Init /\ [][Next]_mail
=============================================================================
