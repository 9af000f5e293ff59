-------------------------------- MODULE Fence --------------------------------
(***************************************************************************)
(* Frames that wait for sendDelayMs (rust/server.rs receive, sweep), and   *)
(* Player.version, which decides whether a frame may still act when its    *)
(* time has come.  Sockets and rooms appear as far as they touch           *)
(* versions, sessions and the queue; Rooms.tla has the rest of them.       *)
(*                                                                         *)
(* Abstracted: bytes, which are counted beside the frames and compared     *)
(* with maxBufferedBytes in the same places; time, so any number of the    *)
(* first frames may be due at a sweep (the delay is one for all and the    *)
(* clock does not go back); who may enter a room, so any request may be    *)
(* refused.  The worker runs a sweep to its end: while frames of one are   *)
(* left in `due` no other handler runs.                                    *)
(***************************************************************************)
EXTENDS Integers, FiniteSets, Sequences

CONSTANTS
  Account,      \* account ids
  Conn,         \* socket ids; one is reused only after its disconnect
  Room,         \* room ids
  None,         \* Rust's Option::None
  MaxPending,   \* config maxMessagesPerSecond, the limit of frames that wait
  MaxVersion    \* bound: how far clients let a version grow

\* Frames for the room one is in; frames that act from anywhere.  (Those that
\* move nobody, getRooms for one, act like an entry that is refused.)
Scoped == {"relay"}
Global == {"leaveRoom"} \cup Room

ASSUME FenceAssumption ==
  /\ None \notin Account \cup Conn \cup Room
  /\ Scoped \cap Global = {}
  /\ MaxPending \in Nat /\ MaxVersion \in Nat

VARIABLES
  players,   \* Server.players: session, room and version
  conns,     \* Server.connections
  delayed,   \* Server.delayed
  due,       \* the frames of the running sweep that are still to be looked at
  moves,     \* history: changes of room or of session, for each account
  heard      \* history: the frame that the last step dispatched

vars == <<players, conns, delayed, due, moves, heard>>

Stay == [moves : Nat, inside : BOOLEAN]
Player == [conn : Conn \cup {None}, room : Room \cup {None}, version : Nat]
Connection == [state : {"absent", "open", "closing"},
               player : Account \cup {None}, pending : Nat]
Delayed == [cid : Conn, version : Nat, what : Scoped \cup Global, stay : Stay]

NoConn == [state |-> "absent", player |-> None, pending |-> 0]

TypeOK ==
  /\ players \in [Account -> Player]
  /\ conns \in [Conn -> Connection]
  /\ delayed \in Seq(Delayed) /\ due \in Seq(Delayed)
  /\ moves \in [Account -> Nat]

Init ==
  /\ players = [p \in Account |-> [conn |-> None, room |-> None, version |-> 0]]
  /\ conns = [c \in Conn |-> NoConn]
  /\ delayed = <<>> /\ due = <<>>
  /\ moves = [p \in Account |-> 0]
  /\ heard = <<>>

\* Between two handlers.
Ready == due = <<>>

StayOf(p) == [moves |-> moves[p], inside |-> players[p].room # None]

\* The socket speaks for its account: not closing, not replaced.
Speaks(c) ==
  /\ conns[c].state = "open" /\ conns[c].player # None
  /\ players[conns[c].player].conn = c

\* Those of the frames that came through the sockets in S, in their order.
Kept(S, frames) ==
  LET kept[n \in 0 .. Len(frames)] ==
        IF n = 0 THEN <<>>
        ELSE IF frames[n].cid \in S THEN Append(kept[n - 1], frames[n])
        ELSE kept[n - 1]
  IN  kept[Len(frames)]

Without(c, frames) == Kept(Conn \ {c}, frames)

-----------------------------------------------------------------------------
\* Rooms: who moves, and what it does to versions

\* Mutant of Moved: the version stays as it is.
MovedQuietly(ps, P, r) ==
  [p \in Account |-> IF p \in P THEN [ps[p] EXCEPT !.room = r] ELSE ps[p]]

\* The accounts in P go to r, or to no room; every move has its version.
Moved(ps, P, r) ==
  [p \in Account |->
     IF p \in P THEN [ps[p] EXCEPT !.room = r, !.version = @ + 1] ELSE ps[p]]

Advanced(P) == [p \in Account |-> IF p \in P THEN moves[p] + 1 ELSE moves[p]]

\* Mutant of Departs: the version of the others stays as it is.
DepartsAlone(ps, p, others) ==
  [q \in Account |->
     IF q = p THEN [ps[q] EXCEPT !.room = None, !.version = @ + 1]
     ELSE IF q \in others THEN [ps[q] EXCEPT !.room = None]
     ELSE ps[q]]

\* leave(): p, with its version even if it is in no room, and the others when
\* the host of a game without migration takes everybody along.
Departs(ps, p, others) == Moved(ps, {p} \cup others, None)

\* Whom p takes along: nobody, or all of a started game that it hosted.
Company(p) ==
  IF players[p].room = None THEN {{}}
  ELSE {{}, {q \in Account \ {p} : players[q].room = players[p].room}}

Leaves(p, others) ==
  /\ players' = Departs(players, p, others)
  /\ moves' = Advanced(others \cup (IF players[p].room = None THEN {} ELSE {p}))

-----------------------------------------------------------------------------
\* Sockets

Connect(c) ==
  /\ Ready /\ conns[c].state = "absent"
  /\ conns' = [conns EXCEPT ![c].state = "open"]
  /\ heard' = <<>> /\ UNCHANGED <<players, delayed, due, moves>>

\* close(): a limit, a timeout, or a frame that did not fit while another
\* account's frame was dispatched.
CloseSocket(c) ==
  /\ conns[c].state = "open"
  /\ conns' = [conns EXCEPT ![c].state = "closing"]
  /\ heard' = <<>> /\ UNCHANGED <<players, delayed, due, moves>>

\* disconnect(): what the socket has waiting goes with it.
Disconnect(c) ==
  LET p == conns[c].player IN
  /\ Ready /\ conns[c].state # "absent"
  /\ conns' = [conns EXCEPT ![c] = NoConn]
  /\ delayed' = Without(c, delayed)
  /\ IF p # None /\ players[p].conn = c
     THEN \E others \in Company(p) :
            /\ players' = [Departs(players, p, others) EXCEPT ![p].conn = None]
            /\ moves' = Advanced({p} \cup others)
     ELSE UNCHANGED <<players, moves>>
  /\ heard' = <<>> /\ UNCHANGED due

\* auth() at once, never delayed: the old socket is closed and its frames are
\* dropped; a started game with a fixed roster is left.
Auth(c, p, leaves) ==
  LET old == players[p].conn IN
  /\ Ready /\ conns[c].state = "open" /\ conns[c].player = None
  /\ moves[p] < MaxVersion
  /\ conns' = [d \in Conn |->
                 IF d = c THEN [conns[d] EXCEPT !.player = p]
                 ELSE IF d = old THEN [conns[d] EXCEPT !.state = "closing"]
                 ELSE conns[d]]
  /\ \E others \in IF leaves THEN Company(p) ELSE {{}} :
       /\ players' = [(IF leaves THEN Departs(players, p, others) ELSE players)
                        EXCEPT ![p].conn = c]
       /\ moves' = Advanced({p} \cup others)
  /\ delayed' = Without(old, delayed)
  /\ heard' = <<>> /\ UNCHANGED due

\* expire() forgets an account that is offline; read again from its file it
\* starts with version 0.
Forget(p) ==
  /\ Ready /\ players[p].conn = None
  /\ players' = [players EXCEPT ![p].version = 0]
  /\ heard' = <<>> /\ UNCHANGED <<conns, delayed, due, moves>>

-----------------------------------------------------------------------------
\* Frames

\* receive(): the frame waits, with the version it came under.
Receive(c, what) ==
  LET p == conns[c].player IN
  /\ Ready /\ Speaks(c)
  /\ conns[c].pending < MaxPending
  /\ players[p].version < MaxVersion
  /\ conns' = [conns EXCEPT ![c].pending = @ + 1]
  /\ delayed' = Append(delayed, [cid |-> c, version |-> players[p].version,
                                 what |-> what, stay |-> StayOf(p)])
  /\ heard' = <<>> /\ UNCHANGED <<players, due, moves>>

\* receive(): "Delay limit".
DelayLimit(c) ==
  /\ Ready /\ Speaks(c)
  /\ conns[c].pending >= MaxPending
  /\ conns' = [conns EXCEPT ![c].state = "closing"]
  /\ heard' = <<>> /\ UNCHANGED <<players, delayed, due, moves>>

\* Mutant of StartSweep: frames that are not due come before.
StartSweepLast(n) ==
  /\ Ready /\ n \in 1 .. Len(delayed)
  /\ due' = SubSeq(delayed, Len(delayed) - n + 1, Len(delayed))
  /\ delayed' = SubSeq(delayed, 1, Len(delayed) - n)
  /\ heard' = <<>> /\ UNCHANGED <<players, conns, moves>>

\* sweep(): the first n frames are due.
StartSweep(n) ==
  /\ Ready /\ n \in 1 .. Len(delayed)
  /\ due' = SubSeq(delayed, 1, n)
  /\ delayed' = SubSeq(delayed, n + 1, Len(delayed))
  /\ heard' = <<>> /\ UNCHANGED <<players, conns, moves>>

\* Mutant of Passes: global frames are fenced, too.
PassesFenced(f) ==
  Speaks(f.cid) /\ players[conns[f.cid].player].version = f.version

\* Its session is the same and, if it is for a room, so is the stay.
Passes(f) ==
  /\ Speaks(f.cid)
  /\ f.what \in Scoped => players[conns[f.cid].player].version = f.version

\* Mutant of Released: only frames that are dispatched are counted off.
ReleasedIfActing(f) ==
  IF Passes(f) THEN [conns EXCEPT ![f.cid].pending = @ - 1] ELSE conns

\* One less waits, whatever becomes of it (saturating_sub).
Released(f) ==
  [conns EXCEPT ![f.cid].pending = IF @ > 0 THEN @ - 1 ELSE 0]

\* dispatch(): a relay moves nobody; entering a room may be refused.
Dispatched(f) ==
  LET p == conns[f.cid].player IN
  \/ /\ f.what # "leaveRoom"
     /\ UNCHANGED <<players, moves>>
  \/ /\ f.what \in Room /\ players[p].room = None
     /\ players' = Moved(players, {p}, f.what)
     /\ moves' = Advanced({p})
  \/ /\ f.what = "leaveRoom"
     /\ \E others \in Company(p) : Leaves(p, others)

\* sweep(): the next frame that is due is dispatched or discarded; one whose
\* socket is gone is skipped.
SweepNext ==
  LET f == Head(due) IN
  /\ ~Ready
  /\ due' = Tail(due)
  /\ conns' = IF conns[f.cid].state = "absent" THEN conns ELSE Released(f)
  /\ IF Passes(f)
     THEN /\ Dispatched(f)
          /\ heard' = <<f.cid, [what |-> f.what, stay |-> f.stay]>>
     ELSE heard' = <<>> /\ UNCHANGED <<players, moves>>
  /\ UNCHANGED delayed

Next ==
  \/ \E c \in Conn :
       \/ Connect(c) \/ CloseSocket(c) \/ Disconnect(c) \/ DelayLimit(c)
       \/ \E p \in Account, leaves \in BOOLEAN : Auth(c, p, leaves)
       \/ \E what \in Scoped \cup Global : Receive(c, what)
  \/ \E p \in Account : Forget(p)
  \/ \E n \in 1 .. Len(delayed) : StartSweep(n)
  \/ SweepNext

Spec == Init /\ [][Next]_vars

-----------------------------------------------------------------------------
\* Properties

\* What waits for c, in the order it came.
Waiting(c) == Kept({c}, due \o delayed)

\* A frame the fence would let through was sent in the present stay: versions
\* go forward with every move of a session, for those who move and for those
\* whom a game that ends takes along, and no frame outlives its session.
Tight(f) ==
  LET p == conns[f.cid].player IN
  Speaks(f.cid) /\ players[p].version = f.version => f.stay = StayOf(p)
FenceIsTight ==
  /\ \A i \in DOMAIN due : Tight(due[i])
  /\ \A i \in DOMAIN delayed : Tight(delayed[i])

\* Connection.pending is the number of frames a session has waiting: one that
\* drifted would close it for a limit it is not at.
PendingExact == \A c \in Conn : Speaks(c) => conns[c].pending = Len(Waiting(c))

\* The queue, session by session, is a Mailbox: in order, nothing skipped,
\* nothing twice, relays exactly in the stay they were sent in.
Letters(c) ==
  LET w == Waiting(c) IN
  IF Speaks(c) THEN [i \in DOMAIN w |-> [what |-> w[i].what, stay |-> w[i].stay]]
  ELSE <<>>
Boxes == [c \in Conn |-> Letters(c)]
Stays == [c \in Conn |-> IF Speaks(c) THEN StayOf(conns[c].player)
                         ELSE [moves |-> 0, inside |-> FALSE]]
Abstract == INSTANCE Mailbox WITH Session <- Conn, box <- Boxes, stay <- Stays
ImplementsMailbox == Abstract!Spec
=============================================================================
