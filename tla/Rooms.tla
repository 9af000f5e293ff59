------------------------------- MODULE Rooms -------------------------------
(***************************************************************************)
(* Accounts, sockets and in-memory rooms: the handlers of rust/server.rs   *)
(* that the one worker thread of rust/state.rs runs, one whole handler at  *)
(* a time.  A game started with `persistent` belongs to Sessions.tla; here *)
(* no client asks for it, so a room lives in RAM only and `keep`, `load`   *)
(* and `save` are never reached.  Account files are modelled.              *)
(*                                                                         *)
(* Abstracted: names, passwords (a request with wrong credentials is an    *)
(* AuthRefused step, a refused room request changes nothing), the text of  *)
(* replies, time (Age is the passing of accountTtlMs) and Player.version,  *)
(* which only delayed frames and UDP sessions read.                        *)
(***************************************************************************)
EXTENDS Integers, FiniteSets, IndexSet

CONSTANTS
  Account,        \* account ids, in the spelling the server generated
  Conn,           \* socket ids; one is reused only after its disconnect
  Room,           \* room ids
  None,           \* Rust's Option::None
  RoomSizes,      \* the maxPlayers values clients ask for
  MaxAccounts,    \* config maxAccounts
  MaxRooms,       \* config maxRooms
  MaxGeneration,  \* bound: how far a room's host generation may grow
  StoreEnabled,   \* SESSION_DIRECTORY is set
  AnyCase         \* clients may spell playerId in another letter case

ASSUME RoomsAssumption ==
  /\ None \notin Account \cup Conn \cup Room
  /\ RoomSizes \subseteq Nat \ {0}
  /\ MaxAccounts \in Nat /\ MaxRooms \in Nat /\ MaxGeneration \in Nat
  /\ StoreEnabled \in BOOLEAN /\ AnyCase \in BOOLEAN

VARIABLES
  players,    \* Server.players
  conns,      \* Server.connections
  rooms,      \* Server.rooms
  files,      \* accounts with a file under accounts/
  eligible    \* history: who may still sit in a started room

vars == <<players, conns, rooms, files, eligible>>

Player == [conn : Conn \cup {None}, room : Room \cup {None},
           status : {"absent", "online", "recent", "due"}]
Connection == [state : {"absent", "open", "closing"},
               player : Account \cup {None}]
RoomState == [live : BOOLEAN, owner : Account \cup {None}, max : Nat,
              active : Seq(Account), reservations : SUBSET Account,
              players : SUBSET Account, started : BOOLEAN, closed : BOOLEAN,
              fixed : BOOLEAN, migration : BOOLEAN, generation : Nat]

NoPlayer == [conn |-> None, room |-> None, status |-> "absent"]
NoConn == [state |-> "absent", player |-> None]
NoRoom == [live |-> FALSE, owner |-> None, max |-> 0, active |-> <<>>,
           reservations |-> {}, players |-> {}, started |-> FALSE,
           closed |-> FALSE, fixed |-> FALSE, migration |-> FALSE,
           generation |-> 0]

TypeOK ==
  /\ players \in [Account -> Player]
  /\ conns \in [Conn -> Connection]
  /\ rooms \in [Room -> RoomState]
  /\ files \in SUBSET Account
  /\ eligible \in [Room -> SUBSET Account]

Init ==
  /\ players = [p \in Account |-> NoPlayer]
  /\ conns = [c \in Conn |-> NoConn]
  /\ rooms = [r \in Room |-> NoRoom]
  /\ files = {}
  /\ eligible = [r \in Room |-> {}]

-----------------------------------------------------------------------------
\* Helpers

Present(ps) == {p \in Account : ps[p].status # "absent"}
LiveRooms == {r \in Room : rooms[r].live}

\* The reservations of the accounts in S are withdrawn.
Revoked(R, S) == [R EXCEPT !.reservations = @ \ S]

Rejoin(R, p) == IF R.fixed THEN p \in R.players ELSE p \in R.reservations

\* Mutants of Expires: seats in a fixed roster are forgotten; reservations
\* count as seats.
ExpiresSeated(p) == players[p].status = "due"
ExpiresUnreserved(p) ==
  /\ players[p].status = "due"
  /\ \A r \in Room : p \notin rooms[r].players \cup rooms[r].reservations

\* expire(): accounts offline for accountTtlMs go, except those seated in a
\* fixed roster, and their reservations go with them.
Expires(p) ==
  /\ players[p].status = "due"
  /\ \A r \in Room : rooms[r].live /\ rooms[r].fixed => p \notin rooms[r].players
Expired == {p \in Account : Expires(p)}
KeptPlayers == [p \in Account |-> IF p \in Expired THEN NoPlayer ELSE players[p]]
KeptRooms == [r \in Room |-> Revoked(rooms[r], Expired)]

\* Mutant of EndsGame: the migration flag read the wrong way round.
EndsMigratingGame(R, p) == R.started /\ R.fixed /\ R.migration /\ R.owner = p

\* leave(): the departure of p, in a room R and for everybody in it.
EndsGame(R, p) == R.started /\ R.fixed /\ ~R.migration /\ R.owner = p

\* Mutant of RoomAfter: the last member takes the place of the one who goes.
RoomAfterSwapping(R, p, disconnected) ==
  LET rest == SwapRemove(R.active, p)
  IN  IF EndsGame(R, p) \/ rest = <<>>
      THEN NoRoom
      ELSE [R EXCEPT !.active = rest, !.owner = rest[1]]

RoomAfter(R, p, disconnected) ==
  LET rest == ShiftRemove(R.active, p)
  IN  IF EndsGame(R, p) \/ rest = <<>>
      THEN NoRoom
      ELSE [R EXCEPT
              !.active = rest,
              !.reservations = IF disconnected /\ R.started
                               THEN @ \cup {p} ELSE @ \ {p},
              !.owner = IF R.owner = p THEN rest[1] ELSE @,
              !.generation = IF R.owner = p THEN @ + 1 ELSE @]

\* Mutant of LeftRooms: an explicit leave revokes this room's seat only.
LeftRoomsHereOnly(rs, p, r, disconnected) ==
  [x \in Room |-> IF x = r THEN RoomAfter(rs[x], p, disconnected) ELSE rs[x]]

LeftRooms(rs, p, r, disconnected) ==
  [x \in Room |->
     LET R == IF disconnected THEN rs[x] ELSE Revoked(rs[x], {p})
     IN  IF x = r THEN RoomAfter(R, p, disconnected) ELSE R]

\* Mutant of LeftPlayers: the players of a lost host are not released.
LeftPlayersAlone(ps, rs, p, r) == [ps EXCEPT ![p].room = None]

LeftPlayers(ps, rs, p, r) ==
  [q \in Account |->
     IF \/ q = p
        \/ r # None /\ EndsGame(rs[r], p) /\ q \in Members(rs[r].active)
     THEN [ps[q] EXCEPT !.room = None]
     ELSE ps[q]]

\* The socket the account points at; receive() hears it until it is closing.
Current(c, p) == conns[c].player = p /\ players[p].conn = c
Speaks(c, p) == conns[c].state = "open" /\ Current(c, p)

\* save_account() may fail when there is a store, and does nothing without.
Saves == IF StoreEnabled THEN BOOLEAN ELSE {FALSE}
Saved(p, saved) == files' = IF saved THEN files \cup {p} ELSE files

-----------------------------------------------------------------------------
\* Sockets

Connect(c) ==
  /\ conns[c].state = "absent"
  /\ conns' = [conns EXCEPT ![c] = [state |-> "open", player |-> None]]
  /\ UNCHANGED <<players, rooms, files, eligible>>

\* A rate limit, an oversized frame or a full output queue, at any time.
CloseSocket(c) ==
  /\ conns[c].state = "open"
  /\ conns' = [conns EXCEPT ![c].state = "closing"]
  /\ UNCHANGED <<players, rooms, files, eligible>>

\* The connection task ends with disconnect(), whatever ended it.
Disconnect(c) ==
  /\ conns[c].state # "absent"
  /\ conns' = [conns EXCEPT ![c] = NoConn]
  /\ \/ \E p \in Account :
          /\ Current(c, p)
          /\ players' = [LeftPlayers(players, rooms, p, players[p].room)
                           EXCEPT ![p].conn = None, ![p].status = "recent"]
          /\ rooms' = LeftRooms(rooms, p, players[p].room, TRUE)
     \/ /\ \A p \in Account : ~Current(c, p)
        /\ UNCHANGED <<players, rooms>>
  /\ UNCHANGED <<files, eligible>>

-----------------------------------------------------------------------------
\* authenticate

Bind(ps, p, c) == [ps EXCEPT ![p].conn = c, ![p].status = "online"]

\* No credentials: a new account, unless there are maxAccounts in RAM.
Register(c, p, saved) ==
  /\ conns[c] = [state |-> "open", player |-> None]
  /\ players[p].status = "absent" /\ p \notin files
  /\ Cardinality(Present(KeptPlayers)) < MaxAccounts
  /\ players' = Bind(KeptPlayers, p, c)
  /\ rooms' = KeptRooms
  /\ conns' = [conns EXCEPT ![c].player = p]
  /\ Saved(p, saved)
  /\ UNCHANGED eligible

\* Wrong or expired credentials, or too many accounts, close the socket; an
\* account file that cannot be read leaves it open for another attempt.
AuthRefused(c, state) ==
  /\ conns[c] = [state |-> "open", player |-> None]
  /\ players' = KeptPlayers
  /\ rooms' = KeptRooms
  /\ conns' = [conns EXCEPT ![c].state = state]
  /\ UNCHANGED <<files, eligible>>

\* Mutants of Reconnect: the old socket is left alone; every room is left.
ReconnectBesideOld(c, p, saved) ==
  /\ conns[c] = [state |-> "open", player |-> None]
  /\ KeptPlayers[p].status # "absent"
  /\ players' = Bind(KeptPlayers, p, c)
  /\ rooms' = KeptRooms
  /\ conns' = [conns EXCEPT ![c].player = p]
  /\ Saved(p, saved)
  /\ UNCHANGED eligible
ReconnectLeavingAll(c, p, saved) ==
  LET r == players[p].room
      old == players[p].conn
  IN
  /\ conns[c] = [state |-> "open", player |-> None]
  /\ KeptPlayers[p].status # "absent"
  /\ players' = Bind(LeftPlayers(KeptPlayers, KeptRooms, p, r), p, c)
  /\ rooms' = LeftRooms(KeptRooms, p, r, TRUE)
  /\ conns' = [x \in Conn |->
                 IF x = c THEN [conns[c] EXCEPT !.player = p]
                 ELSE IF x = old THEN [conns[x] EXCEPT !.state = "closing"]
                 ELSE conns[x]]
  /\ Saved(p, saved)
  /\ UNCHANGED eligible

\* An account still in RAM.  It leaves a fixed game, which it must re-enter,
\* but keeps any other room; its old socket is closed.
Reconnect(c, p, saved) ==
  LET r == players[p].room
      leaves == r # None /\ rooms[r].started /\ rooms[r].fixed
      old == players[p].conn
  IN
  /\ conns[c] = [state |-> "open", player |-> None]
  /\ KeptPlayers[p].status # "absent"
  /\ players' = Bind(IF leaves THEN LeftPlayers(KeptPlayers, KeptRooms, p, r)
                     ELSE KeptPlayers, p, c)
  /\ rooms' = IF leaves THEN LeftRooms(KeptRooms, p, r, TRUE) ELSE KeptRooms
  /\ conns' = [x \in Conn |->
                 IF x = c THEN [conns[c] EXCEPT !.player = p]
                 ELSE IF x = old THEN [conns[x] EXCEPT !.state = "closing"]
                 ELSE conns[x]]
  /\ Saved(p, saved)
  /\ UNCHANGED eligible

\* An account read from its file.  The key in RAM is compared exactly, the
\* file name in lower case: another spelling misses the account in RAM and
\* its fresh copy replaces it.
Reload(c, p, exact, saved) ==
  /\ conns[c] = [state |-> "open", player |-> None]
  /\ p \in files
  /\ exact => KeptPlayers[p].status = "absent"
  /\ players' = Bind([KeptPlayers EXCEPT ![p] = NoPlayer], p, c)
  /\ rooms' = KeptRooms
  /\ conns' = [conns EXCEPT ![c].player = p]
  /\ Saved(p, saved)
  /\ UNCHANGED eligible

\* changeName and setPushDevice write the account's file again.
SaveAccount(c, p) ==
  /\ Speaks(c, p) /\ StoreEnabled
  /\ files' = files \cup {p}
  /\ UNCHANGED <<players, conns, rooms, eligible>>

-----------------------------------------------------------------------------
\* Rooms

CreateRoom(c, p, r, max) ==
  /\ Speaks(c, p)
  /\ players[p].room = None
  /\ ~rooms[r].live
  /\ Cardinality(LiveRooms) < MaxRooms
  /\ rooms' = [rooms EXCEPT ![r] =
                 [NoRoom EXCEPT !.live = TRUE, !.owner = p, !.max = max,
                                !.active = <<p>>]]
  /\ players' = [players EXCEPT ![p].room = r]
  /\ eligible' = [eligible EXCEPT ![r] = {}]
  /\ UNCHANGED <<conns, files>>

\* enter(), with the right password; MaxGeneration leaves every member of
\* the room one possible change of host.
EnterRoom(c, p, r) ==
  LET R == rooms[r] IN
  /\ Speaks(c, p)
  /\ players[p].room = None
  /\ R.live
  /\ IF R.started THEN Rejoin(R, p) ELSE ~R.closed
  /\ Len(R.active) < R.max
  /\ R.generation + Len(R.active) < MaxGeneration
  /\ rooms' = [rooms EXCEPT ![r].active = Append(@, p),
                            ![r].reservations = @ \ {p}]
  /\ players' = [players EXCEPT ![p].room = r]
  /\ UNCHANGED <<conns, files, eligible>>

LeaveRoom(c, p) ==
  /\ Speaks(c, p)
  /\ players' = LeftPlayers(players, rooms, p, players[p].room)
  /\ rooms' = LeftRooms(rooms, p, players[p].room, FALSE)
  /\ eligible' = [r \in Room |-> IF rooms[r].fixed THEN eligible[r]
                                 ELSE eligible[r] \ {p}]
  /\ UNCHANGED <<conns, files>>

\* Mutant of UpdateRoom: the room may shrink below its members.
UpdateRoomAnySize(c, p, max, closed) ==
  LET r == players[p].room IN
  /\ Speaks(c, p)
  /\ r # None
  /\ rooms[r].owner = p /\ ~rooms[r].started
  /\ rooms' = [rooms EXCEPT ![r].max = max, ![r].closed = closed]
  /\ UNCHANGED <<players, conns, files, eligible>>

UpdateRoom(c, p, max, closed) ==
  LET r == players[p].room IN
  /\ Speaks(c, p)
  /\ r # None
  /\ rooms[r].owner = p /\ ~rooms[r].started
  /\ max >= Len(rooms[r].active)
  /\ rooms' = [rooms EXCEPT ![r].max = max, ![r].closed = closed]
  /\ UNCHANGED <<players, conns, files, eligible>>

StartGame(c, p, fixed, hostMigration) ==
  LET r == players[p].room
      present == Members(rooms[r].active)
  IN
  /\ Speaks(c, p)
  /\ r # None
  /\ rooms[r].owner = p /\ ~rooms[r].started
  /\ rooms' = [rooms EXCEPT
                 ![r].started = TRUE,
                 ![r].fixed = fixed,
                 ![r].migration = fixed /\ hostMigration,
                 ![r].players = IF fixed THEN present ELSE @]
  /\ eligible' = [eligible EXCEPT ![r] = present]
  /\ UNCHANGED <<players, conns, files>>

-----------------------------------------------------------------------------
\* Time, maintenance and restart

\* accountTtlMs has passed since p went offline.
Age(p) ==
  /\ players[p].status = "recent"
  /\ players' = [players EXCEPT ![p].status = "due"]
  /\ UNCHANGED <<conns, rooms, files, eligible>>

\* The maintenance tick closes the sockets whose authentication, idle or
\* heartbeat time is up, then expires accounts.
Sweep(overdue) ==
  /\ conns' = [c \in Conn |-> IF c \in overdue
                              THEN [conns[c] EXCEPT !.state = "closing"]
                              ELSE conns[c]]
  /\ players' = KeptPlayers
  /\ rooms' = KeptRooms
  /\ UNCHANGED <<files, eligible>>

\* The process ends, by crash or shutdown, and starts again: RAM is gone.
Restart ==
  /\ players' = [p \in Account |-> NoPlayer]
  /\ conns' = [c \in Conn |-> NoConn]
  /\ rooms' = [r \in Room |-> NoRoom]
  /\ eligible' = [r \in Room |-> {}]
  /\ UNCHANGED files

SomeSweep == \E overdue \in SUBSET {c \in Conn : conns[c].state = "open"} :
               Sweep(overdue)

Next ==
  \/ \E c \in Conn : Connect(c) \/ CloseSocket(c) \/ Disconnect(c)
  \/ \E c \in Conn, state \in {"open", "closing"} : AuthRefused(c, state)
  \/ \E c \in Conn, p \in Account, saved \in Saves :
       \/ Register(c, p, saved)
       \/ Reconnect(c, p, saved)
       \/ \E exact \in {TRUE, ~AnyCase} : Reload(c, p, exact, saved)
  \/ \E c \in Conn, p \in Account :
       \/ SaveAccount(c, p)
       \/ LeaveRoom(c, p)
       \/ \E r \in Room : EnterRoom(c, p, r) \/ \E max \in RoomSizes : CreateRoom(c, p, r, max)
       \/ \E max \in RoomSizes, closed \in BOOLEAN : UpdateRoom(c, p, max, closed)
       \/ \E fixed, hostMigration \in BOOLEAN : StartGame(c, p, fixed, hostMigration)
  \/ \E p \in Account : Age(p)
  \/ SomeSweep
  \/ Restart

Spec == Init /\ [][Next]_vars

\* Time passes and the maintenance timer fires.
Fairness ==
  /\ \A p \in Account : WF_vars(Age(p))
  /\ WF_vars(SomeSweep)

FairSpec == Spec /\ Fairness

-----------------------------------------------------------------------------
\* Properties

\* An account is in a room's active list exactly when the account's own
\* record names that room: enter, leave, auth and disconnect write both
\* sides, and every broadcast filters on their agreement.
MembershipAgrees ==
  \A p \in Account, r \in Room :
    p \in Members(rooms[r].active) <=> players[p].room = r

\* No room outlives its last member, nobody is listed twice, the room never
\* holds more than maxPlayers, and the host is always the member who has been
\* in it longest, through any mix of departures, reconnects and updateRoom.
HostIsSenior ==
  \A r \in Room : rooms[r].live =>
    /\ rooms[r].active # <<>>
    /\ Distinct(rooms[r].active)
    /\ rooms[r].owner = rooms[r].active[1]
    /\ Len(rooms[r].active) <= rooms[r].max

\* One live socket per account: an authenticated socket that is not closing
\* is the one its account points at, and an account points only at a socket
\* of its own (auth replaces, disconnect of a replaced socket does nothing).
OneLiveSocket ==
  /\ \A c \in Conn : conns[c].state = "open" /\ conns[c].player # None =>
       players[conns[c].player].conn = c
  /\ \A p \in Account : players[p].conn # None =>
       /\ conns[players[p].conn].state # "absent"
       /\ conns[players[p].conn].player = p

\* Only an account with a socket holds a room or is safe from expiry: the
\* departures that disconnect and the release of a lost host's players make.
OfflineHoldsNothing ==
  \A p \in Account :
    /\ players[p].conn # None <=> players[p].status = "online"
    /\ players[p].room # None => players[p].status = "online"

\* A started game is closed to everybody who was not in it at the start, and,
\* unless its roster is fixed, to everybody who has left on request since;
\* reservations (disconnect) never seat anybody else.
StartersOnly ==
  \A r \in Room : rooms[r].started =>
    /\ Members(rooms[r].active) \cup rooms[r].reservations \subseteq eligible[r]
    /\ rooms[r].fixed => rooms[r].players = eligible[r]

\* A seat is held for somebody: accounts of a fixed roster are never expired
\* while their game runs, an expired account leaves no reservation behind, and
\* nobody holds a reservation in the room he is in.
SeatsAreHeld ==
  \A r \in Room :
    /\ rooms[r].players \cup rooms[r].reservations \subseteq Present(players)
    /\ rooms[r].reservations \cap Members(rooms[r].active) = {}

\* A replaced socket costs no membership outside a fixed game: when the
\* account gets another live socket it is still in the same room.
ReplacementKeepsRoom ==
  [][\A p \in Account :
       players[p].conn # None /\ players'[p].conn \notin {None, players[p].conn} =>
         \/ players'[p].room = players[p].room
         \/ rooms[players[p].room].fixed]_vars

\* Members keep their places: whoever was ahead of another member stays ahead
\* while both remain, so the host is the most senior by time, not just the
\* head of a list that removals reorder.
Before(s, p, q) == \E i, j \in DOMAIN s : i < j /\ s[i] = p /\ s[j] = q
SeniorityKept ==
  [][\A r \in Room, p, q \in Account :
       /\ Before(rooms[r].active, p, q)
       /\ {p, q} \subseteq Members(rooms'[r].active)
       => Before(rooms'[r].active, p, q)]_vars

\* With a fixed roster and no migration the first host is the host for life:
\* a step either keeps him or ends the game, and then nobody is left in it.
HostForLife ==
  [][\A r \in Room : rooms[r].fixed /\ ~rooms[r].migration =>
       \/ rooms'[r].live /\ rooms'[r].owner = rooms[r].owner
       \/ ~rooms'[r].live /\ \A p \in Account : players'[p].room # r]_vars

\* What only the maintenance tick does: other steps also close one socket or
\* expire accounts.
Tick ==
  /\ SomeSweep
  /\ \A c \in Conn : ~CloseSocket(c) /\ ~AuthRefused(c, "open")
                     /\ ~AuthRefused(c, "closing")

\* README.md:393: membership is released when the connection closes, or by
\* the next maintenance tick if the socket is still closing.  sweep() only
\* closes sockets; it releases nobody who is seated through a closing one, and
\* MCRoomsClosing.cfg refutes this.
Seats(c) == {p \in Account : players[p].conn = c}
ClosingReleased ==
  [][Tick => \A c \in Conn : conns[c].state = "closing" =>
       \A p \in Seats(c) : players'[p].room = None]_vars

\* An account that stays away is forgotten, unless a fixed game holds its
\* seat: expire() runs with every maintenance tick.
AbandonedAccountsExpire ==
  \A p \in Account :
    players[p].status \in {"recent", "due"} ~>
      \/ players[p].status \notin {"recent", "due"}
      \/ \E r \in Room : rooms[r].live /\ rooms[r].fixed /\ p \in rooms[r].players
=============================================================================
