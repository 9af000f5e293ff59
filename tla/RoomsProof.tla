----------------------------- MODULE RoomsProof -----------------------------
(***************************************************************************)
(* The safety invariants of Rooms, for every number of accounts, sockets   *)
(* and rooms and every value of the limits.                                *)
(***************************************************************************)
EXTENDS Rooms, TLAPS

-----------------------------------------------------------------------------
\* The operations of IndexSet, for elements of any set.

\* shift_remove takes exactly one member out of a list without repetition and
\* leaves the head where it is, unless the head is the one who goes.
LEMMA ShiftRemoveFacts ==
  ASSUME NEW S, NEW s \in Seq(S), NEW p \in S, Distinct(s)
  PROVE  /\ ShiftRemove(s, p) \in Seq(S)
         /\ Distinct(ShiftRemove(s, p))
         /\ Members(ShiftRemove(s, p)) = Members(s) \ {p}
         /\ Len(ShiftRemove(s, p)) <= Len(s)
         /\ s # <<>> /\ s[1] # p =>
              ShiftRemove(s, p) # <<>> /\ ShiftRemove(s, p)[1] = s[1]
<1>1. CASE p \notin Members(s)
  BY <1>1 DEF ShiftRemove, Members
<1>2. CASE p \in Members(s)
  <2> DEFINE k == CHOOSE i \in DOMAIN s : s[i] = p
             t == [i \in 1 .. Len(s) - 1 |-> IF i < k THEN s[i] ELSE s[i + 1]]
  <2>1. k \in 1 .. Len(s) /\ s[k] = p
    BY <1>2 DEF Members
  <2> HIDE DEF k
  <2>2. ShiftRemove(s, p) = t
    BY <1>2 DEF ShiftRemove, k
  <2>3. t \in Seq(S) /\ Len(t) = Len(s) - 1 /\ DOMAIN t = 1 .. Len(s) - 1
    BY <2>1
  <2>4. \A i \in DOMAIN t : t[i] = IF i < k THEN s[i] ELSE s[i + 1]
    OBVIOUS
  <2> HIDE DEF t
  <2>5. \A i \in DOMAIN s : s[i] = p => i = k
    BY <2>1 DEF Distinct
  <2>6. Distinct(t)
    BY <2>1, <2>3, <2>4 DEF Distinct
  <2>7. Members(t) = Members(s) \ {p}
    <3>1. ASSUME NEW i \in DOMAIN t PROVE t[i] \in Members(s) \ {p}
      BY <2>1, <2>3, <2>4, <2>5 DEF Members
    <3>2. ASSUME NEW i \in DOMAIN s, s[i] # p PROVE s[i] \in Members(t)
      <4>1. CASE i < k
        BY <2>1, <2>3, <2>4, <3>2, <4>1 DEF Members
      <4>2. CASE i > k
        <5>1. i - 1 \in DOMAIN t /\ t[i - 1] = s[i]
          BY <2>1, <2>3, <2>4, <3>2, <4>2
        <5>2. QED BY <5>1 DEF Members
      <4>3. QED BY <2>1, <3>2, <4>1, <4>2
    <3>3. QED BY <3>1, <3>2 DEF Members
  <2>8. s[1] # p => t # <<>> /\ t[1] = s[1]
    BY <2>1, <2>3, <2>4
  <2>9. QED BY <2>2, <2>3, <2>6, <2>7, <2>8
<1>3. QED BY <1>1, <1>2

\* shift_remove keeps the order of the others.
LEMMA ShiftRemoveOrder ==
  ASSUME NEW S, NEW s \in Seq(S), NEW p \in S, Distinct(s),
         NEW i \in DOMAIN s, NEW j \in DOMAIN s, i < j, s[i] # p, s[j] # p
  PROVE  \E m, n \in DOMAIN ShiftRemove(s, p) :
           m < n /\ ShiftRemove(s, p)[m] = s[i] /\ ShiftRemove(s, p)[n] = s[j]
<1>1. CASE p \notin Members(s)
  BY <1>1 DEF ShiftRemove
<1>2. CASE p \in Members(s)
  <2> DEFINE k == CHOOSE x \in DOMAIN s : s[x] = p
             t == [x \in 1 .. Len(s) - 1 |-> IF x < k THEN s[x] ELSE s[x + 1]]
             m == IF i < k THEN i ELSE i - 1
             n == IF j < k THEN j ELSE j - 1
  <2>1. k \in 1 .. Len(s) /\ s[k] = p
    BY <1>2 DEF Members
  <2> HIDE DEF k
  <2>2. ShiftRemove(s, p) = t
    BY <1>2 DEF ShiftRemove, k
  <2>3. DOMAIN t = 1 .. Len(s) - 1
        /\ \A x \in 1 .. Len(s) - 1 : t[x] = IF x < k THEN s[x] ELSE s[x + 1]
    OBVIOUS
  <2> HIDE DEF t
  <2>4. i \in 1 .. Len(s) /\ j \in 1 .. Len(s) /\ i # k /\ j # k /\ Len(s) \in Nat
    BY <2>1
  <2>5. m \in DOMAIN t /\ n \in DOMAIN t /\ m < n
    BY <2>1, <2>3, <2>4
  <2>6. t[m] = s[i] /\ t[n] = s[j]
    BY <2>1, <2>3, <2>4, <2>5
  <2>7. QED BY <2>2, <2>5, <2>6
<1>3. QED BY <1>1, <1>2

\* Appending a newcomer keeps the list without repetition and its head first.
LEMMA AppendFacts ==
  ASSUME NEW S, NEW s \in Seq(S), NEW p \in S, Distinct(s), p \notin Members(s)
  PROVE  /\ Append(s, p) \in Seq(S)
         /\ Distinct(Append(s, p))
         /\ Members(Append(s, p)) = Members(s) \cup {p}
         /\ Append(s, p) # <<>>
         /\ s # <<>> => Append(s, p)[1] = s[1]
<1>1. /\ Append(s, p) \in Seq(S)
      /\ DOMAIN Append(s, p) = 1 .. Len(s) + 1
      /\ \A i \in 1 .. Len(s) : Append(s, p)[i] = s[i]
      /\ Append(s, p)[Len(s) + 1] = p
  OBVIOUS
<1>2. DOMAIN s = 1 .. Len(s)
  OBVIOUS
<1>3. Distinct(Append(s, p))
  BY <1>1, <1>2 DEF Distinct, Members
<1>4. Members(Append(s, p)) = Members(s) \cup {p}
  BY <1>1, <1>2 DEF Members
<1>5. QED BY <1>1, <1>3, <1>4

-----------------------------------------------------------------------------
\* The inductive invariant.  Its parts take the tables as arguments, because
\* authenticate applies expire(), leave() and the new binding one after the
\* other and the parts hold in between.

RoomShape(R) ==
  /\ ~R.live => R.active = <<>> /\ ~R.started
  /\ R.live => /\ R.active # <<>>
               /\ R.owner = R.active[1]
               /\ Len(R.active) <= R.max
  /\ Distinct(R.active)
  /\ ~R.started => R.reservations = {} /\ ~R.fixed
  /\ ~R.fixed => R.players = {}
  /\ R.reservations \cap Members(R.active) = {}

Seated(R, E) ==
  R.started => /\ Members(R.active) \cup R.reservations \subseteq E
               /\ R.fixed => R.players = E

Core(ps, rs, es) ==
  /\ ps \in [Account -> Player]
  /\ rs \in [Room -> RoomState]
  /\ es \in [Room -> SUBSET Account]
  /\ \A r \in Room :
       /\ RoomShape(rs[r])
       /\ Seated(rs[r], es[r])
       /\ \A p \in rs[r].players \cup rs[r].reservations : ps[p].status # "absent"
       /\ \A p \in Account : p \in Members(rs[r].active) <=> ps[p].room = r

Online(ps) ==
  \A p \in Account :
    /\ ps[p].conn # None <=> ps[p].status = "online"
    /\ ps[p].room # None => ps[p].status = "online"

Bound(ps, cs) ==
  /\ \A c \in Conn : cs[c].state = "open" /\ cs[c].player # None =>
       ps[cs[c].player].conn = c
  /\ \A p \in Account : ps[p].conn # None =>
       cs[ps[p].conn].state # "absent" /\ cs[ps[p].conn].player = p

IInv ==
  /\ Core(players, rooms, eligible)
  /\ Online(players)
  /\ Bound(players, conns)
  /\ conns \in [Conn -> Connection]
  /\ files \in SUBSET Account

-----------------------------------------------------------------------------
\* What expire(), leave() and a new binding preserve.

\* A deleted room is in order: it is what remains of a room nobody is in.
LEMMA NoRoomFacts ==
  /\ NoRoom \in RoomState
  /\ RoomShape(NoRoom)
  /\ Members(NoRoom.active) = {}
BY DEF NoRoom, RoomState, RoomShape, Members, Distinct

\* The entry of an account that is not in RAM.
LEMMA NoPlayerType == NoPlayer \in Player
BY DEF NoPlayer, Player

\* Losing reservations does not disturb a room.
LEMMA RevokeFacts ==
  ASSUME NEW R \in RoomState, NEW E, RoomShape(R), Seated(R, E), NEW S
  PROVE  /\ Revoked(R, S) \in RoomState
         /\ RoomShape(Revoked(R, S)) /\ Seated(Revoked(R, S), E)
         /\ Revoked(R, S).reservations = R.reservations \ S
         /\ Revoked(R, S).live = R.live /\ Revoked(R, S).owner = R.owner
         /\ Revoked(R, S).active = R.active /\ Revoked(R, S).players = R.players
         /\ Revoked(R, S).started = R.started /\ Revoked(R, S).fixed = R.fixed
         /\ Revoked(R, S).migration = R.migration
<1> DEFINE Q == Revoked(R, S)
<1>0. Q = [R EXCEPT !.reservations = R.reservations \ S]
  BY DEF Revoked
<1> HIDE DEF Q
<1>1. /\ Q.reservations = R.reservations \ S
      /\ Q.live = R.live /\ Q.owner = R.owner /\ Q.active = R.active
      /\ Q.players = R.players /\ Q.started = R.started /\ Q.fixed = R.fixed
      /\ Q.max = R.max /\ Q.migration = R.migration
  BY <1>0 DEF RoomState
<1>2. Q \in RoomState
  <2>1. R.reservations \ S \in SUBSET Account
    BY DEF RoomState
  <2>2. QED BY <1>0, <2>1 DEF RoomState
<1>3. RoomShape(Q) /\ Seated(Q, E)
  BY <1>1 DEF RoomShape, Seated
<1>4. QED BY <1>1, <1>2, <1>3 DEF Q

\* expire() removes only accounts that sit nowhere and hold no fixed seat.
LEMMA ExpireFacts ==
  ASSUME Core(players, rooms, eligible), Online(players)
  PROVE  /\ Core(KeptPlayers, KeptRooms, eligible)
         /\ Online(KeptPlayers)
         /\ \A p \in Account : /\ KeptPlayers[p].conn = players[p].conn
                               /\ KeptPlayers[p].room = players[p].room
         /\ \A r \in Room : /\ KeptRooms[r].started = rooms[r].started
                            /\ KeptRooms[r].fixed = rooms[r].fixed
<1> USE RoomsAssumption
<1>1. /\ KeptPlayers \in [Account -> Player]
      /\ \A p \in Account : KeptPlayers[p] = IF p \in Expired THEN NoPlayer ELSE players[p]
  BY NoPlayerType DEF KeptPlayers, Core
<1>2. \A p \in Expired :
        /\ p \in Account
        /\ players[p].status = "due" /\ players[p].conn = None /\ players[p].room = None
        /\ \A r \in Room : p \notin rooms[r].players
  BY DEF Expired, Expires, Online, Core, RoomShape, NoRoom, Player
<1>3. \A p \in Account : /\ KeptPlayers[p].conn = players[p].conn
                         /\ KeptPlayers[p].room = players[p].room
  BY <1>1, <1>2 DEF NoPlayer
<1>4. Online(KeptPlayers)
  BY <1>1, <1>2 DEF Online, NoPlayer
<1>5. ASSUME NEW r \in Room PROVE KeptRooms[r] = Revoked(rooms[r], Expired)
  BY DEF KeptRooms
<1>6. ASSUME NEW r \in Room
      PROVE  /\ KeptRooms[r] \in RoomState
             /\ RoomShape(KeptRooms[r])
             /\ Seated(KeptRooms[r], eligible[r])
             /\ KeptRooms[r].players = rooms[r].players
             /\ KeptRooms[r].reservations = rooms[r].reservations \ Expired
             /\ KeptRooms[r].active = rooms[r].active
             /\ KeptRooms[r].started = rooms[r].started
             /\ KeptRooms[r].fixed = rooms[r].fixed
  <2>1. rooms[r] \in RoomState /\ RoomShape(rooms[r]) /\ Seated(rooms[r], eligible[r])
    BY DEF Core
  <2>2. QED BY <1>5, <2>1, RevokeFacts
<1>7. \A r \in Room : \A p \in KeptRooms[r].players \cup KeptRooms[r].reservations :
        KeptPlayers[p].status # "absent"
  BY <1>1, <1>2, <1>6 DEF Core, RoomState
<1>8. KeptRooms \in [Room -> RoomState]
  BY <1>6 DEF KeptRooms
<1>9. QED BY <1>1, <1>3, <1>4, <1>6, <1>7, <1>8 DEF Core

\* After p has gone, the room he was in is either deleted or in order, with
\* its longest member as the host.
LEMMA DepartFacts ==
  ASSUME NEW R \in RoomState, NEW E \in SUBSET Account, RoomShape(R), Seated(R, E),
         NEW p \in Account, p \in Members(R.active), NEW d \in BOOLEAN
  PROVE  /\ RoomAfter(R, p, d) \in RoomState
         /\ RoomShape(RoomAfter(R, p, d))
         /\ Seated(RoomAfter(R, p, d), IF d \/ R.fixed THEN E ELSE E \ {p})
         /\ Members(RoomAfter(R, p, d).active) =
              IF EndsGame(R, p) THEN {} ELSE Members(R.active) \ {p}
         /\ RoomAfter(R, p, d).players \cup RoomAfter(R, p, d).reservations
              \subseteq R.players \cup R.reservations \cup {p}
<1> DEFINE Q == RoomAfter(R, p, d)
           F == IF d \/ R.fixed THEN E ELSE E \ {p}
<1> DEFINE rest == ShiftRemove(R.active, p)
           held == IF d /\ R.started THEN R.reservations \cup {p} ELSE R.reservations \ {p}
<1> SUFFICES /\ Q \in RoomState /\ RoomShape(Q) /\ Seated(Q, F)
             /\ Members(Q.active) = IF EndsGame(R, p) THEN {} ELSE Members(R.active) \ {p}
             /\ Q.players \cup Q.reservations \subseteq R.players \cup R.reservations \cup {p}
  OBVIOUS
<1>1. /\ R.active \in Seq(Account) /\ Distinct(R.active)
      /\ R.live /\ R.active # <<>> /\ R.owner = R.active[1] /\ R.owner \in Account
  BY DEF RoomState, RoomShape, Members
<1>2. /\ rest \in Seq(Account) /\ Distinct(rest)
      /\ Members(rest) = Members(R.active) \ {p}
      /\ Len(rest) <= Len(R.active)
      /\ R.owner # p => rest # <<>> /\ rest[1] = R.owner
  <2> DEFINE active == R.active
  <2>1. active \in Seq(Account) /\ Distinct(active)
    BY <1>1
  <2> HIDE DEF active
  <2>2. /\ ShiftRemove(active, p) \in Seq(Account) /\ Distinct(ShiftRemove(active, p))
        /\ Members(ShiftRemove(active, p)) = Members(active) \ {p}
        /\ Len(ShiftRemove(active, p)) <= Len(active)
        /\ active # <<>> /\ active[1] # p =>
             ShiftRemove(active, p) # <<>> /\ ShiftRemove(active, p)[1] = active[1]
    BY <2>1, ShiftRemoveFacts
  <2>3. QED BY <1>1, <2>2 DEF active
<1> HIDE DEF rest, Q, F
<1>3. CASE EndsGame(R, p) \/ rest = <<>>
  <2>1. Q = NoRoom
    BY <1>3 DEF RoomAfter, rest, Q
  <2>2. rest = <<>> => Members(rest) = {}
    BY DEF Members
  <2>3. Seated(Q, F) /\ Q.players \cup Q.reservations = {}
    BY <2>1 DEF Seated, NoRoom
  <2>4. QED BY <1>2, <1>3, <2>1, <2>2, <2>3, NoRoomFacts
<1>4. CASE ~(EndsGame(R, p) \/ rest = <<>>)
  <2>1. Q = [R EXCEPT !.active = rest, !.reservations = held,
                      !.owner = IF R.owner = p THEN rest[1] ELSE R.owner,
                      !.generation = IF R.owner = p THEN R.generation + 1
                                     ELSE R.generation]
    BY <1>4 DEF RoomAfter, rest, Q
  <2>2. rest[1] \in Account /\ held \in SUBSET Account
    BY <1>2, <1>4 DEF RoomState
  <2>3. /\ Q.active = rest /\ Q.reservations = held
        /\ Q.owner = (IF R.owner = p THEN rest[1] ELSE R.owner)
        /\ Q.live = R.live /\ Q.max = R.max /\ Q.players = R.players
        /\ Q.started = R.started /\ Q.fixed = R.fixed
    BY <2>1 DEF RoomState
  <2>4. Q \in RoomState
    <3> DEFINE host == IF R.owner = p THEN rest[1] ELSE R.owner
               gen == IF R.owner = p THEN R.generation + 1 ELSE R.generation
    <3>1. host \in Account /\ gen \in Nat
      BY <1>1, <2>2 DEF RoomState
    <3>2. Q = [R EXCEPT !.active = rest, !.reservations = held,
                        !.owner = host, !.generation = gen]
      BY <2>1
    <3> HIDE DEF host, gen, held
    <3>3. QED BY <1>2, <2>2, <3>1, <3>2 DEF RoomState
  <2>5. Q.owner = rest[1]
    BY <1>2, <2>3
  <2>6. Len(rest) <= R.max
    BY <1>1, <1>2 DEF RoomShape, RoomState
  <2>7. held \cap Members(rest) = {}
    BY <1>2 DEF RoomShape
  <2>8. RoomShape(Q)
    BY <1>1, <1>2, <1>4, <2>3, <2>5, <2>6, <2>7 DEF RoomShape
  <2>9. Seated(Q, F)
    BY <1>2, <2>3 DEF Seated, F
  <2>10. QED BY <1>2, <1>4, <2>3, <2>4, <2>8, <2>9 DEF RoomState
<1>5. QED BY <1>3, <1>4

\* The history after a departure: an explicit one ends every claim on a game
\* without a fixed roster.
StillEligible(rs, es, p, d) ==
  [x \in Room |-> IF d \/ rs[x].fixed THEN es[x] ELSE es[x] \ {p}]

\* leave() keeps the two sides of membership in agreement, everywhere: for the
\* one who goes, for the players a lost host releases, and in other rooms.
LEMMA LeaveFacts ==
  ASSUME NEW ps, NEW rs, NEW es, Core(ps, rs, es), Online(ps),
         NEW p \in Account, ps[p].status # "absent", NEW d \in BOOLEAN
  PROVE  /\ Core(LeftPlayers(ps, rs, p, ps[p].room), LeftRooms(rs, p, ps[p].room, d),
                 StillEligible(rs, es, p, d))
         /\ Online(LeftPlayers(ps, rs, p, ps[p].room))
         /\ LeftPlayers(ps, rs, p, ps[p].room)[p].room = None
         /\ \A q \in Account :
              /\ LeftPlayers(ps, rs, p, ps[p].room)[q].conn = ps[q].conn
              /\ LeftPlayers(ps, rs, p, ps[p].room)[q].status = ps[q].status
<1> USE RoomsAssumption
<1> DEFINE r == ps[p].room
           qs == LeftPlayers(ps, rs, p, r)
           ts == LeftRooms(rs, p, r, d)
           fs == StillEligible(rs, es, p, d)
           gone == IF r # None /\ EndsGame(rs[r], p)
                   THEN Members(rs[r].active) \cup {p} ELSE {p}
<1>1. /\ qs = [q \in Account |-> IF q \in gone THEN [ps[q] EXCEPT !.room = None] ELSE ps[q]]
      /\ ps \in [Account -> Player] /\ rs \in [Room -> RoomState]
      /\ es \in [Room -> SUBSET Account]
      /\ \A x \in Room : ts[x] = LET R == IF d THEN rs[x] ELSE Revoked(rs[x], {p})
                               IN  IF x = r THEN RoomAfter(R, p, d) ELSE R
      /\ \A x \in Room : fs[x] = IF d \/ rs[x].fixed THEN es[x] ELSE es[x] \ {p}
      /\ ts = [x \in Room |-> ts[x]] /\ fs = [x \in Room |-> fs[x]]
  BY DEF LeftPlayers, LeftRooms, StillEligible, Core
<1>0. ASSUME NEW x \in Room
      PROVE  /\ rs[x] \in RoomState /\ RoomShape(rs[x]) /\ Seated(rs[x], es[x])
             /\ es[x] \in SUBSET Account
             /\ Members(rs[x].active) \subseteq Account
             /\ \A q \in Account : q \in Members(rs[x].active) <=> ps[q].room = x
             /\ \A q \in rs[x].players \cup rs[x].reservations : ps[q].status # "absent"
             /\ rs[x].players \cup rs[x].reservations \subseteq Account
             /\ x # None
  BY <1>1 DEF Core, RoomState, Members
<1>a. r \in Room \cup {None}
  BY <1>1 DEF Player
<1> HIDE DEF gone, qs, ts, fs
<1>2. /\ qs \in [Account -> Player]
      /\ \A q \in Account : /\ qs[q].conn = ps[q].conn /\ qs[q].status = ps[q].status
                            /\ qs[q].room = IF q \in gone THEN None ELSE ps[q].room
  BY <1>1 DEF Player
<1>3. p \in gone
  BY DEF gone
<1>4. ASSUME NEW x \in Room
      PROVE  /\ ts[x] \in RoomState /\ RoomShape(ts[x]) /\ Seated(ts[x], fs[x])
             /\ Members(ts[x].active) = Members(rs[x].active) \ gone
             /\ ts[x].players \cup ts[x].reservations
                  \subseteq rs[x].players \cup rs[x].reservations \cup {p}
  <2>1. /\ rs[x] \in RoomState /\ RoomShape(rs[x]) /\ Seated(rs[x], es[x])
        /\ es[x] \in SUBSET Account
        /\ \A q \in Account : q \in Members(rs[x].active) <=> ps[q].room = x
        /\ fs[x] = IF d \/ rs[x].fixed THEN es[x] ELSE es[x] \ {p}
    BY <1>0, <1>1
  <2> DEFINE R == IF d THEN rs[x] ELSE Revoked(rs[x], {p})
  <2>2. /\ R \in RoomState /\ RoomShape(R) /\ Seated(R, es[x])
        /\ R.reservations = (IF d THEN rs[x].reservations ELSE rs[x].reservations \ {p})
        /\ R.live = rs[x].live /\ R.owner = rs[x].owner /\ R.active = rs[x].active
        /\ R.players = rs[x].players /\ R.started = rs[x].started
        /\ R.fixed = rs[x].fixed /\ R.migration = rs[x].migration
    <3>1. CASE d
      BY <2>1, <3>1
    <3>2. CASE ~d
      BY <2>1, <3>2, RevokeFacts
    <3>3. QED BY <3>1, <3>2
  <2>3. ts[x] = IF x = r THEN RoomAfter(R, p, d) ELSE R
    BY <1>1
  <2> HIDE DEF R
  <2>4. CASE x = r
    <3>1. p \in Members(R.active)
      BY <2>1, <2>2, <2>4
    <3>2. EndsGame(R, p) <=> EndsGame(rs[x], p)
      BY <2>2 DEF EndsGame
    <3>3. gone = IF EndsGame(R, p) THEN Members(R.active) \cup {p} ELSE {p}
      BY <2>2, <2>4, <3>2 DEF gone
    <3>4. fs[x] = IF d \/ R.fixed THEN es[x] ELSE es[x] \ {p}
      BY <2>1, <2>2
    <3>5. /\ ts[x] \in RoomState /\ RoomShape(ts[x]) /\ Seated(ts[x], fs[x])
          /\ Members(ts[x].active) = IF EndsGame(R, p) THEN {} ELSE Members(R.active) \ {p}
          /\ ts[x].players \cup ts[x].reservations \subseteq R.players \cup R.reservations \cup {p}
      <4>1. /\ RoomAfter(R, p, d) \in RoomState
            /\ RoomShape(RoomAfter(R, p, d))
            /\ Seated(RoomAfter(R, p, d), IF d \/ R.fixed THEN es[x] ELSE es[x] \ {p})
            /\ Members(RoomAfter(R, p, d).active) =
                 IF EndsGame(R, p) THEN {} ELSE Members(R.active) \ {p}
            /\ RoomAfter(R, p, d).players \cup RoomAfter(R, p, d).reservations
                 \subseteq R.players \cup R.reservations \cup {p}
        BY <2>1, <2>2, <3>1, DepartFacts
      <4>2. ts[x] = RoomAfter(R, p, d)
        BY <2>3, <2>4
      <4>3. QED BY <3>4, <4>1, <4>2
    <3>6. R.reservations \subseteq rs[x].reservations
      BY <2>2
    <3>7. QED BY <2>2, <3>3, <3>5, <3>6
  <2>5. CASE x # r
    <3>1. Members(rs[x].active) \cap gone = {}
      BY <1>0, <1>a, <2>5 DEF gone
    <3>2. Seated(R, fs[x])
      BY <2>1, <2>2, <3>1, <1>3 DEF Seated
    <3>3. QED BY <2>2, <2>3, <2>5, <3>1, <3>2
  <2>6. QED BY <2>4, <2>5
<1>5. ts \in [Room -> RoomState] /\ fs \in [Room -> SUBSET Account]
  <2>1. \A x \in Room : fs[x] \in SUBSET Account
    BY <1>0, <1>1
  <2>2. QED BY <1>1, <1>4, <2>1
<1>6. ASSUME NEW x \in Room, NEW q \in Account
      PROVE  q \in Members(ts[x].active) <=> qs[q].room = x
  <2>1. q \in Members(rs[x].active) <=> ps[q].room = x
    BY <1>0
  <2>2. Members(ts[x].active) = Members(rs[x].active) \ gone
    BY <1>4
  <2>3. qs[q].room = IF q \in gone THEN None ELSE ps[q].room
    BY <1>2
  <2>4. QED BY <1>0, <2>1, <2>2, <2>3
<1>7. ASSUME NEW x \in Room, NEW q \in ts[x].players \cup ts[x].reservations
      PROVE  qs[q].status # "absent"
  <2>1. ts[x].players \cup ts[x].reservations
          \subseteq rs[x].players \cup rs[x].reservations \cup {p}
    BY <1>4
  <2>2. \A a \in rs[x].players \cup rs[x].reservations :
          a \in Account /\ ps[a].status # "absent"
    BY <1>0
  <2>3. q \in Account /\ ps[q].status # "absent"
    BY <2>1, <2>2
  <2>4. QED BY <1>2, <2>3
<1>8. Core(qs, ts, fs)
  BY <1>2, <1>4, <1>5, <1>6, <1>7 DEF Core
<1>9. Online(qs)
  BY <1>2 DEF Online
<1>10. QED BY <1>2, <1>3, <1>8, <1>9 DEF qs, ts, fs

\* A binding moves no one: Core is about rooms and presence.
LEMMA BindFacts ==
  ASSUME NEW ps, NEW rs, NEW es, Core(ps, rs, es), Online(ps),
         NEW p \in Account, NEW c \in Conn
  PROVE  /\ Core(Bind(ps, p, c), rs, es)
         /\ Online(Bind(ps, p, c))
         /\ \A q \in Account : Bind(ps, p, c)[q].conn = IF q = p THEN c ELSE ps[q].conn
<1> USE RoomsAssumption
<1> DEFINE qs == Bind(ps, p, c)
<1>1. ps \in [Account -> Player] /\ c # None
  BY DEF Core
<1>2. /\ qs \in [Account -> Player]
      /\ \A q \in Account :
           /\ qs[q].conn = IF q = p THEN c ELSE ps[q].conn
           /\ qs[q].status = IF q = p THEN "online" ELSE ps[q].status
           /\ qs[q].room = ps[q].room
  BY <1>1 DEF Bind, Player
<1> HIDE DEF qs
<1>3. Core(qs, rs, es)
  <2>1. ASSUME NEW r \in Room, NEW q \in rs[r].players \cup rs[r].reservations
        PROVE  qs[q].status # "absent"
    <3>1. q \in Account /\ ps[q].status # "absent"
      BY DEF Core, RoomState
    <3>2. QED BY <1>2, <3>1
  <2>2. QED BY <1>2, <2>1 DEF Core
<1>4. Online(qs)
  BY <1>1, <1>2 DEF Online
<1>5. QED BY <1>2, <1>3, <1>4 DEF qs

-----------------------------------------------------------------------------
\* IInv is inductive.

\* The server starts with empty tables.
THEOREM InitIInv == Init => IInv
<1> USE RoomsAssumption
<1>1. SUFFICES ASSUME Init PROVE IInv
  OBVIOUS
<1>2. Core(players, rooms, eligible)
  <2>1. NoRoom.players \cup NoRoom.reservations = {} /\ ~NoRoom.started
    BY DEF NoRoom
  <2>2. NoPlayer.room = None
    BY DEF NoPlayer
  <2>3. \A r \in Room : rooms[r] = NoRoom
    BY <1>1 DEF Init
  <2>4. \A r \in Room : r # None
    OBVIOUS
  <2>5. /\ players \in [Account -> Player] /\ rooms \in [Room -> RoomState]
        /\ eligible \in [Room -> SUBSET Account]
    BY <1>1, NoRoomFacts, NoPlayerType DEF Init
  <2>6. \A p \in Account : players[p].room = None
    BY <1>1, <2>2 DEF Init
  <2>7. ASSUME NEW r \in Room
        PROVE  /\ RoomShape(rooms[r]) /\ Seated(rooms[r], eligible[r])
               /\ rooms[r].players \cup rooms[r].reservations = {}
               /\ Members(rooms[r].active) = {}
    BY <2>1, <2>3, NoRoomFacts DEF Seated
  <2>8. QED BY <2>4, <2>5, <2>6, <2>7 DEF Core
<1>3. Online(players) /\ Bound(players, conns)
  BY <1>1 DEF Init, Online, Bound, NoPlayer, NoConn
<1>4. conns \in [Conn -> Connection] /\ files \in SUBSET Account
  BY <1>1 DEF Init, NoConn, Connection
<1>5. QED BY <1>2, <1>3, <1>4 DEF IInv

\* Steps that touch sockets only.
LEMMA SocketSteps ==
  ASSUME IInv,
         \/ \E c \in Conn : Connect(c) \/ CloseSocket(c)
         \/ \E c \in Conn, p \in Account : SaveAccount(c, p)
  PROVE  IInv'
<1> USE RoomsAssumption
<1>1. /\ UNCHANGED <<players, rooms, eligible>>
      /\ conns \in [Conn -> Connection] /\ files \in SUBSET Account
      /\ players \in [Account -> Player]
      /\ Bound(players, conns)
  BY DEF IInv, Core, Connect, CloseSocket, SaveAccount
<1>2. /\ conns' \in [Conn -> Connection] /\ files' \in SUBSET Account
  BY <1>1 DEF Connection, Connect, CloseSocket, SaveAccount
<1>3. Bound(players', conns')
  <2>1. CASE \E c \in Conn : Connect(c)
    BY <1>1, <2>1 DEF Bound, Connect, Connection, Player
  <2>2. CASE \E c \in Conn : CloseSocket(c)
    BY <1>1, <2>2 DEF Bound, CloseSocket, Connection, Player
  <2>3. CASE \E c \in Conn, p \in Account : SaveAccount(c, p)
    BY <1>1, <2>3 DEF SaveAccount
  <2>4. QED BY <2>1, <2>2, <2>3
<1>4. Core(players', rooms', eligible') /\ Online(players')
  BY <1>1 DEF IInv
<1>5. QED BY <1>2, <1>3, <1>4 DEF IInv

\* Time passing for an offline account.
LEMMA AgeStep ==
  ASSUME IInv, NEW p \in Account, Age(p)
  PROVE  IInv'
<1> USE RoomsAssumption
<1>1. /\ players \in [Account -> Player]
      /\ players' = [players EXCEPT ![p].status = "due"]
      /\ players[p].status = "recent"
      /\ UNCHANGED <<conns, rooms, files, eligible>>
  BY DEF IInv, Core, Age
<1>2. /\ players' \in [Account -> Player]
      /\ \A q \in Account :
           /\ players'[q].conn = players[q].conn /\ players'[q].room = players[q].room
           /\ players'[q].status = IF q = p THEN "due" ELSE players[q].status
  BY <1>1 DEF Player
<1>3. Core(players', rooms', eligible')
  <2>1. ASSUME NEW r \in Room, NEW q \in rooms[r].players \cup rooms[r].reservations
        PROVE  players'[q].status # "absent"
    <3>1. q \in Account /\ players[q].status # "absent"
      BY DEF IInv, Core, RoomState
    <3>2. QED BY <1>2, <3>1
  <2>2. QED BY <1>1, <1>2, <2>1 DEF IInv, Core
<1>4. Online(players')
  BY <1>1, <1>2 DEF IInv, Online
<1>5. Bound(players', conns')
  BY <1>1, <1>2 DEF IInv, Bound, Connection
<1>6. QED BY <1>1, <1>3, <1>4, <1>5 DEF IInv

\* expire() with some sockets closed: the sweep, and a refused authentication.
LEMMA ExpireSteps ==
  ASSUME IInv,
         \/ SomeSweep
         \/ \E c \in Conn, state \in {"open", "closing"} : AuthRefused(c, state)
  PROVE  IInv'
<1>1. /\ players' = KeptPlayers /\ rooms' = KeptRooms
      /\ UNCHANGED <<files, eligible>>
  BY DEF SomeSweep, Sweep, AuthRefused
<1>2. /\ conns' \in [Conn -> Connection]
      /\ \A c \in Conn : /\ conns'[c].player = conns[c].player
                         /\ conns'[c].state = "open" => conns[c].state = "open"
                         /\ conns[c].state # "absent" => conns'[c].state # "absent"
  <2>1. conns \in [Conn -> Connection]
    BY DEF IInv
  <2>2. CASE SomeSweep
    BY <2>1, <2>2 DEF SomeSweep, Sweep, Connection
  <2>3. CASE \E c \in Conn, state \in {"open", "closing"} : AuthRefused(c, state)
    BY <2>1, <2>3 DEF AuthRefused, Connection
  <2>4. QED BY <2>2, <2>3
<1>3. /\ Core(KeptPlayers, KeptRooms, eligible) /\ Online(KeptPlayers)
      /\ \A p \in Account : KeptPlayers[p].conn = players[p].conn
  BY ExpireFacts DEF IInv
<1>4. Bound(players', conns')
  <2>1. /\ \A c \in Conn : conns[c].player \in Account \cup {None}
        /\ \A p \in Account : players[p].conn \in Conn \cup {None}
    BY DEF IInv, Core, Connection, Player
  <2>2. QED BY <1>1, <1>2, <1>3, <2>1 DEF IInv, Bound
<1>5. QED BY <1>1, <1>2, <1>3, <1>4 DEF IInv

\* The end of a socket, with or without an account bound to it.
LEMMA DisconnectStep ==
  ASSUME IInv, NEW c \in Conn, Disconnect(c)
  PROVE  IInv'
<1> USE RoomsAssumption
<1>1. /\ conns \in [Conn -> Connection] /\ players \in [Account -> Player]
      /\ conns[c].state # "absent"
      /\ conns' = [conns EXCEPT ![c] = NoConn]
      /\ UNCHANGED <<files, eligible>>
      /\ eligible \in [Room -> SUBSET Account] /\ files \in SUBSET Account
      /\ Core(players, rooms, eligible) /\ Online(players) /\ Bound(players, conns)
  BY DEF IInv, Core, Disconnect
<1>2. conns' \in [Conn -> Connection]
  BY <1>1 DEF Connection, NoConn
<1>4. /\ \A x \in Conn : conns'[x] = IF x = c THEN NoConn ELSE conns[x]
      /\ NoConn.state = "absent"
      /\ \A x \in Conn : conns[x].player \in Account \cup {None}
      /\ \A q \in Account : players[q].conn \in Conn \cup {None}
  BY <1>1 DEF Connection, NoConn, Player
<1>3. ASSUME NEW p \in Account, Current(c, p),
             players' = [LeftPlayers(players, rooms, p, players[p].room)
                           EXCEPT ![p].conn = None, ![p].status = "recent"],
             rooms' = LeftRooms(rooms, p, players[p].room, TRUE)
      PROVE  IInv'
  <2> DEFINE qs == LeftPlayers(players, rooms, p, players[p].room)
  <2>1. players[p].status # "absent"
    BY <1>1, <1>3 DEF Current, Online
  <2>2. StillEligible(rooms, eligible, p, TRUE) = eligible
    BY <1>1 DEF StillEligible
  <2>b. /\ Core(qs, LeftRooms(rooms, p, players[p].room, TRUE),
                StillEligible(rooms, eligible, p, TRUE))
        /\ Online(qs) /\ qs[p].room = None
        /\ \A q \in Account : qs[q].conn = players[q].conn /\ qs[q].status = players[q].status
    <3>1. PICK d \in BOOLEAN : d = TRUE
      OBVIOUS
    <3>2. /\ Core(qs, LeftRooms(rooms, p, players[p].room, d),
                  StillEligible(rooms, eligible, p, d))
          /\ Online(qs) /\ qs[p].room = None
          /\ \A q \in Account :
               qs[q].conn = players[q].conn /\ qs[q].status = players[q].status
      BY <1>1, <2>1, LeaveFacts
    <3>3. QED BY <3>1, <3>2
  <2>3. Core(qs, rooms', eligible)
    BY <1>3, <2>2, <2>b
  <2> HIDE DEF qs
  <2>4. players' = [qs EXCEPT ![p].conn = None, ![p].status = "recent"]
    BY <1>3 DEF qs
  <2>a. qs \in [Account -> Player]
    BY <2>3 DEF Core
  <2>5. /\ players' \in [Account -> Player]
        /\ \A q \in Account :
             /\ players'[q].conn = IF q = p THEN None ELSE qs[q].conn
             /\ players'[q].status = IF q = p THEN "recent" ELSE qs[q].status
             /\ players'[q].room = qs[q].room
    BY <2>4, <2>a DEF Player
  <2>6. Core(players', rooms', eligible')
    <3>1. ASSUME NEW r \in Room, NEW q \in rooms'[r].players \cup rooms'[r].reservations
          PROVE  players'[q].status # "absent"
      <4>1. q \in Account /\ qs[q].status # "absent"
        BY <2>3 DEF Core, RoomState
      <4>2. QED BY <2>5, <4>1
    <3>2. QED BY <1>1, <2>3, <2>5, <3>1 DEF Core
  <2>7. Online(players')
    BY <2>b, <2>5 DEF Online
  <2>8. Bound(players', conns')
    <3>1. conns[c].player = p /\ players[p].conn = c
      BY <1>3 DEF Current
    <3>2. \A q \in Account : players'[q].conn = IF q = p THEN None ELSE players[q].conn
      BY <2>b, <2>5
    <3>3. QED BY <1>1, <1>4, <3>1, <3>2 DEF Bound
  <2>9. QED BY <1>1, <1>2, <2>6, <2>7, <2>8 DEF IInv
<1>5. ASSUME \A p \in Account : ~Current(c, p), UNCHANGED <<players, rooms>>
      PROVE  IInv'
  <2>1. Bound(players', conns')
    BY <1>1, <1>4, <1>5 DEF Bound, Current
  <2>2. QED BY <1>1, <1>2, <1>5, <2>1 DEF IInv
<1>6. QED BY <1>3, <1>5 DEF Disconnect

\* A new binding and the closing of the account's old socket, if any, leave
\* every account with at most one live socket.
LEMMA ReplaceFacts ==
  ASSUME IInv, NEW c \in Conn, NEW p \in Account,
         conns[c] = [state |-> "open", player |-> None],
         NEW qs, \A q \in Account : qs[q].conn = IF q = p THEN c ELSE players[q].conn,
         NEW cs \in [Conn -> Connection],
         cs[c] = [state |-> "open", player |-> p],
         \A x \in Conn \ {c} :
           /\ cs[x].player = conns[x].player
           /\ cs[x].state = IF x = players[p].conn THEN "closing" ELSE conns[x].state
  PROVE  Bound(qs, cs)
<1> USE RoomsAssumption
<1>1. /\ \A x \in Conn : conns[x].player \in Account \cup {None}
      /\ \A q \in Account : players[q].conn \in Conn \cup {None}
      /\ Bound(players, conns)
      /\ conns[c].player = None /\ cs[c].player = p /\ cs[c].state = "open"
      /\ \A q \in Account : q # None
      /\ c # None
  BY DEF IInv, Core, Connection, Player
<1>2. ASSUME NEW x \in Conn, cs[x].state = "open", cs[x].player # None
      PROVE  qs[cs[x].player].conn = x
  BY <1>1, <1>2 DEF Bound
<1>3. ASSUME NEW q \in Account, qs[q].conn # None
      PROVE  cs[qs[q].conn].state # "absent" /\ cs[qs[q].conn].player = q
  <2>1. CASE q = p
    BY <1>1, <2>1
  <2>2. CASE q # p
    <3>1. /\ qs[q].conn = players[q].conn /\ players[q].conn \in Conn
          /\ conns[players[q].conn].state # "absent"
          /\ conns[players[q].conn].player = q
      BY <1>1, <1>3, <2>2 DEF Bound
    <3>2. players[q].conn # c
      BY <1>1, <3>1
    <3>3. QED BY <3>1, <3>2
  <2>3. QED BY <2>1, <2>2
<1>4. QED BY <1>2, <1>3 DEF Bound

\* What register and a load from disk have in common.
NewBinding(c, p) ==
  /\ conns[c] = [state |-> "open", player |-> None]
  /\ players[p].conn = None
  /\ players' = Bind(KeptPlayers, p, c)
  /\ rooms' = KeptRooms
  /\ conns' = [conns EXCEPT ![c].player = p]
  /\ eligible' = eligible
  /\ files' \in SUBSET Account

\* An account without a socket gets one, after expire().
LEMMA NewBindingFacts ==
  ASSUME IInv, NEW c \in Conn, NEW p \in Account, NewBinding(c, p)
  PROVE  IInv'
<1> USE RoomsAssumption
<1>1. /\ Core(KeptPlayers, KeptRooms, eligible) /\ Online(KeptPlayers)
      /\ \A q \in Account : KeptPlayers[q].conn = players[q].conn
      /\ conns \in [Conn -> Connection]
  BY ExpireFacts DEF IInv
<1>2. /\ Core(players', rooms', eligible') /\ Online(players')
      /\ \A q \in Account : players'[q].conn = IF q = p THEN c ELSE players[q].conn
  <2>1. /\ Core(Bind(KeptPlayers, p, c), KeptRooms, eligible)
        /\ Online(Bind(KeptPlayers, p, c))
        /\ \A q \in Account : Bind(KeptPlayers, p, c)[q].conn =
                                IF q = p THEN c ELSE KeptPlayers[q].conn
    BY <1>1, BindFacts
  <2>2. QED BY <1>1, <2>1 DEF NewBinding
<1>3. /\ conns' \in [Conn -> Connection]
      /\ conns'[c] = [state |-> "open", player |-> p]
      /\ \A x \in Conn \ {c} :
           /\ conns'[x].player = conns[x].player
           /\ conns'[x].state = IF x = players[p].conn THEN "closing" ELSE conns[x].state
  BY <1>1 DEF Connection, NewBinding
<1>4. Bound(players', conns')
  <2>1. conns[c] = [state |-> "open", player |-> None]
    BY DEF NewBinding
  <2>2. QED BY <1>2, <1>3, <2>1, ReplaceFacts
<1>5. files' \in SUBSET Account
  BY DEF NewBinding
<1>6. QED BY <1>2, <1>3, <1>4, <1>5 DEF IInv

\* New accounts and accounts read from disk.
LEMMA NewBindingSteps ==
  ASSUME IInv, ~AnyCase, NEW c \in Conn, NEW p \in Account, NEW saved \in BOOLEAN,
         \/ Register(c, p, saved)
         \/ \E exact \in {TRUE, ~AnyCase} : Reload(c, p, exact, saved)
  PROVE  IInv'
<1>1. /\ Core(KeptPlayers, KeptRooms, eligible) /\ Online(KeptPlayers)
      /\ \A q \in Account : KeptPlayers[q].conn = players[q].conn
  BY ExpireFacts DEF IInv
<1>2. /\ conns[c] = [state |-> "open", player |-> None]
      /\ rooms' = KeptRooms /\ eligible' = eligible
      /\ conns' = [conns EXCEPT ![c].player = p]
      /\ files' \in SUBSET Account
  BY DEF Register, Reload, Saved, IInv
<1>3. players[p].conn = None /\ KeptPlayers \in [Account -> Player]
  BY <1>1 DEF Register, Reload, IInv, Online, Core
<1>4. players' = Bind(KeptPlayers, p, c)
  <2>1. CASE Register(c, p, saved)
    BY <2>1 DEF Register
  <2>2. CASE \E exact \in {TRUE, ~AnyCase} : Reload(c, p, exact, saved)
    <3>1. /\ KeptPlayers[p].status = "absent"
          /\ players' = Bind([KeptPlayers EXCEPT ![p] = NoPlayer], p, c)
      BY <2>2 DEF Reload
    <3>2. KeptPlayers[p].conn = None /\ KeptPlayers[p].room = None
      BY <1>1, <3>1 DEF Online
    <3>3. KeptPlayers[p] = NoPlayer
      BY <1>3, <3>1, <3>2 DEF Player, NoPlayer
    <3>4. [KeptPlayers EXCEPT ![p] = NoPlayer] = KeptPlayers
      BY <1>3, <3>3
    <3>5. QED BY <3>1, <3>4
  <2>3. QED BY <2>1, <2>2
<1>5. QED BY <1>2, <1>3, <1>4, NewBindingFacts DEF NewBinding

\* A reconnect, which leaves a fixed game first.
LEMMA ReconnectStep ==
  ASSUME IInv, NEW c \in Conn, NEW p \in Account, NEW saved \in BOOLEAN,
         Reconnect(c, p, saved)
  PROVE  IInv'
<1> USE RoomsAssumption
<1> DEFINE r == players[p].room
           leaves == r # None /\ rooms[r].started /\ rooms[r].fixed
           qs == IF leaves THEN LeftPlayers(KeptPlayers, KeptRooms, p, r) ELSE KeptPlayers
           old == players[p].conn
<1>1. /\ Core(KeptPlayers, KeptRooms, eligible) /\ Online(KeptPlayers)
      /\ \A q \in Account : /\ KeptPlayers[q].conn = players[q].conn
                            /\ KeptPlayers[q].room = players[q].room
  BY ExpireFacts DEF IInv
<1>2. /\ conns[c] = [state |-> "open", player |-> None]
      /\ UNCHANGED eligible
      /\ conns \in [Conn -> Connection] /\ files \in SUBSET Account
      /\ files' \in SUBSET Account
      /\ KeptPlayers[p].status # "absent"
  BY DEF Reconnect, Saved, IInv
<1>3. /\ players' = Bind(qs, p, c)
      /\ rooms' = IF leaves THEN LeftRooms(KeptRooms, p, r, TRUE) ELSE KeptRooms
      /\ conns' = [x \in Conn |->
                     IF x = c THEN [conns[c] EXCEPT !.player = p]
                     ELSE IF x = old THEN [conns[x] EXCEPT !.state = "closing"]
                     ELSE conns[x]]
  BY DEF Reconnect
<1>4. /\ Core(qs, rooms', eligible) /\ Online(qs)
      /\ \A q \in Account : qs[q].conn = players[q].conn
  <2>1. CASE leaves
    <3>1. StillEligible(KeptRooms, eligible, p, TRUE) = eligible
      BY <1>1 DEF StillEligible, Core
    <3>2. PICK d \in BOOLEAN : d = TRUE
      OBVIOUS
    <3>3. /\ Core(LeftPlayers(KeptPlayers, KeptRooms, p, KeptPlayers[p].room),
                  LeftRooms(KeptRooms, p, KeptPlayers[p].room, d),
                  StillEligible(KeptRooms, eligible, p, d))
          /\ Online(LeftPlayers(KeptPlayers, KeptRooms, p, KeptPlayers[p].room))
          /\ \A q \in Account :
               LeftPlayers(KeptPlayers, KeptRooms, p, KeptPlayers[p].room)[q].conn
                 = KeptPlayers[q].conn
      BY <1>1, <1>2, LeaveFacts
    <3>4. KeptPlayers[p].room = r
      BY <1>1
    <3>5. QED BY <1>1, <1>3, <2>1, <3>1, <3>2, <3>3, <3>4
  <2>2. CASE ~leaves
    BY <1>1, <1>3, <2>2
  <2>3. QED BY <2>1, <2>2
<1> HIDE DEF qs, leaves
<1>5. /\ Core(players', rooms', eligible') /\ Online(players')
      /\ \A q \in Account : players'[q].conn = IF q = p THEN c ELSE players[q].conn
  <2>1. /\ Core(Bind(qs, p, c), rooms', eligible) /\ Online(Bind(qs, p, c))
        /\ \A q \in Account : Bind(qs, p, c)[q].conn = IF q = p THEN c ELSE qs[q].conn
    BY <1>4, BindFacts
  <2>2. QED BY <1>2, <1>3, <1>4, <2>1
<1>6. /\ conns' \in [Conn -> Connection]
      /\ conns'[c] = [state |-> "open", player |-> p]
      /\ \A x \in Conn \ {c} :
           /\ conns'[x].player = conns[x].player
           /\ conns'[x].state = IF x = players[p].conn THEN "closing" ELSE conns[x].state
  BY <1>2, <1>3 DEF Connection
<1>7. Bound(players', conns')
  BY <1>2, <1>5, <1>6, ReplaceFacts
<1>8. QED BY <1>2, <1>5, <1>6, <1>7 DEF IInv

\* One room changes, and p moves into it or stays: what such a step has to
\* establish.
LEMMA OneRoomFacts ==
  ASSUME IInv, NEW p \in Account, NEW r \in Room,
         NEW Q \in RoomState, NEW E \in SUBSET Account, NEW ps, NEW rs, NEW es,
         RoomShape(Q), Seated(Q, E),
         Q.players \cup Q.reservations
           \subseteq rooms[r].players \cup rooms[r].reservations \cup Members(Q.active),
         players[p].status = "online",
         Members(Q.active) = Members(rooms[r].active) \cup {p},
         players[p].room \in {None, r},
         ps = [players EXCEPT ![p].room = r],
         rs = [rooms EXCEPT ![r] = Q],
         es = [eligible EXCEPT ![r] = E]
  PROVE  Core(ps, rs, es) /\ Online(ps) /\ Bound(ps, conns)
<1> USE RoomsAssumption
<1>1. /\ players \in [Account -> Player] /\ rooms \in [Room -> RoomState]
      /\ eligible \in [Room -> SUBSET Account] /\ conns \in [Conn -> Connection]
      /\ Core(players, rooms, eligible) /\ Online(players) /\ Bound(players, conns)
  BY DEF IInv, Core
<1>2. /\ ps \in [Account -> Player]
      /\ \A q \in Account : /\ ps[q].conn = players[q].conn
                            /\ ps[q].status = players[q].status
                            /\ ps[q].room = IF q = p THEN r ELSE players[q].room
  BY <1>1 DEF Player
<1>3. /\ rs \in [Room -> RoomState] /\ es \in [Room -> SUBSET Account]
      /\ \A x \in Room : /\ rs[x] = IF x = r THEN Q ELSE rooms[x]
                         /\ es[x] = IF x = r THEN E ELSE eligible[x]
  BY <1>1
<1>4. Online(ps)
  BY <1>1, <1>2 DEF Online
<1>5. Bound(ps, conns)
  <2>1. \A c \in Conn : conns[c].player \in Account \cup {None}
    BY <1>1 DEF Connection
  <2>2. QED BY <1>1, <1>2, <2>1 DEF Bound
<1>6. ASSUME NEW q \in Account, q \in Members(Q.active)
      PROVE  players[q].status # "absent"
  <2>1. q # p => players[q].room = r
    BY <1>1, <1>6 DEF Core
  <2>2. QED BY <1>1, <2>1 DEF Online
<1>7. ASSUME NEW x \in Room, NEW q \in rs[x].players \cup rs[x].reservations
      PROVE  ps[q].status # "absent"
  <2>1. \A y \in Room : \A a \in rooms[y].players \cup rooms[y].reservations :
          a \in Account /\ players[a].status # "absent"
    BY <1>1 DEF Core, RoomState
  <2>2. Members(Q.active) \subseteq Account
    BY DEF Members, RoomState
  <2>3. q \in Account /\ players[q].status # "absent"
    BY <1>3, <1>6, <2>1, <2>2
  <2>4. QED BY <1>2, <2>3
<1>8. ASSUME NEW x \in Room, NEW q \in Account
      PROVE  q \in Members(rs[x].active) <=> ps[q].room = x
  <2>1. /\ q \in Members(rooms[x].active) <=> players[q].room = x
        /\ x # None
    BY <1>1 DEF Core
  <2>2. CASE x = r
    BY <1>2, <1>3, <2>1, <2>2
  <2>3. CASE x # r
    BY <1>2, <1>3, <2>1, <2>3
  <2>4. QED BY <2>2, <2>3
<1>9. ASSUME NEW x \in Room PROVE RoomShape(rs[x]) /\ Seated(rs[x], es[x])
  BY <1>1, <1>3 DEF Core
<1>10. Core(ps, rs, es)
  BY <1>2, <1>3, <1>7, <1>8, <1>9 DEF Core
<1>11. QED BY <1>4, <1>5, <1>10

\* The same, as a step: the changed room replaces the old one, and nobody
\* else moves.
Moves(p, r, Q, E) ==
  /\ players' = [players EXCEPT ![p].room = r]
  /\ rooms' = [rooms EXCEPT ![r] = Q]
  /\ eligible' = [eligible EXCEPT ![r] = E]
  /\ conns' = conns /\ files' = files

\* OneRoomFacts for the step that leads to the changed room.
LEMMA OneRoomStep ==
  ASSUME IInv, NEW p \in Account, NEW r \in Room,
         NEW Q \in RoomState, NEW E \in SUBSET Account,
         RoomShape(Q), Seated(Q, E),
         Q.players \cup Q.reservations
           \subseteq rooms[r].players \cup rooms[r].reservations \cup Members(Q.active),
         players[p].status = "online",
         Members(Q.active) = Members(rooms[r].active) \cup {p},
         players[p].room \in {None, r},
         Moves(p, r, Q, E)
  PROVE  IInv'
<1>1. Core(players', rooms', eligible') /\ Online(players') /\ Bound(players', conns')
  BY OneRoomFacts DEF Moves
<1>2. conns' \in [Conn -> Connection] /\ files' \in SUBSET Account
  BY DEF Moves, IInv
<1>3. QED BY <1>1, <1>2 DEF IInv

\* A socket that is heard belongs to an account that is online.
LEMMA SpeaksFacts ==
  ASSUME IInv, NEW c \in Conn, NEW p \in Account, Speaks(c, p)
  PROVE  players[p].status = "online"
BY RoomsAssumption DEF Speaks, Current, IInv, Online

\* A new room has its creator as its host and only member.
LEMMA CreateRoomStep ==
  ASSUME IInv, NEW c \in Conn, NEW p \in Account, NEW r \in Room,
         NEW max \in RoomSizes, CreateRoom(c, p, r, max)
  PROVE  IInv'
<1> DEFINE Q == [NoRoom EXCEPT !.live = TRUE, !.owner = p, !.max = max, !.active = <<p>>]
<1>1. /\ Q.live /\ Q.owner = p /\ Q.max = max /\ Q.active = <<p>>
      /\ Q.reservations = {} /\ Q.players = {} /\ ~Q.started /\ ~Q.fixed
      /\ Q \in RoomState
  <2>1. max \in Nat
    BY RoomsAssumption
  <2>2. <<p>> \in Seq(Account)
    OBVIOUS
  <2>3. /\ Q.live /\ Q.owner = p /\ Q.max = max /\ Q.active = <<p>>
        /\ Q.reservations = {} /\ Q.players = {} /\ ~Q.started /\ ~Q.fixed
    BY DEF NoRoom
  <2>4. NoRoom \in RoomState
    BY NoRoomFacts
  <2>5. QED BY <2>1, <2>2, <2>3, <2>4 DEF RoomState
<1>2. /\ players[p].room = None
      /\ eligible \in [Room -> SUBSET Account]
      /\ RoomShape(rooms[r]) /\ ~rooms[r].live
      /\ Moves(p, r, Q, {})
  BY DEF CreateRoom, IInv, Core, Moves
<1> HIDE DEF Q
<1>3. Members(Q.active) = {p} /\ Distinct(Q.active) /\ Len(Q.active) = 1
      /\ Q.active # <<>> /\ Q.active[1] = p
  BY <1>1 DEF Members, Distinct
<1>4. max >= 1
  BY RoomsAssumption
<1>5. RoomShape(Q) /\ Seated(Q, {})
  <2>1. max \in Nat
    BY RoomsAssumption
  <2>2. QED BY <1>1, <1>3, <1>4, <2>1 DEF RoomShape, Seated
<1>6. Members(rooms[r].active) = {}
  BY <1>2 DEF RoomShape, Members
<1>7. players[p].status = "online"
  BY SpeaksFacts DEF CreateRoom
<1>8. QED BY <1>1, <1>2, <1>3, <1>5, <1>6, <1>7, OneRoomStep

\* Whoever enters goes to the end of the list, and only a starter enters a
\* started room.
LEMMA EnterRoomStep ==
  ASSUME IInv, NEW c \in Conn, NEW p \in Account, NEW r \in Room, EnterRoom(c, p, r)
  PROVE  IInv'
<1> USE RoomsAssumption
<1> DEFINE R == rooms[r]
           Q == [R EXCEPT !.active = Append(R.active, p),
                          !.reservations = R.reservations \ {p}]
<1>1. /\ R \in RoomState /\ RoomShape(R) /\ Seated(R, eligible[r])
      /\ eligible[r] \in SUBSET Account
      /\ players[p].room = None /\ p \notin Members(R.active)
      /\ rooms \in [Room -> RoomState] /\ eligible \in [Room -> SUBSET Account]
  BY DEF IInv, Core, EnterRoom
<1>2. /\ R.live /\ (R.started => Rejoin(R, p)) /\ Len(R.active) < R.max
  BY DEF EnterRoom
<1>3. Moves(p, r, Q, eligible[r])
  BY <1>1 DEF EnterRoom, Moves
<1>4. /\ R.active \in Seq(Account) /\ Distinct(R.active) /\ R.active # <<>>
  BY <1>1, <1>2 DEF RoomState, RoomShape
<1>5. /\ Append(R.active, p) \in Seq(Account)
      /\ Distinct(Append(R.active, p))
      /\ Members(Append(R.active, p)) = Members(R.active) \cup {p}
      /\ Append(R.active, p) # <<>>
      /\ Append(R.active, p)[1] = R.active[1]
      /\ Len(Append(R.active, p)) = Len(R.active) + 1
  BY <1>1, <1>4, AppendFacts
<1>6. /\ Q.active = Append(R.active, p) /\ Q.reservations = R.reservations \ {p}
      /\ Q.live = R.live /\ Q.owner = R.owner /\ Q.max = R.max /\ Q.players = R.players
      /\ Q.started = R.started /\ Q.fixed = R.fixed
  BY <1>1 DEF RoomState
<1>7. Q \in RoomState
  <2>1. R.reservations \ {p} \in SUBSET Account
    BY <1>1 DEF RoomState
  <2>2. QED BY <1>1, <1>5, <2>1 DEF RoomState
<1> HIDE DEF Q
<1>8. RoomShape(Q)
  <2>1. Len(R.active) \in Nat /\ R.max \in Nat
    BY <1>1, <1>4 DEF RoomState
  <2>2. Q.reservations \cap Members(Q.active) = {}
    BY <1>1, <1>5, <1>6 DEF RoomShape
  <2>3. QED BY <1>1, <1>2, <1>5, <1>6, <2>1, <2>2 DEF RoomShape
<1>9. Seated(Q, eligible[r])
  BY <1>1, <1>2, <1>5, <1>6 DEF Seated, Rejoin
<1>10. players[p].status = "online"
  BY SpeaksFacts DEF EnterRoom
<1>11. Members(Q.active) = Members(R.active) \cup {p}
  BY <1>5, <1>6
<1>12. Q.players \cup Q.reservations \subseteq R.players \cup R.reservations
  BY <1>6
<1>13. QED BY <1>1, <1>3, <1>7, <1>8, <1>9, <1>10, <1>11, <1>12, OneRoomStep

\* An explicit departure.
LEMMA LeaveRoomStep ==
  ASSUME IInv, NEW c \in Conn, NEW p \in Account, LeaveRoom(c, p)
  PROVE  IInv'
<1> DEFINE qs == LeftPlayers(players, rooms, p, players[p].room)
<1>1. /\ Core(players, rooms, eligible) /\ Online(players) /\ Bound(players, conns)
      /\ conns \in [Conn -> Connection] /\ files \in SUBSET Account
      /\ players \in [Account -> Player]
  BY DEF IInv, Core
<1>2. /\ players' = qs
      /\ rooms' = LeftRooms(rooms, p, players[p].room, FALSE)
      /\ eligible' = [r \in Room |-> IF rooms[r].fixed THEN eligible[r]
                                     ELSE eligible[r] \ {p}]
      /\ UNCHANGED <<conns, files>>
  BY DEF LeaveRoom
<1>3. StillEligible(rooms, eligible, p, FALSE) = eligible'
  BY <1>2 DEF StillEligible
<1>4. players[p].status # "absent"
  BY SpeaksFacts DEF LeaveRoom
<1>5. /\ Core(qs, LeftRooms(rooms, p, players[p].room, FALSE),
              StillEligible(rooms, eligible, p, FALSE))
      /\ Online(qs)
      /\ \A q \in Account : qs[q].conn = players[q].conn
  <2>1. PICK d \in BOOLEAN : d = FALSE
    OBVIOUS
  <2>2. /\ Core(qs, LeftRooms(rooms, p, players[p].room, d),
                StillEligible(rooms, eligible, p, d))
        /\ Online(qs)
        /\ \A q \in Account : qs[q].conn = players[q].conn
    BY <1>1, <1>4, LeaveFacts
  <2>3. QED BY <2>1, <2>2
<1> HIDE DEF qs
<1>6. Bound(players', conns')
  <2>1. \A x \in Conn : conns[x].player \in Account \cup {None}
    BY <1>1 DEF Connection
  <2>2. QED BY <1>1, <1>2, <1>5, <2>1 DEF Bound
<1>7. QED BY <1>1, <1>2, <1>3, <1>5, <1>6 DEF IInv

\* The host changes a room that has not started, without moving anybody.
LEMMA UpdateRoomStep ==
  ASSUME IInv, NEW c \in Conn, NEW p \in Account,
         NEW max \in RoomSizes, NEW closed \in BOOLEAN, UpdateRoom(c, p, max, closed)
  PROVE  IInv'
<1> USE RoomsAssumption
<1> DEFINE r == players[p].room
           R == rooms[r]
           Q == [R EXCEPT !.max = max, !.closed = closed]
<1>1. r \in Room
  BY DEF UpdateRoom, IInv, Core, Player
<1>2. /\ R \in RoomState /\ RoomShape(R) /\ Seated(R, eligible[r])
      /\ eligible[r] \in SUBSET Account /\ p \in Members(R.active)
      /\ players \in [Account -> Player]
      /\ rooms \in [Room -> RoomState] /\ eligible \in [Room -> SUBSET Account]
  BY <1>1 DEF IInv, Core
<1>3. /\ Q.active = R.active /\ Q.reservations = R.reservations /\ Q.max = max
      /\ Q.live = R.live /\ Q.owner = R.owner /\ Q.players = R.players
      /\ Q.started = R.started /\ Q.fixed = R.fixed /\ Q \in RoomState
  <2>1. max \in Nat
    OBVIOUS
  <2>2. QED BY <1>2, <2>1 DEF RoomState
<1>4. /\ players' = [players EXCEPT ![p].room = r]
      /\ eligible' = [eligible EXCEPT ![r] = eligible[r]]
  BY <1>1, <1>2 DEF UpdateRoom, Player
<1>5. rooms' = [rooms EXCEPT ![r] = Q] /\ conns' = conns /\ files' = files
  BY <1>1, <1>2 DEF UpdateRoom
<1>6. Len(R.active) <= max
  BY <1>2 DEF UpdateRoom, RoomState
<1> HIDE DEF Q
<1>7. RoomShape(Q) /\ Seated(Q, eligible[r])
  BY <1>2, <1>3, <1>6 DEF RoomShape, Seated
<1>8. players[p].status = "online"
  BY SpeaksFacts DEF UpdateRoom
<1>9. Members(Q.active) = Members(R.active) \cup {p}
  BY <1>2, <1>3
<1>10. Moves(p, r, Q, eligible[r])
  BY <1>4, <1>5 DEF Moves
<1>11. QED BY <1>1, <1>2, <1>3, <1>7, <1>8, <1>9, <1>10, OneRoomStep

\* The start makes the members of the moment the only ones who may return.
LEMMA StartGameStep ==
  ASSUME IInv, NEW c \in Conn, NEW p \in Account,
         NEW fixed \in BOOLEAN, NEW hostMigration \in BOOLEAN,
         StartGame(c, p, fixed, hostMigration)
  PROVE  IInv'
<1> USE RoomsAssumption
<1> DEFINE r == players[p].room
           R == rooms[r]
           present == Members(R.active)
           seats == IF fixed THEN present ELSE R.players
           migrates == fixed /\ hostMigration
           Q == [R EXCEPT !.started = TRUE, !.fixed = fixed,
                          !.migration = migrates, !.players = seats]
<1>1. r \in Room
  BY DEF StartGame, IInv, Core, Player
<1>2. /\ R \in RoomState /\ RoomShape(R) /\ ~R.started
      /\ p \in Members(R.active)
      /\ players \in [Account -> Player]
      /\ rooms \in [Room -> RoomState] /\ eligible \in [Room -> SUBSET Account]
  BY <1>1 DEF IInv, Core, StartGame
<1>3. present \in SUBSET Account /\ seats \in SUBSET Account /\ migrates \in BOOLEAN
  BY <1>2 DEF RoomState, Members
<1>4. /\ players' = [players EXCEPT ![p].room = r]
      /\ eligible' = [eligible EXCEPT ![r] = present]
      /\ conns' = conns /\ files' = files
  BY <1>1, <1>2 DEF StartGame, Player
<1>5. rooms' = [rooms EXCEPT ![r] = Q]
  BY <1>1, <1>2 DEF StartGame
<1> HIDE DEF seats, migrates
<1>6. /\ Q.active = R.active /\ Q.reservations = R.reservations /\ Q.max = R.max
      /\ Q.live = R.live /\ Q.owner = R.owner /\ Q.players = seats
      /\ Q.started /\ Q.fixed = fixed /\ Q \in RoomState
  BY <1>2, <1>3 DEF RoomState
<1> HIDE DEF Q
<1>7. R.live /\ R.reservations = {} /\ R.players = {}
  BY <1>2 DEF RoomShape, Members
<1>8. RoomShape(Q) /\ Seated(Q, present)
  BY <1>2, <1>6, <1>7 DEF RoomShape, Seated, seats
<1>9. players[p].status = "online"
  BY SpeaksFacts DEF StartGame
<1>10. Members(Q.active) = Members(R.active) \cup {p}
  BY <1>2, <1>6
<1>11. Q.players \cup Q.reservations \subseteq Members(Q.active)
  BY <1>6, <1>7 DEF seats
<1>12. Moves(p, r, Q, present)
  BY <1>4, <1>5 DEF Moves
<1>13. QED BY <1>1, <1>3, <1>6, <1>8, <1>9, <1>10, <1>11, <1>12, OneRoomStep

\* RAM starts empty again.
LEMMA RestartStep ==
  ASSUME IInv, Restart
  PROVE  IInv'
<1> USE RoomsAssumption
<1>1. /\ players' = [p \in Account |-> NoPlayer] /\ conns' = [c \in Conn |-> NoConn]
      /\ rooms' = [r \in Room |-> NoRoom] /\ eligible' = [r \in Room |-> {}]
      /\ files' = files
  BY DEF Restart
<1>2. /\ NoRoom.players \cup NoRoom.reservations = {} /\ ~NoRoom.started
      /\ NoPlayer.room = None
  BY DEF NoRoom, NoPlayer
<1>3. /\ players' \in [Account -> Player] /\ rooms' \in [Room -> RoomState]
      /\ eligible' \in [Room -> SUBSET Account]
      /\ \A p \in Account : players'[p].room = None
  BY <1>1, <1>2, NoRoomFacts, NoPlayerType
<1>4. ASSUME NEW r \in Room
      PROVE  /\ RoomShape(rooms'[r]) /\ Seated(rooms'[r], eligible'[r])
             /\ rooms'[r].players \cup rooms'[r].reservations = {}
             /\ Members(rooms'[r].active) = {} /\ r # None
  BY <1>1, <1>2, NoRoomFacts DEF Seated
<1>5. Core(players', rooms', eligible')
  BY <1>3, <1>4 DEF Core
<1>6. Online(players') /\ Bound(players', conns')
  BY <1>1 DEF Online, Bound, NoPlayer, NoConn
<1>7. conns' \in [Conn -> Connection] /\ files' \in SUBSET Account
  BY <1>1 DEF NoConn, Connection, IInv
<1>8. QED BY <1>5, <1>6, <1>7 DEF IInv

\* Every handler preserves IInv, as long as clients spell their playerId the
\* way the server gave it to them.
LEMMA NextIInv ==
  ASSUME ~AnyCase, IInv, [Next]_vars
  PROVE  IInv'
<1>1. CASE UNCHANGED vars
  BY <1>1 DEF vars, IInv, Core, RoomShape, Seated, Online, Bound
<1>2. ASSUME NEW c \in Conn, Connect(c) \/ CloseSocket(c) PROVE IInv'
  BY <1>2, SocketSteps
<1>3. ASSUME NEW c \in Conn, Disconnect(c) PROVE IInv'
  BY <1>3, DisconnectStep
<1>4. ASSUME NEW c \in Conn, NEW state \in {"open", "closing"}, AuthRefused(c, state)
      PROVE  IInv'
  BY <1>4, ExpireSteps
<1>5. ASSUME NEW c \in Conn, NEW p \in Account, NEW saved \in Saves,
             \/ Register(c, p, saved)
             \/ Reconnect(c, p, saved)
             \/ \E exact \in {TRUE, ~AnyCase} : Reload(c, p, exact, saved)
      PROVE  IInv'
  <2>1. saved \in BOOLEAN
    BY DEF Saves
  <2>2. QED BY <1>5, <2>1, NewBindingSteps, ReconnectStep
<1>6. ASSUME NEW c \in Conn, NEW p \in Account, SaveAccount(c, p) PROVE IInv'
  BY <1>6, SocketSteps
<1>7. ASSUME NEW c \in Conn, NEW p \in Account, LeaveRoom(c, p) PROVE IInv'
  BY <1>7, LeaveRoomStep
<1>8. ASSUME NEW c \in Conn, NEW p \in Account, NEW r \in Room,
             EnterRoom(c, p, r) \/ \E max \in RoomSizes : CreateRoom(c, p, r, max)
      PROVE  IInv'
  BY <1>8, EnterRoomStep, CreateRoomStep
<1>9. ASSUME NEW c \in Conn, NEW p \in Account, NEW max \in RoomSizes,
             NEW closed \in BOOLEAN, UpdateRoom(c, p, max, closed)
      PROVE  IInv'
  BY <1>9, UpdateRoomStep
<1>10. ASSUME NEW c \in Conn, NEW p \in Account, NEW fixed \in BOOLEAN,
              NEW hostMigration \in BOOLEAN, StartGame(c, p, fixed, hostMigration)
       PROVE  IInv'
  BY <1>10, StartGameStep
<1>11. ASSUME NEW p \in Account, Age(p) PROVE IInv'
  BY <1>11, AgeStep
<1>12. CASE SomeSweep
  BY <1>12, ExpireSteps
<1>13. CASE Restart
  BY <1>13, RestartStep
<1>14. QED
  BY <1>1, <1>2, <1>3, <1>4, <1>5, <1>6, <1>7, <1>8, <1>9, <1>10, <1>11, <1>12,
     <1>13 DEF Next

\* IInv holds in every reachable state.
THEOREM IInvHolds == ~AnyCase => (Spec => []IInv)
<1> SUFFICES ASSUME ~AnyCase PROVE Spec => []IInv
  OBVIOUS
<1>1. IInv /\ [Next]_vars => IInv'
  BY NextIInv
<1>2. QED BY InitIInv, <1>1, PTL DEF Spec

-----------------------------------------------------------------------------
\* What follows from IInv.

\* Every table keeps its type.
THEOREM TypeSafe == ~AnyCase => (Spec => []TypeOK)
<1> SUFFICES ASSUME ~AnyCase PROVE Spec => []TypeOK
  OBVIOUS
<1>1. IInv => TypeOK
  BY DEF IInv, Core, TypeOK
<1>2. QED BY IInvHolds, <1>1, PTL

\* Rooms and accounts always agree about who is where.
THEOREM MembershipSafe == ~AnyCase => (Spec => []MembershipAgrees)
<1> SUFFICES ASSUME ~AnyCase PROVE Spec => []MembershipAgrees
  OBVIOUS
<1>1. IInv => MembershipAgrees
  BY DEF IInv, Core, MembershipAgrees
<1>2. QED BY IInvHolds, <1>1, PTL

\* A live room has members, within maxPlayers, and its head is its host.
THEOREM HostSafe == ~AnyCase => (Spec => []HostIsSenior)
<1> SUFFICES ASSUME ~AnyCase PROVE Spec => []HostIsSenior
  OBVIOUS
<1>1. IInv => HostIsSenior
  BY DEF IInv, Core, RoomShape, HostIsSenior
<1>2. QED BY IInvHolds, <1>1, PTL

\* No account ever has two live sockets.
THEOREM SocketSafe == ~AnyCase => (Spec => []OneLiveSocket)
<1> SUFFICES ASSUME ~AnyCase PROVE Spec => []OneLiveSocket
  OBVIOUS
<1>1. IInv => OneLiveSocket
  BY DEF IInv, Bound, OneLiveSocket
<1>2. QED BY IInvHolds, <1>1, PTL

\* Accounts without a socket sit in no room.
THEOREM OfflineSafe == ~AnyCase => (Spec => []OfflineHoldsNothing)
<1> SUFFICES ASSUME ~AnyCase PROVE Spec => []OfflineHoldsNothing
  OBVIOUS
<1>1. IInv => OfflineHoldsNothing
  BY DEF IInv, Online, OfflineHoldsNothing
<1>2. QED BY IInvHolds, <1>1, PTL

\* A started game seats only those who were in it at the start.
THEOREM StartersSafe == ~AnyCase => (Spec => []StartersOnly)
<1> SUFFICES ASSUME ~AnyCase PROVE Spec => []StartersOnly
  OBVIOUS
<1>1. IInv => StartersOnly
  BY DEF IInv, Core, Seated, StartersOnly
<1>2. QED BY IInvHolds, <1>1, PTL

\* Seats and reservations are held for accounts that exist.
THEOREM SeatsSafe == ~AnyCase => (Spec => []SeatsAreHeld)
<1> SUFFICES ASSUME ~AnyCase PROVE Spec => []SeatsAreHeld
  OBVIOUS
<1>1. IInv => SeatsAreHeld
  <2>1. ASSUME IInv, NEW r \in Room
        PROVE  rooms[r].players \cup rooms[r].reservations \subseteq Account
    BY <2>1 DEF IInv, Core, RoomState
  <2>2. QED BY <2>1 DEF IInv, Core, RoomShape, SeatsAreHeld, Present
<1>2. QED BY IInvHolds, <1>1, PTL

-----------------------------------------------------------------------------
\* What a step does to a room.

\* The members which stay keep their order, and the host of a fixed game
\* without migration stays.
Follows(R, Q) ==
  /\ \A x, y \in Account :
       Before(R.active, x, y) /\ {x, y} \subseteq Members(Q.active) => Before(Q.active, x, y)
  /\ R.fixed /\ ~R.migration /\ Q.live => Q.owner = R.owner

\* Nobody moves, or the room is gone.
LEMMA StillFollows ==
  ASSUME NEW R, NEW Q, Q.active = R.active, Q.owner = R.owner
  PROVE  Follows(R, Q)
BY DEF Follows

LEMMA GoneFollows ==
  ASSUME NEW R
  PROVE  Follows(R, NoRoom)
BY NoRoomFacts DEF Follows, NoRoom

\* Who leaves changes the order of nobody else.
LEMMA RemovalKeepsOrder ==
  ASSUME NEW s \in Seq(Account), Distinct(s), NEW p \in Account, NEW x, NEW y, Before(s, x, y),
         {x, y} \subseteq Members(ShiftRemove(s, p))
  PROVE  Before(ShiftRemove(s, p), x, y)
<1>1. Members(ShiftRemove(s, p)) = Members(s) \ {p}
  BY ShiftRemoveFacts
<1>2. PICK i, j \in DOMAIN s : i < j /\ s[i] = x /\ s[j] = y
  BY DEF Before
<1>3. s[i] # p /\ s[j] # p
  BY <1>1, <1>2
<1>4. \E m, n \in DOMAIN ShiftRemove(s, p) :
        m < n /\ ShiftRemove(s, p)[m] = s[i] /\ ShiftRemove(s, p)[n] = s[j]
  BY <1>2, <1>3, ShiftRemoveOrder
<1>5. QED BY <1>2, <1>4 DEF Before

\* leave(), in a room T that differs from R in its reservations only.
LEMMA DepartFollows ==
  ASSUME NEW R \in RoomState, NEW T \in RoomState, RoomShape(R),
         T.active = R.active, T.owner = R.owner, T.started = R.started,
         T.fixed = R.fixed, T.migration = R.migration,
         NEW p \in Account, NEW d \in BOOLEAN
  PROVE  Follows(R, RoomAfter(T, p, d))
<1> DEFINE active == R.active
           rest == ShiftRemove(T.active, p)
           Q == RoomAfter(T, p, d)
<1>1. CASE EndsGame(T, p) \/ rest = <<>>
  BY <1>1, GoneFollows DEF RoomAfter
<1>2. CASE ~(EndsGame(T, p) \/ rest = <<>>)
  <2> DEFINE held == IF d /\ T.started THEN T.reservations \cup {p} ELSE T.reservations \ {p}
             owner == IF T.owner = p THEN rest[1] ELSE T.owner
             generation == IF T.owner = p THEN T.generation + 1 ELSE T.generation
  <2>1. Q = [T EXCEPT !.active = rest, !.reservations = held, !.owner = owner,
                      !.generation = generation]
    BY <1>2 DEF RoomAfter
  <2> HIDE DEF Q, held, generation
  <2>2. Q.active = rest /\ Q.owner = owner
    BY <2>1 DEF RoomState
  <2>3. R.fixed /\ ~R.migration => owner = R.owner
    BY <1>2 DEF EndsGame, RoomShape
  <2>4. active \in Seq(Account) /\ Distinct(active) /\ rest = ShiftRemove(active, p)
    BY DEF RoomState, RoomShape
  <2> HIDE DEF active, rest, owner
  <2>5. ASSUME NEW x \in Account, NEW y \in Account, Before(active, x, y),
               {x, y} \subseteq Members(rest)
        PROVE  Before(rest, x, y)
    BY <2>4, <2>5, RemovalKeepsOrder
  <2>6. QED BY <2>2, <2>3, <2>5 DEF Follows, active, Q
<1>3. QED BY <1>1, <1>2

\* enter(): a newcomer comes last.
LEMMA EnterFollows ==
  ASSUME NEW R \in RoomState, NEW Q, NEW p, Q.active = Append(R.active, p),
         Q.owner = R.owner
  PROVE  Follows(R, Q)
<1> DEFINE active == R.active
<1>1. active \in Seq(Account) /\ Q.active = Append(active, p)
  BY DEF RoomState
<1> HIDE DEF active
<1>2. ASSUME NEW x, NEW y, Before(active, x, y) PROVE Before(Q.active, x, y)
  <2>1. PICK i, j \in DOMAIN active : i < j /\ active[i] = x /\ active[j] = y
    BY <1>2 DEF Before
  <2>2. i \in DOMAIN Append(active, p) /\ j \in DOMAIN Append(active, p)
        /\ Append(active, p)[i] = x /\ Append(active, p)[j] = y
    BY <1>1, <2>1
  <2>3. QED BY <1>1, <2>1, <2>2 DEF Before
<1>3. QED BY <1>2 DEF Follows, active

\* Tables that agree but for reservations.
Alike(R, T) ==
  /\ T \in RoomState
  /\ T.active = R.active /\ T.owner = R.owner /\ T.started = R.started
  /\ T.fixed = R.fixed /\ T.migration = R.migration

LEMMA RevokedAlike ==
  ASSUME NEW R \in RoomState, NEW T, Alike(R, T), NEW S
  PROVE  Alike(R, Revoked(T, S))
<1>1. Revoked(T, S) = [T EXCEPT !.reservations = T.reservations \ S]
  BY DEF Revoked
<1>2. T \in RoomState /\ T.reservations \ S \in SUBSET Account
  BY DEF Alike, RoomState
<1> DEFINE Q == Revoked(T, S)
<1> HIDE DEF Q
<1>3. Q \in RoomState
  BY <1>1, <1>2 DEF RoomState, Q
<1>4. Q.active = T.active /\ Q.owner = T.owner /\ Q.started = T.started
      /\ Q.fixed = T.fixed /\ Q.migration = T.migration
  BY <1>1, <1>2 DEF RoomState, Q
<1>5. QED BY <1>3, <1>4 DEF Alike, Q

LEMMA KeptAlike ==
  ASSUME IInv, NEW r \in Room
  PROVE  Alike(rooms[r], KeptRooms[r]) /\ Alike(rooms[r], rooms[r])
<1>1. rooms[r] \in RoomState /\ KeptRooms[r] = Revoked(rooms[r], Expired)
  BY DEF IInv, Core, KeptRooms
<1>2. Alike(rooms[r], rooms[r])
  BY <1>1 DEF Alike
<1>3. QED BY <1>1, <1>2, RevokedAlike

LEMMA LeftFollows ==
  ASSUME IInv, NEW ts, \A x \in Room : Alike(rooms[x], ts[x]),
         NEW p \in Account, NEW r, NEW d \in BOOLEAN, NEW x \in Room
  PROVE  Follows(rooms[x], LeftRooms(ts, p, r, d)[x])
<1> DEFINE T == IF d THEN ts[x] ELSE Revoked(ts[x], {p})
<1>1. rooms[x] \in RoomState /\ RoomShape(rooms[x])
  BY DEF IInv, Core
<1>2. Alike(rooms[x], T)
  BY <1>1, RevokedAlike
<1>3. LeftRooms(ts, p, r, d)[x] = IF x = r THEN RoomAfter(T, p, d) ELSE T
  BY DEF LeftRooms
<1> HIDE DEF T
<1>4. Follows(rooms[x], T) /\ Follows(rooms[x], RoomAfter(T, p, d))
  BY <1>1, <1>2, DepartFollows, StillFollows DEF Alike
<1>5. QED BY <1>3, <1>4

\* Every step, in every room.
LEMMA NextFollows ==
  ASSUME IInv, [Next]_vars, NEW x \in Room
  PROVE  Follows(rooms[x], rooms'[x])
<1>0. rooms \in [Room -> RoomState] /\ rooms[x] \in RoomState /\ RoomShape(rooms[x])
      /\ \A r \in Room : Alike(rooms[r], KeptRooms[r]) /\ Alike(rooms[r], rooms[r])
  BY KeptAlike DEF IInv, Core
<1>1. CASE rooms' = rooms
  BY <1>1, StillFollows
<1>2. CASE rooms' = KeptRooms
  BY <1>0, <1>2, StillFollows DEF Alike
<1>3. ASSUME NEW p \in Account, NEW r, NEW d \in BOOLEAN,
             rooms' = LeftRooms(rooms, p, r, d) \/ rooms' = LeftRooms(KeptRooms, p, r, d)
      PROVE  Follows(rooms[x], rooms'[x])
  BY <1>0, <1>3, LeftFollows
<1>4. ASSUME NEW c \in Conn, Connect(c) \/ CloseSocket(c) \/ Disconnect(c)
      PROVE  Follows(rooms[x], rooms'[x])
  <2>1. CASE Connect(c) \/ CloseSocket(c)
    BY <1>1, <2>1 DEF Connect, CloseSocket
  <2>2. CASE Disconnect(c)
    <3>1. \/ rooms' = rooms
          \/ \E p \in Account : rooms' = LeftRooms(rooms, p, players[p].room, TRUE)
      BY <2>2 DEF Disconnect
    <3>2. QED BY <1>1, <1>3, <3>1
  <2>3. QED BY <1>4, <2>1, <2>2
<1>5. ASSUME NEW c \in Conn, NEW p \in Account,
             \/ \E saved : Register(c, p, saved)
             \/ \E saved, exact : Reload(c, p, exact, saved)
      PROVE  Follows(rooms[x], rooms'[x])
  <2>1. rooms' = KeptRooms
    BY <1>5 DEF Register, Reload
  <2>2. QED BY <1>2, <2>1
<1>6. ASSUME NEW c \in Conn, NEW p \in Account, NEW saved, Reconnect(c, p, saved)
      PROVE  Follows(rooms[x], rooms'[x])
  <2>1. rooms' = KeptRooms \/ rooms' = LeftRooms(KeptRooms, p, players[p].room, TRUE)
    BY <1>6 DEF Reconnect
  <2>2. QED BY <1>2, <1>3, <2>1
<1>7. ASSUME NEW c \in Conn, NEW p \in Account, SaveAccount(c, p) \/ LeaveRoom(c, p)
      PROVE  Follows(rooms[x], rooms'[x])
  <2>1. rooms' = rooms \/ rooms' = LeftRooms(rooms, p, players[p].room, FALSE)
    BY <1>7 DEF SaveAccount, LeaveRoom
  <2>2. QED BY <1>1, <1>3, <2>1
<1>8. ASSUME NEW c \in Conn, NEW p \in Account, NEW r \in Room, NEW max,
             CreateRoom(c, p, r, max)
      PROVE  Follows(rooms[x], rooms'[x])
  <2>1. CASE x = r
    <3>1. rooms[x].active = <<>> /\ ~rooms[x].fixed
      BY <1>0, <1>8, <2>1 DEF CreateRoom, RoomShape
    <3>2. \A y, z : ~Before(<<>>, y, z)
      BY DEF Before
    <3>3. QED BY <3>1, <3>2 DEF Follows
  <2>2. CASE x # r
    <3>1. rooms'[x] = rooms[x]
      BY <1>0, <1>8, <2>2 DEF CreateRoom
    <3>2. QED BY <3>1, StillFollows
  <2>3. QED BY <2>1, <2>2
<1>9. ASSUME NEW c \in Conn, NEW p \in Account, NEW r \in Room, EnterRoom(c, p, r)
      PROVE  Follows(rooms[x], rooms'[x])
  <2> DEFINE R == rooms[r]
             Q == [R EXCEPT !.active = Append(R.active, p),
                            !.reservations = R.reservations \ {p}]
  <2>1. R \in RoomState
    BY <1>0
  <2>2. rooms'[r] = Q /\ \A y \in Room : y # r => rooms'[y] = rooms[y]
    BY <1>0, <1>9 DEF EnterRoom
  <2> HIDE DEF R
  <2>3. Q.active = Append(R.active, p) /\ Q.owner = R.owner
    BY <2>1 DEF RoomState
  <2> HIDE DEF Q
  <2>4. Follows(R, Q)
    BY <2>1, <2>3, EnterFollows
  <2>5. QED BY <2>2, <2>4, StillFollows DEF R
<1>10. ASSUME NEW c \in Conn, NEW p \in Account, NEW max, NEW closed,
              UpdateRoom(c, p, max, closed)
       PROVE  Follows(rooms[x], rooms'[x])
  <2>1. rooms'[x].active = rooms[x].active /\ rooms'[x].owner = rooms[x].owner
    BY <1>0, <1>10 DEF UpdateRoom, RoomState
  <2>2. QED BY <2>1, StillFollows
<1>11. ASSUME NEW c \in Conn, NEW p \in Account, NEW fixed, NEW hostMigration,
              StartGame(c, p, fixed, hostMigration)
       PROVE  Follows(rooms[x], rooms'[x])
  <2>1. rooms'[x].active = rooms[x].active /\ rooms'[x].owner = rooms[x].owner
    BY <1>0, <1>11 DEF StartGame, RoomState
  <2>2. QED BY <2>1, StillFollows
<1>12. CASE Restart
  BY <1>12, GoneFollows DEF Restart
<1>13. CASE UNCHANGED vars
  BY <1>1, <1>13 DEF vars
<1>14. CASE SomeSweep
  BY <1>2, <1>14 DEF SomeSweep, Sweep
<1>15. ASSUME NEW c, NEW state, AuthRefused(c, state) PROVE Follows(rooms[x], rooms'[x])
  BY <1>2, <1>15 DEF AuthRefused
<1>16. ASSUME NEW p, Age(p) PROVE Follows(rooms[x], rooms'[x])
  BY <1>1, <1>16 DEF Age
<1>17. QED
  BY <1>4, <1>5, <1>6, <1>7, <1>8, <1>9, <1>10, <1>11, <1>12, <1>13, <1>14, <1>15, <1>16
  DEF Next

\* Members keep their places through any departure, entry and expiry: leave()
\* uses shift_remove, which moves nobody past another.
THEOREM SenioritySafe == ~AnyCase => (Spec => SeniorityKept)
<1> SUFFICES ASSUME ~AnyCase PROVE Spec => SeniorityKept
  OBVIOUS
<1>1. IInv /\ [Next]_vars =>
        [\A r \in Room, p, q \in Account :
           /\ Before(rooms[r].active, p, q)
           /\ {p, q} \subseteq Members(rooms'[r].active)
           => Before(rooms'[r].active, p, q)]_vars
  BY NextFollows DEF Follows
<1>2. QED BY IInvHolds, <1>1, PTL DEF Spec, SeniorityKept

\* leave() of the host of a fixed game without migration deletes the room and
\* releases everybody in it; nothing else changes such a host.
THEOREM HostForLifeSafe == ~AnyCase => (Spec => HostForLife)
<1> SUFFICES ASSUME ~AnyCase PROVE Spec => HostForLife
  OBVIOUS
<1>1. IInv /\ [Next]_vars =>
        [\A r \in Room : rooms[r].fixed /\ ~rooms[r].migration =>
           \/ rooms'[r].live /\ rooms'[r].owner = rooms[r].owner
           \/ ~rooms'[r].live /\ \A p \in Account : players'[p].room # r]_vars
  <2> SUFFICES ASSUME IInv, [Next]_vars, NEW r \in Room, rooms[r].fixed, ~rooms[r].migration
               PROVE  \/ rooms'[r].live /\ rooms'[r].owner = rooms[r].owner
                      \/ ~rooms'[r].live /\ \A p \in Account : players'[p].room # r
    OBVIOUS
  <2>1. rooms'[r].live => rooms'[r].owner = rooms[r].owner
    BY NextFollows DEF Follows
  <2>2. ~rooms'[r].live => \A p \in Account : players'[p].room # r
    <3>1. RoomShape(rooms'[r])
          /\ \A p \in Account : p \in Members(rooms'[r].active) <=> players'[p].room = r
      BY NextIInv DEF IInv, Core, RoomShape
    <3>2. Members(<<>>) = {}
      BY DEF Members
    <3>3. QED BY <3>1, <3>2 DEF RoomShape
  <2>3. QED BY <2>1, <2>2
<1>2. QED BY IInvHolds, <1>1, PTL DEF Spec, HostForLife

\* Who has a socket and gets another one has reconnected.
LEMMA Replacement ==
  ASSUME ~AnyCase, IInv, [Next]_vars, NEW p \in Account, players[p].conn # None,
         players'[p].conn \notin {None, players[p].conn}
  PROVE  \E c \in Conn, saved \in Saves : Reconnect(c, p, saved)
<1>0. /\ players \in [Account -> Player] /\ Online(players) /\ Online(KeptPlayers)
      /\ KeptPlayers \in [Account -> Player]
      /\ \A q \in Account : KeptPlayers[q].conn = players[q].conn
  BY ExpireFacts DEF IInv, Core
<1>1. players' # players /\ players' # KeptPlayers
  BY <1>0
<1>2. ASSUME NEW c \in Conn, NEW q \in Account, NEW qs \in [Account -> Player], q # p,
             players' = Bind(qs, q, c), qs[p].conn = players[p].conn
      PROVE  FALSE
  BY <1>2 DEF Bind
<1>3. ASSUME NEW q, NEW r
      PROVE  /\ LeftPlayers(players, rooms, q, r) \in [Account -> Player]
             /\ LeftPlayers(players, rooms, q, r)[p].conn = players[p].conn
  BY <1>0 DEF LeftPlayers, Player
<1>4. ASSUME NEW c \in Conn, Disconnect(c) PROVE FALSE
  <2>1. PICK q \in Account :
          /\ Current(c, q)
          /\ players' = [LeftPlayers(players, rooms, q, players[q].room)
                           EXCEPT ![q].conn = None, ![q].status = "recent"]
    BY <1>1, <1>4 DEF Disconnect
  <2> DEFINE qs == LeftPlayers(players, rooms, q, players[q].room)
  <2>2. qs[p].conn = players[p].conn
    BY <1>3
  <2>3. qs \in [Account -> Player]
    BY <1>3
  <2> HIDE DEF qs
  <2>4. players'[p].conn \in {None, qs[p].conn}
    BY <2>1, <2>3 DEF Player, qs
  <2>5. QED BY <2>2, <2>4
<1>5. ASSUME NEW c \in Conn, NEW q \in Account, LeaveRoom(c, q) PROVE FALSE
  BY <1>3, <1>5 DEF LeaveRoom
<1>6. ASSUME NEW c \in Conn, NEW q \in Account, NEW saved, Register(c, q, saved) PROVE FALSE
  <2>1. q # p
    BY <1>0, <1>6 DEF Register, Online
  <2>2. QED BY <1>0, <1>2, <1>6, <2>1 DEF Register
<1>7. ASSUME NEW c \in Conn, NEW q \in Account, NEW saved, Reload(c, q, TRUE, saved) PROVE FALSE
  <2>1. KeptPlayers[q].status = "absent" /\ q # p
    BY <1>0, <1>7 DEF Reload, Online
  <2> DEFINE qs == [KeptPlayers EXCEPT ![q] = NoPlayer]
  <2>2. qs \in [Account -> Player] /\ qs[p].conn = players[p].conn
    BY <1>0, <2>1, NoPlayerType
  <2>3. players' = Bind(qs, q, c)
    BY <1>7 DEF Reload
  <2> HIDE DEF qs
  <2>4. QED BY <1>2, <2>1, <2>2, <2>3
<1>8. ASSUME NEW c \in Conn, NEW q \in Account, NEW saved \in Saves, Reconnect(c, q, saved)
      PROVE  q = p
  <2> SUFFICES ASSUME q # p PROVE FALSE
    OBVIOUS
  <2> DEFINE r == players[q].room
             qs == IF r # None /\ rooms[r].started /\ rooms[r].fixed
                   THEN LeftPlayers(KeptPlayers, KeptRooms, q, r) ELSE KeptPlayers
  <2>1. players' = Bind(qs, q, c)
    BY <1>8 DEF Reconnect
  <2>2. qs \in [Account -> Player] /\ qs[p].conn = players[p].conn
    BY <1>0 DEF LeftPlayers, Player
  <2> HIDE DEF qs
  <2>3. QED BY <1>2, <2>1, <2>2
<1>9. ASSUME NEW q \in Account, NEW r, players' = [players EXCEPT ![q].room = r]
       PROVE  FALSE
  BY <1>0, <1>9 DEF Player
<1>10. ASSUME NEW q \in Account, Age(q) PROVE FALSE
  BY <1>0, <1>10 DEF Age, Player
<1>11. ~Restart
  BY DEF Restart, NoPlayer
<1>12. CASE UNCHANGED vars
  BY <1>1, <1>12 DEF vars
<1>13. CASE Next
  <2>1. ASSUME NEW c \in Conn, NEW q \in Account, NEW r, NEW max,
               EnterRoom(c, q, r) \/ CreateRoom(c, q, r, max)
        PROVE  FALSE
    BY <1>9, <2>1 DEF EnterRoom, CreateRoom
  <2>2. ~SomeSweep
    BY <1>1 DEF SomeSweep, Sweep
  <2>3. ASSUME NEW c, NEW q, NEW max, NEW closed, NEW fixed, NEW migration,
               \/ Connect(c) \/ CloseSocket(c) \/ SaveAccount(c, q)
               \/ \E state : AuthRefused(c, state)
               \/ UpdateRoom(c, q, max, closed) \/ StartGame(c, q, fixed, migration)
        PROVE  FALSE
    BY <1>1, <2>3 DEF Connect, CloseSocket, SaveAccount, AuthRefused, UpdateRoom, StartGame
  <2>4. \A exact \in {TRUE, ~AnyCase} : exact = TRUE
    OBVIOUS
  <2>5. QED
    BY <1>4, <1>5, <1>6, <1>7, <1>8, <1>10, <1>11, <1>13, <2>1, <2>2, <2>3, <2>4 DEF Next
<1>14. QED BY <1>12, <1>13

\* auth() on another socket leaves only a game with a fixed roster.
THEOREM ReplacementSafe == ~AnyCase => (Spec => ReplacementKeepsRoom)
<1> SUFFICES ASSUME ~AnyCase PROVE Spec => ReplacementKeepsRoom
  OBVIOUS
<1>1. IInv /\ [Next]_vars =>
        [\A p \in Account :
           players[p].conn # None /\ players'[p].conn \notin {None, players[p].conn} =>
             \/ players'[p].room = players[p].room
             \/ rooms[players[p].room].fixed]_vars
  <2> SUFFICES ASSUME IInv, [Next]_vars, NEW p \in Account, players[p].conn # None,
                      players'[p].conn \notin {None, players[p].conn},
                      ~rooms[players[p].room].fixed
               PROVE  players'[p].room = players[p].room
    OBVIOUS
  <2>1. PICK c \in Conn, saved \in Saves : Reconnect(c, p, saved)
    BY Replacement
  <2>2. players' = Bind(KeptPlayers, p, c)
    BY <2>1 DEF Reconnect
  <2>3. KeptPlayers \in [Account -> Player] /\ KeptPlayers[p].room = players[p].room
    BY ExpireFacts DEF IInv, Core
  <2>4. QED BY <2>2, <2>3 DEF Bind, Player
<1>2. QED BY IInvHolds, <1>1, PTL DEF Spec, ReplacementKeepsRoom
=============================================================================
