---------------------------- MODULE SessionsProof ----------------------------
(***************************************************************************)
(* The safety of a persistent game, for every number of accounts, uploads  *)
(* and chunks, and that it implements World.                               *)
(***************************************************************************)
EXTENDS Sessions, TLAPS

-----------------------------------------------------------------------------
\* The operations of IndexSet, for elements of any set.

\* shift_remove takes exactly one member out of a list without repetition and
\* leaves the head where it is, unless the head is the one who goes.
LEMMA ShiftRemoveFacts ==
  ASSUME NEW S, NEW s \in Seq(S), NEW p \in S, Distinct(s)
  PROVE  /\ ShiftRemove(s, p) \in Seq(S)
         /\ Distinct(ShiftRemove(s, p))
         /\ Members(ShiftRemove(s, p)) = Members(s) \ {p}
         /\ Len(ShiftRemove(s, p)) <= Len(s)
         /\ s # <<>> /\ s[1] # p =>
              ShiftRemove(s, p) # <<>> /\ ShiftRemove(s, p)[1] = s[1]
<1>1. CASE p \notin Members(s)
  BY <1>1 DEF ShiftRemove, Members
<1>2. CASE p \in Members(s)
  <2> DEFINE k == CHOOSE i \in DOMAIN s : s[i] = p
             t == [i \in 1 .. Len(s) - 1 |-> IF i < k THEN s[i] ELSE s[i + 1]]
  <2>1. k \in 1 .. Len(s) /\ s[k] = p
    BY <1>2 DEF Members
  <2> HIDE DEF k
  <2>2. ShiftRemove(s, p) = t
    BY <1>2 DEF ShiftRemove, k
  <2>3. t \in Seq(S) /\ Len(t) = Len(s) - 1 /\ DOMAIN t = 1 .. Len(s) - 1
    BY <2>1
  <2>4. \A i \in DOMAIN t : t[i] = IF i < k THEN s[i] ELSE s[i + 1]
    OBVIOUS
  <2> HIDE DEF t
  <2>5. \A i \in DOMAIN s : s[i] = p => i = k
    BY <2>1 DEF Distinct
  <2>6. Distinct(t)
    BY <2>1, <2>3, <2>4 DEF Distinct
  <2>7. Members(t) = Members(s) \ {p}
    <3>1. ASSUME NEW i \in DOMAIN t PROVE t[i] \in Members(s) \ {p}
      BY <2>1, <2>3, <2>4, <2>5 DEF Members
    <3>2. ASSUME NEW i \in DOMAIN s, s[i] # p PROVE s[i] \in Members(t)
      <4>1. CASE i < k
        BY <2>1, <2>3, <2>4, <3>2, <4>1 DEF Members
      <4>2. CASE i > k
        <5>1. i - 1 \in DOMAIN t /\ t[i - 1] = s[i]
          BY <2>1, <2>3, <2>4, <3>2, <4>2
        <5>2. QED BY <5>1 DEF Members
      <4>3. QED BY <2>1, <3>2, <4>1, <4>2
    <3>3. QED BY <3>1, <3>2 DEF Members
  <2>8. s[1] # p => t # <<>> /\ t[1] = s[1]
    BY <2>1, <2>3, <2>4
  <2>9. QED BY <2>2, <2>3, <2>6, <2>7, <2>8
<1>3. QED BY <1>1, <1>2

\* Appending a newcomer keeps the list without repetition and its head first.
LEMMA AppendFacts ==
  ASSUME NEW S, NEW s \in Seq(S), NEW p \in S, Distinct(s), p \notin Members(s)
  PROVE  /\ Append(s, p) \in Seq(S)
         /\ Distinct(Append(s, p))
         /\ Members(Append(s, p)) = Members(s) \cup {p}
         /\ Append(s, p) # <<>>
         /\ s # <<>> => Append(s, p)[1] = s[1]
<1>1. /\ Append(s, p) \in Seq(S)
      /\ DOMAIN Append(s, p) = 1 .. Len(s) + 1
      /\ \A i \in 1 .. Len(s) : Append(s, p)[i] = s[i]
      /\ Append(s, p)[Len(s) + 1] = p
  OBVIOUS
<1>2. DOMAIN s = 1 .. Len(s)
  OBVIOUS
<1>3. Distinct(Append(s, p))
  BY <1>1, <1>2 DEF Distinct, Members
<1>4. Members(Append(s, p)) = Members(s) \cup {p}
  BY <1>1, <1>2 DEF Members
<1>5. QED BY <1>1, <1>3, <1>4

-----------------------------------------------------------------------------
\* The inductive invariant.

\* What a game's state may be: nothing yet, or one complete upload.
States == {<<>>} \cup {Whole(u) : u \in Request}

\* The upload is the present host's, and all of its chunks are its own.
GoodUpload(R) ==
  R.upload # None =>
    /\ R.upload.owner \in Members(R.active)
    /\ R.upload.owner = R.owner
    /\ R.upload.generation = R.generation
    /\ R.upload.revision = R.revision
    /\ \A i \in DOMAIN R.upload.bytes : R.upload.bytes[i] = R.upload.id

\* A game in RAM; the host is of the roster, and present if anybody is.
GoodRoom(R) ==
  /\ R \in RoomState
  /\ ~R.live => R.upload = None /\ R.active = <<>>
  /\ R.live => R.owner \in R.players
  /\ R.state \in States
  /\ Distinct(R.active) /\ Members(R.active) \subseteq R.players
  /\ R.active # <<>> => R.owner \in Members(R.active)
  /\ GoodUpload(R)

\* A game on disk.
GoodFile(file) ==
  file # None => file \in Image /\ file.owner \in file.players /\ file.state \in States

SInv ==
  /\ GoodRoom(ram)
  /\ GoodFile(disk)
  /\ fault \in Fault
  /\ acked \in [revision : Nat, state : Bytes] \cup {None}

-----------------------------------------------------------------------------
\* Facts about states, files and rooms.

\* A complete upload is a state, and so is none.
LEMMA StatesAreBytes == States \subseteq Bytes
<1>1. ASSUME NEW u \in Request PROVE Whole(u) \in Bytes
  BY SessionsAssumption DEF Bytes, Whole
<1>2. <<>> \in Bytes
  BY SessionsAssumption DEF Bytes
<1>3. QED BY <1>1, <1>2 DEF States

\* An image is what its fields are.
LEMMA ImageEquality ==
  ASSUME NEW a \in Image, NEW b \in Image,
         a.players = b.players, a.owner = b.owner, a.generation = b.generation,
         a.revision = b.revision, a.state = b.state
  PROVE  a = b
BY DEF Image

\* A room that is not in RAM is in order.
LEMMA NoRoomGood == GoodRoom(NoRoom)
BY StatesAreBytes DEF GoodRoom, NoRoom, RoomState, States, GoodUpload, Members, Distinct

\* The file of a game in RAM is in order, and says what the game says.
LEMMA ImageOfFacts ==
  ASSUME NEW R, GoodRoom(R), R.live
  PROVE  /\ ImageOf(R) \in Image /\ ImageOf(R) # None
         /\ GoodFile(ImageOf(R))
         /\ OnDisk(ImageOf(R)) = Ack(R)
<1>1. ImageOf(R) \in Image
  BY StatesAreBytes DEF GoodRoom, RoomState, ImageOf, Image
<1>2. ImageOf(R) # None
  BY <1>1, SessionsAssumption
<1>3. ImageOf(R).owner \in ImageOf(R).players /\ ImageOf(R).state \in States
  BY DEF GoodRoom, ImageOf
<1>4. OnDisk(ImageOf(R)) = Ack(R)
  BY <1>2 DEF OnDisk, Ack, ImageOf
<1>5. QED BY <1>1, <1>2, <1>3, <1>4 DEF GoodFile

\* What is acknowledged of a game has the type of `acked`.
LEMMA AckType ==
  /\ \A R : GoodRoom(R) => Ack(R) \in [revision : Nat, state : Bytes]
  /\ GoodFile(disk) => OnDisk(disk) \in [revision : Nat, state : Bytes] \cup {None}
BY StatesAreBytes DEF GoodRoom, RoomState, GoodFile, Image, Ack, OnDisk

\* A game read from its file is in order, without members.
LEMMA LoadedFacts ==
  ASSUME NEW file, GoodFile(file), file # None
  PROVE  /\ GoodRoom(Loaded(file)) /\ Loaded(file).live
         /\ Loaded(file).active = <<>> /\ Loaded(file).upload = None
         /\ ImageOf(Loaded(file)) = file
<1> DEFINE L == Loaded(file)
<1>1. /\ L.live = TRUE /\ L.players = file.players /\ L.owner = file.owner
      /\ L.generation = file.generation /\ L.revision = file.revision
      /\ L.state = file.state /\ L.active = <<>> /\ L.upload = None
  BY DEF Loaded, NoRoom
<1>2. L \in RoomState
  <2>1. NoRoom \in RoomState
    BY NoRoomGood DEF GoodRoom
  <2>2. /\ file.players \in SUBSET Account /\ file.owner \in Account \cup {None}
        /\ file.generation \in Nat /\ file.revision \in Nat /\ file.state \in Bytes
    BY DEF GoodFile, Image
  <2>3. QED BY <2>1, <2>2 DEF Loaded, RoomState
<1> HIDE DEF L
<1>3. GoodRoom(L)
  BY <1>1, <1>2 DEF GoodRoom, GoodFile, GoodUpload, Members, Distinct
<1>4. ImageOf(L) = file
  <2>1. ImageOf(L) \in Image
    BY <1>1, <1>3, ImageOfFacts
  <2>2. /\ ImageOf(L).players = L.players /\ ImageOf(L).owner = L.owner
        /\ ImageOf(L).generation = L.generation /\ ImageOf(L).revision = L.revision
        /\ ImageOf(L).state = L.state
    BY DEF ImageOf
  <2>3. QED BY <1>1, <2>1, <2>2, ImageEquality DEF GoodFile
<1>5. QED BY <1>1, <1>3, <1>4 DEF L

-----------------------------------------------------------------------------
\* Every action preserves the invariant.

\* The world its next reader sees; `current` in the mapping to World.
Current == IF ram.live THEN ImageOf(ram) ELSE disk

\* The game an account can enter is in order, and is the current world.
LEMMA GameFacts ==
  ASSUME SInv, ram.live \/ disk # None
  PROVE  /\ GoodRoom(Game) /\ Game.live
         /\ ImageOf(Game) = Current
         /\ Ack(Game) = IF ram.live THEN Ack(ram) ELSE OnDisk(disk)
         /\ Game.active # <<>> => ram.live /\ Game = ram
<1>1. CASE ram.live
  BY <1>1 DEF Game, Current, SInv
<1>2. CASE ~ram.live
  <2>1. GoodFile(disk) /\ disk # None /\ Game = Loaded(disk)
    BY <1>2 DEF SInv, Game
  <2>2. Ack(Loaded(disk)) = Ack(disk)
    BY DEF Ack, Loaded, NoRoom
  <2>3. QED BY <1>2, <2>1, <2>2, LoadedFacts DEF Current, OnDisk
<1>3. QED BY <1>1, <1>2

\* keep() leaves RAM and disk in order.
LEMMA KeepGood ==
  ASSUME SInv, NEW R, GoodRoom(R), R.live, NEW evicted, Keep(R, evicted), fault' = fault
  PROVE  SInv'
<1>1. GoodRoom(ram')
  BY NoRoomGood DEF Keep
<1>2. GoodFile(disk')
  BY ImageOfFacts DEF Keep, SInv, GoodFile
<1>3. acked' \in [revision : Nat, state : Bytes] \cup {None}
  BY DEF Keep, SInv
<1>4. QED BY <1>1, <1>2, <1>3 DEF SInv, GoodRoom, GoodFile, GoodUpload

\* Steps that change nothing but the game in RAM.
LEMMA RamStep ==
  ASSUME SInv, GoodRoom(ram'), disk' = disk, fault' = fault,
         acked' \in [revision : Nat, state : Bytes] \cup {None}
  PROVE  SInv'
BY DEF SInv

\* A game starts with a roster of its members.
LEMMA StartGameGood ==
  ASSUME SInv, NEW n \in Nat \ {0}, NEW active \in [1 .. n -> Account], Distinct(active),
         NEW generation \in Nat, StartGame(active, generation)
  PROVE  SInv'
<1>1. /\ active \in Seq(Account) /\ Len(active) = n /\ active # <<>>
      /\ Members(active) \subseteq Account /\ active[1] \in Members(active)
  BY DEF Members
<1>2. /\ ram'.live = TRUE /\ ram'.players = Members(active) /\ ram'.owner = active[1]
      /\ ram'.active = active /\ ram'.generation = generation
      /\ ram'.revision = 0 /\ ram'.state = <<>> /\ ram'.upload = None
  BY DEF StartGame, NoRoom
<1>3. ram' \in RoomState
  <2>1. NoRoom \in RoomState
    BY NoRoomGood DEF GoodRoom
  <2>2. QED BY <1>1, <2>1 DEF StartGame, RoomState
<1>4. GoodRoom(ram')
  BY <1>1, <1>2, <1>3 DEF GoodRoom, GoodUpload, States
<1>5. acked' \in [revision : Nat, state : Bytes]
  BY StatesAreBytes DEF StartGame, States
<1>6. QED BY <1>4, <1>5, RamStep DEF StartGame

\* An entry makes the first one host, and puts others behind.
LEMMA EnterGood ==
  ASSUME SInv, NEW p \in Account, Enter(p)
  PROVE  SInv'
<1>1. /\ GoodRoom(Game) /\ Game.live /\ p \in Game.players
      /\ Game.active # <<>> => p \notin Members(Game.active)
  BY GameFacts DEF Enter, Member
<1>2. acked' \in [revision : Nat, state : Bytes] \cup {None} /\ disk' = disk /\ fault' = fault
  BY DEF Enter, SInv
<1>3. CASE Game.active = <<>>
  <2> DEFINE G == Game
  <2>1. ram' = [G EXCEPT !.owner = p, !.generation = @ + 1, !.upload = None,
                         !.active = <<p>>]
    BY <1>3 DEF Enter
  <2>2. G \in RoomState /\ <<p>> \in Seq(Account)
    BY <1>1 DEF GoodRoom
  <2> HIDE DEF G
  <2>3. /\ ram' \in RoomState
        /\ ram'.live = G.live /\ ram'.players = G.players /\ ram'.state = G.state
        /\ ram'.owner = p /\ ram'.active = <<p>> /\ ram'.upload = None
    <3> DEFINE one == <<p>>
    <3>1. G.generation + 1 \in Nat /\ one \in Seq(Account)
      BY <2>2 DEF RoomState
    <3>2. ram' = [G EXCEPT !.owner = p, !.generation = @ + 1, !.upload = None,
                           !.active = one]
      BY <2>1
    <3> HIDE DEF one
    <3>3. /\ ram' \in RoomState
          /\ ram'.live = G.live /\ ram'.players = G.players /\ ram'.state = G.state
          /\ ram'.owner = p /\ ram'.active = one /\ ram'.upload = None
      BY <2>2, <3>1, <3>2 DEF RoomState
    <3>4. QED BY <3>3 DEF one
  <2>4. Members(<<p>>) = {p} /\ Distinct(<<p>>)
    BY DEF Members, Distinct
  <2>5. GoodRoom(ram')
    BY <1>1, <2>3, <2>4 DEF GoodRoom, GoodUpload, G
  <2>6. QED BY <1>2, <2>5, RamStep
<1>4. CASE Game.active # <<>>
  <2>1. ram' = [Game EXCEPT !.active = Append(@, p)]
    BY <1>4 DEF Enter
  <2> DEFINE G == Game
  <2>2. G \in RoomState /\ GoodRoom(G)
    BY <1>1 DEF GoodRoom
  <2>3. G.live /\ p \in G.players /\ p \notin Members(G.active) /\ G.active # <<>>
    BY <1>1, <1>4
  <2>4. ram' = [G EXCEPT !.active = Append(@, p)]
    BY <2>1
  <2> HIDE DEF G
  <2>5. G.active \in Seq(Account) /\ Distinct(G.active)
    BY <2>2 DEF GoodRoom, RoomState
  <2>6. /\ Append(G.active, p) \in Seq(Account) /\ Distinct(Append(G.active, p))
        /\ Members(Append(G.active, p)) = Members(G.active) \cup {p}
    BY <2>3, <2>5, AppendFacts
  <2>7. /\ ram' \in RoomState
        /\ ram'.live = G.live /\ ram'.players = G.players /\ ram'.state = G.state
        /\ ram'.owner = G.owner /\ ram'.upload = G.upload
        /\ ram'.generation = G.generation /\ ram'.revision = G.revision
        /\ ram'.active = Append(G.active, p)
    BY <2>2, <2>4, <2>6 DEF RoomState
  <2>8. GoodRoom(ram')
    BY <2>2, <2>3, <2>6, <2>7 DEF GoodRoom, GoodUpload
  <2>9. QED BY <1>2, <2>8, RamStep
<1>5. QED BY <1>3, <1>4

\* A departure ends the upload of whoever departs, and the next member is
\* host with a new generation.
LEMMA LeaveFacts ==
  ASSUME SInv, NEW p \in Account, NEW evicted, Leave(p, evicted)
  PROVE  \E R :
           /\ GoodRoom(R) /\ R.live /\ R.players = ram.players
           /\ Ack(R) = Ack(ram)
           /\ R.owner = ram.owner => R.generation = ram.generation
           /\ R.owner # ram.owner => R.generation = ram.generation + 1
           /\ R.active = <<>> => R.owner = ram.owner
           /\ IF R.active = <<>> THEN Keep(R, evicted)
              ELSE ram' = R /\ UNCHANGED <<disk, acked>>
<1> DEFINE rest == ShiftRemove(ram.active, p)
           upload == IF ram.upload # None /\ ram.upload.owner = p THEN None ELSE ram.upload
           owner == IF rest # <<>> /\ ram.owner = p THEN rest[1] ELSE ram.owner
           generation == IF rest # <<>> /\ ram.owner = p THEN ram.generation + 1
                         ELSE ram.generation
           R == [ram EXCEPT !.active = rest, !.upload = upload, !.owner = owner,
                            !.generation = generation]
<1>1. /\ ram \in RoomState /\ ram.live /\ p \in Members(ram.active)
      /\ ram.active \in Seq(Account) /\ Distinct(ram.active)
      /\ Members(ram.active) \subseteq ram.players
      /\ GoodRoom(ram)
  BY DEF SInv, GoodRoom, RoomState, Leave, Member
<1>2. /\ rest \in Seq(Account) /\ Distinct(rest)
      /\ Members(rest) = Members(ram.active) \ {p}
  BY <1>1, ShiftRemoveFacts
<1>3. IF rest = <<>> THEN Keep(R, evicted) ELSE ram' = R /\ UNCHANGED <<disk, acked>>
  BY DEF Leave
<1> HIDE DEF rest
<1>5. rest # <<>> => rest[1] \in Members(rest) /\ rest[1] \in Account
  BY <1>2 DEF Members
<1>6. upload \in Upload \cup {None} /\ owner \in Account \cup {None} /\ generation \in Nat
  BY <1>1, <1>5 DEF RoomState
<1>7. upload # None => upload = ram.upload /\ upload.owner # p
  OBVIOUS
<1>8. /\ owner = IF rest # <<>> /\ ram.owner = p THEN rest[1] ELSE ram.owner
      /\ generation = IF rest # <<>> /\ ram.owner = p THEN ram.generation + 1
                      ELSE ram.generation
  OBVIOUS
<1> HIDE DEF upload, owner, generation
<1>9. /\ R \in RoomState
      /\ R.live = TRUE /\ R.players = ram.players /\ R.state = ram.state
      /\ R.revision = ram.revision /\ R.active = rest /\ R.upload = upload
      /\ R.owner = owner /\ R.generation = generation
  BY <1>1, <1>2, <1>6 DEF RoomState
<1> HIDE DEF R
<1>10. R.owner \in R.players /\ (R.active # <<>> => R.owner \in Members(R.active))
  <2>1. CASE rest # <<>> /\ ram.owner = p
    BY <1>1, <1>2, <1>5, <1>8, <1>9, <2>1
  <2>2. CASE ram.owner # p
    <3>1. ram.active # <<>>
      BY <1>1 DEF Members
    <3>2. QED BY <1>1, <1>2, <1>8, <1>9, <2>2, <3>1 DEF GoodRoom
  <2>3. CASE rest = <<>>
    BY <1>1, <1>8, <1>9, <2>3 DEF GoodRoom
  <2>4. QED BY <2>1, <2>2, <2>3
<1>11. GoodUpload(R)
  <2>1. SUFFICES ASSUME R.upload # None PROVE /\ R.upload.owner \in Members(R.active)
                                            /\ R.upload.owner = R.owner
                                            /\ R.upload.generation = R.generation
                                            /\ R.upload.revision = R.revision
                                            /\ \A i \in DOMAIN R.upload.bytes :
                                                 R.upload.bytes[i] = R.upload.id
    BY DEF GoodUpload
  <2>2. R.upload = ram.upload /\ ram.upload # None /\ ram.upload.owner # p
    BY <1>7, <1>9, <2>1
  <2>3. ram.owner # p /\ R.owner = ram.owner /\ R.generation = ram.generation
    BY <1>1, <1>8, <1>9, <2>2 DEF GoodRoom, GoodUpload
  <2>4. QED BY <1>1, <1>2, <1>9, <2>2, <2>3 DEF GoodRoom, GoodUpload
<1>12. GoodRoom(R)
  BY <1>1, <1>2, <1>9, <1>10, <1>11 DEF GoodRoom
<1>13. Ack(R) = Ack(ram)
  BY <1>9 DEF Ack
<1>14. rest # <<>> => rest[1] # p
  BY <1>2, <1>5
<1>15. QED BY <1>3, <1>8, <1>9, <1>12, <1>13, <1>14

\* A departure leaves RAM and disk in order.
LEMMA LeaveGood ==
  ASSUME SInv, NEW p \in Account, NEW evicted, Leave(p, evicted)
  PROVE  SInv'
<1>1. PICK R : /\ GoodRoom(R) /\ R.live
               /\ IF R.active = <<>> THEN Keep(R, evicted)
                  ELSE ram' = R /\ UNCHANGED <<disk, acked>>
  BY LeaveFacts
<1>2. fault' = fault
  BY DEF Leave
<1>3. QED BY <1>1, <1>2, KeepGood, RamStep DEF SInv

\* Steps that change only the host's upload.
LEMMA UploadStep ==
  ASSUME SInv, NEW upload \in Upload \cup {None},
         ram' = [ram EXCEPT !.upload = upload],
         ram.upload = None => upload = None \/ ram.live,
         upload # None =>
           /\ upload.owner \in Members(ram.active)
           /\ upload.owner = ram.owner
           /\ upload.generation = ram.generation /\ upload.revision = ram.revision
           /\ \A i \in DOMAIN upload.bytes : upload.bytes[i] = upload.id,
         UNCHANGED <<disk, fault, acked>>
  PROVE  SInv'
<1>1. ram \in RoomState /\ GoodRoom(ram)
  BY DEF SInv, GoodRoom
<1>2. /\ ram' \in RoomState
      /\ ram'.live = ram.live /\ ram'.players = ram.players /\ ram'.state = ram.state
      /\ ram'.revision = ram.revision /\ ram'.active = ram.active
      /\ ram'.owner = ram.owner /\ ram'.generation = ram.generation
      /\ ram'.upload = upload
  BY <1>1 DEF RoomState
<1>3. GoodUpload(ram')
  BY <1>2 DEF GoodUpload
<1>4. GoodRoom(ram')
  BY <1>1, <1>2, <1>3 DEF GoodRoom
<1>5. QED BY <1>4, RamStep DEF SInv

\* beginSession names the host and the game as they are.
LEMMA BeginSessionGood ==
  ASSUME SInv, NEW p \in Account, NEW u \in Request, BeginSession(p, u)
  PROVE  SInv'
<1> DEFINE upload == [id |-> u, owner |-> p, generation |-> ram.generation,
                      revision |-> ram.revision, bytes |-> <<>>, stalled |-> FALSE]
<1>1. upload \in Upload
  BY StatesAreBytes DEF SInv, GoodRoom, RoomState, Upload, States
<1>2. /\ upload.owner \in Members(ram.active) /\ upload.owner = ram.owner
      /\ upload.generation = ram.generation /\ upload.revision = ram.revision
      /\ DOMAIN upload.bytes = {}
  BY DEF BeginSession, Member
<1>3. ram' = [ram EXCEPT !.upload = upload] /\ UNCHANGED <<disk, fault, acked>> /\ ram.live
  BY DEF BeginSession, Member
<1> HIDE DEF upload
<1>4. QED BY <1>1, <1>2, <1>3, UploadStep

\* A chunk that fits is of the same upload.
LEMMA UploadChunkGood ==
  ASSUME SInv, NEW p \in Account, NEW u \in Request, NEW offset \in Nat, NEW n \in Nat,
         UploadChunk(p, u, offset, n)
  PROVE  SInv'
<1>1. /\ ram.upload # None /\ ram.upload \in Upload /\ ram.live
      /\ GoodRoom(ram) /\ UNCHANGED <<disk, fault, acked>>
  BY DEF SInv, GoodRoom, RoomState, UploadChunk, Member
<1>2. CASE ~Fits(p, u, offset, n)
  <2>1. ram' = [ram EXCEPT !.upload = None]
    BY <1>2 DEF UploadChunk
  <2>2. QED BY <1>1, <2>1, UploadStep
<1>3. CASE Fits(p, u, offset, n)
  <2> DEFINE old == ram.upload
             bytes == old.bytes \o [i \in 1 .. n |-> u]
             upload == Extended(old, u, n)
  <2>1. ram' = [ram EXCEPT !.upload = upload]
    BY <1>3 DEF UploadChunk
  <2>2. /\ old.bytes \in Seq(Request) /\ old.id = u
        /\ Len(old.bytes) + n <= Parts
        /\ \A i \in DOMAIN old.bytes : old.bytes[i] = u
    BY <1>1, <1>3 DEF Fits, Upload, Bytes, GoodRoom, GoodUpload
  <2>3. bytes \in Bytes /\ \A i \in DOMAIN bytes : bytes[i] = u
    <3> DEFINE a == old.bytes
               b == [i \in 1 .. n |-> u]
    <3>1. a \in Seq(Request) /\ b \in Seq(Request) /\ Len(b) = n
          /\ \A i \in 1 .. n : b[i] = u
      BY <2>2
    <3>2. Len(a) + n <= Parts /\ (\A i \in 1 .. Len(a) : a[i] = u)
      BY <2>2
    <3> HIDE DEF a, b
    <3>3. /\ a \o b \in Seq(Request) /\ Len(a \o b) = Len(a) + n
          /\ DOMAIN (a \o b) = 1 .. Len(a) + n
      BY <3>1
    <3>4. \A i \in 1 .. Len(a) + n : (a \o b)[i] = u
      BY <3>1, <3>2
    <3>5. a \o b \in Bytes
      BY <3>2, <3>3 DEF Bytes
    <3>6. QED BY <3>3, <3>4, <3>5 DEF a, b
  <2> HIDE DEF bytes, old
  <2>4. old \in Upload /\ old = ram.upload
    BY <1>1 DEF old
  <2>5. /\ upload \in Upload /\ upload.id = old.id /\ upload.owner = old.owner
        /\ upload.generation = old.generation /\ upload.revision = old.revision
        /\ upload.bytes = bytes
    <3>1. upload = [old EXCEPT !.bytes = bytes, !.stalled = FALSE]
      BY DEF Extended, bytes
    <3>2. QED BY <2>3, <2>4, <3>1 DEF Upload
  <2> HIDE DEF upload
  <2>6. /\ old.owner \in Members(ram.active) /\ old.owner = ram.owner
        /\ old.generation = ram.generation /\ old.revision = ram.revision
    BY <1>1, <2>4 DEF GoodRoom, GoodUpload
  <2>7. QED BY <1>1, <2>1, <2>2, <2>3, <2>5, <2>6, UploadStep
<1>4. QED BY <1>2, <1>3

\* A complete upload is a state.
LEMMA CommitSessionGood ==
  ASSUME SInv, NEW p \in Account, NEW u \in Request, CommitSession(p, u)
  PROVE  /\ SInv'
         /\ ram.live /\ ram.upload.bytes = Whole(u)
<1>1. /\ ram \in RoomState /\ GoodRoom(ram) /\ ram.live
      /\ ram.upload # None /\ ram.upload \in Upload
      /\ ram.upload.id = u /\ Len(ram.upload.bytes) = Parts
      /\ \A i \in DOMAIN ram.upload.bytes : ram.upload.bytes[i] = u
  BY DEF SInv, GoodRoom, GoodUpload, RoomState, CommitSession, Member
<1> DEFINE bytes == ram.upload.bytes
<1>2. bytes = Whole(u)
  <2>1. bytes \in Seq(Request) /\ Len(bytes) = Parts /\ \A i \in DOMAIN bytes : bytes[i] = u
    BY <1>1 DEF Upload, Bytes
  <2> HIDE DEF bytes
  <2>2. bytes = [i \in 1 .. Parts |-> bytes[i]] /\ DOMAIN bytes = 1 .. Parts
    BY <2>1
  <2>3. QED BY <2>1, <2>2 DEF Whole
<1>3. bytes \in States /\ bytes \in Bytes
  BY <1>2, StatesAreBytes DEF States
<1>4. /\ ram' = [ram EXCEPT !.state = bytes, !.revision = @ + 1, !.upload = None]
      /\ acked' = [revision |-> ram.revision + 1, state |-> bytes]
      /\ UNCHANGED <<disk, fault>>
  BY DEF CommitSession
<1> HIDE DEF bytes
<1>5. /\ ram' \in RoomState
      /\ ram'.live = ram.live /\ ram'.players = ram.players /\ ram'.owner = ram.owner
      /\ ram'.active = ram.active /\ ram'.state = bytes /\ ram'.upload = None
  <2> DEFINE revision == ram.revision + 1
  <2>1. revision \in Nat
    BY <1>1 DEF RoomState
  <2>2. ram' = [ram EXCEPT !.state = bytes, !.revision = revision, !.upload = None]
    BY <1>4
  <2> HIDE DEF revision
  <2>3. QED BY <1>1, <1>3, <2>1, <2>2 DEF RoomState
<1>6. GoodRoom(ram')
  BY <1>1, <1>3, <1>5 DEF GoodRoom, GoodUpload
<1>7. acked' \in [revision : Nat, state : Bytes]
  BY <1>1, <1>3, <1>4 DEF RoomState
<1>8. SInv'
  BY <1>4, <1>6, <1>7, RamStep
<1>9. QED BY <1>1, <1>2, <1>8 DEF bytes

\* A stalled upload is the upload it was.
LEMMA StallGood ==
  ASSUME SInv, Stall
  PROVE  SInv'
<1> DEFINE old == ram.upload
           upload == [old EXCEPT !.stalled = TRUE]
<1>1. /\ old # None /\ old \in Upload /\ GoodRoom(ram) /\ ram.live
      /\ UNCHANGED <<disk, fault, acked>>
  BY DEF Stall, SInv, GoodRoom, RoomState
<1>2. ram' = [ram EXCEPT !.upload = upload]
  BY DEF Stall
<1>3. /\ old.owner \in Members(ram.active) /\ old.owner = ram.owner
      /\ old.generation = ram.generation /\ old.revision = ram.revision
      /\ \A i \in DOMAIN old.bytes : old.bytes[i] = old.id
  BY <1>1 DEF GoodRoom, GoodUpload
<1> HIDE DEF old
<1>4. /\ upload \in Upload /\ upload.id = old.id /\ upload.owner = old.owner
      /\ upload.generation = old.generation /\ upload.revision = old.revision
      /\ upload.bytes = old.bytes
  BY <1>1 DEF Upload
<1> HIDE DEF upload
<1>5. QED BY <1>1, <1>2, <1>3, <1>4, UploadStep

\* What the tick makes of a game before it tries to write it.
Swept(R) == [R EXCEPT !.upload = IF @ # None /\ @.stalled THEN None ELSE @]

\* The tick keeps a game in order, and its world as it is.
LEMMA SweptFacts ==
  ASSUME NEW R, GoodRoom(R), R.live
  PROVE  /\ GoodRoom(Swept(R)) /\ Swept(R).live
         /\ ImageOf(Swept(R)) = ImageOf(R) /\ Ack(Swept(R)) = Ack(R)
         /\ Swept(R).active = R.active
<1> DEFINE upload == IF R.upload # None /\ R.upload.stalled THEN None ELSE R.upload
           S == [R EXCEPT !.upload = upload]
<1>1. R \in RoomState /\ upload \in Upload \cup {None}
  BY DEF GoodRoom, RoomState
<1>2. upload # None => upload = R.upload
  OBVIOUS
<1> HIDE DEF upload
<1>3. /\ S \in RoomState
      /\ S.live = R.live /\ S.players = R.players /\ S.state = R.state
      /\ S.revision = R.revision /\ S.active = R.active
      /\ S.owner = R.owner /\ S.generation = R.generation
      /\ S.upload = upload
  BY <1>1 DEF RoomState
<1>4. Swept(R) = S
  BY DEF Swept, upload
<1> HIDE DEF S
<1>5. GoodRoom(S)
  BY <1>2, <1>3 DEF GoodRoom, GoodUpload
<1>6. ImageOf(S) = ImageOf(R) /\ Ack(S) = Ack(R)
  BY <1>3 DEF ImageOf, Ack
<1>7. QED BY <1>3, <1>4, <1>5, <1>6

\* The tick writes what it finds in order.
LEMMA SweepGood ==
  ASSUME SInv, NEW evicted, Sweep(evicted)
  PROVE  SInv'
<1>1. GoodRoom(ram) /\ ram.live /\ fault' = fault
  BY DEF Sweep, SInv
<1>2. CASE ram.active = <<>>
  <2>1. Keep(Swept(ram), evicted)
    BY <1>2 DEF Sweep, Swept
  <2>2. QED BY <1>1, <2>1, SweptFacts, KeepGood
<1>3. CASE ram.active # <<>>
  <2>1. ram' = Swept(ram) /\ UNCHANGED <<disk, acked>>
    BY <1>3 DEF Sweep, Swept
  <2>2. QED BY <1>1, <2>1, SweptFacts, RamStep DEF SInv
<1>4. QED BY <1>2, <1>3

\* The process finds a file in order.
LEMMA RestartedGood ==
  ASSUME SInv, NEW file, GoodFile(file), NEW evicted,
         NEW kept \in [revision : Nat, state : Bytes] \cup {None},
         Restarted(file, kept, evicted)
  PROVE  SInv'
<1>1. GoodRoom(ram')
  BY NoRoomGood DEF Restarted
<1>2. GoodFile(disk') /\ acked' \in [revision : Nat, state : Bytes] \cup {None}
  BY DEF Restarted, GoodFile
<1>3. fault' \in Fault
  BY DEF Restarted, SInv
<1>4. QED BY <1>1, <1>2, <1>3 DEF SInv

-----------------------------------------------------------------------------
\* The invariant.

LEMMA InitGood == Init => SInv
BY NoRoomGood DEF Init, SInv, GoodFile, Fault

LEMMA NextGood == SInv /\ [Next]_vars => SInv'
<1> SUFFICES ASSUME SInv, [Next]_vars PROVE SInv'
  OBVIOUS
<1>1. ASSUME NEW n \in 1 .. Cardinality(Account), NEW active \in [1 .. n -> Account],
             Distinct(active), NEW generation \in 0 .. 1, StartGame(active, generation)
      PROVE  SInv'
  <2>1. n \in Nat \ {0} /\ generation \in Nat
    OBVIOUS
  <2>2. QED BY <1>1, <2>1, StartGameGood
<1>2. ASSUME NEW p \in Account, Enter(p) PROVE SInv'
  BY <1>2, EnterGood
<1>3. ASSUME NEW p \in Account, EnterRefused(p) PROVE SInv'
  <2>1. GoodRoom(ram')
    BY <1>3, NoRoomGood DEF EnterRefused
  <2>2. QED BY <1>3, <2>1, RamStep DEF EnterRefused, SInv
<1>4. ASSUME NEW p \in Account, NEW evicted \in Evicts, Leave(p, evicted) PROVE SInv'
  BY <1>4, LeaveGood
<1>5. ASSUME NEW p \in Account, NEW u \in Request, BeginSession(p, u) PROVE SInv'
  BY <1>5, BeginSessionGood
<1>6. ASSUME NEW p \in Account, NEW u \in Request, NEW offset \in 0 .. Parts,
             NEW n \in 1 .. Parts, UploadChunk(p, u, offset, n)
      PROVE  SInv'
  <2>1. offset \in Nat /\ n \in Nat
    BY SessionsAssumption
  <2>2. QED BY <1>6, <2>1, UploadChunkGood
<1>7. ASSUME NEW p \in Account, NEW u \in Request, CommitSession(p, u) PROVE SInv'
  BY <1>7, CommitSessionGood
<1>8. CASE Stall
  BY <1>8, StallGood
<1>9. CASE SomeSweep
  BY <1>9, SweepGood DEF SomeSweep
<1>10. CASE Prune
  BY <1>10 DEF Prune, SInv, GoodFile
<1>11. CASE DiskBreaks
  BY <1>11 DEF DiskBreaks, Fault, SInv
<1>12. CASE DiskWorks
  BY <1>12 DEF DiskWorks, Fault, SInv
<1>13. ASSUME NEW evicted \in Evicts, Crash(evicted) PROVE SInv'
  BY <1>13, RestartedGood, AckType DEF Crash, SInv
<1>14. ASSUME NEW evicted \in Evicts, Shutdown(evicted) PROVE SInv'
  <2> DEFINE file == IF ram.live /\ fault = "none" THEN ImageOf(ram) ELSE disk
  <2>1. GoodFile(file) /\ acked \in [revision : Nat, state : Bytes] \cup {None}
    BY ImageOfFacts DEF SInv
  <2>2. Restarted(file, acked, evicted)
    BY <1>14 DEF Shutdown
  <2> HIDE DEF file
  <2>3. QED BY <2>1, <2>2, RestartedGood
<1>15. CASE UNCHANGED vars
  BY <1>15 DEF vars, SInv
<1>16. QED
  BY <1>1, <1>2, <1>3, <1>4, <1>5, <1>6, <1>7, <1>8, <1>9, <1>10, <1>11, <1>12, <1>13,
     <1>14, <1>15 DEF Next

\* Every reachable state of Sessions satisfies SInv: the tables of a game,
\* its file and its upload belong together.
THEOREM SInvHolds == Spec => []SInv
BY InitGood, NextGood, PTL DEF Spec

\* Whatever the handlers do to the game's Room, its file and the disk, they
\* keep their types.
THEOREM SessionTypes == Spec => []TypeOK
<1>1. SInv => TypeOK
  BY DEF SInv, TypeOK, GoodRoom, GoodFile
<1>2. QED BY <1>1, SInvHolds, PTL

\* No upload survives the change of host, the commit or the restart that
\* should have ended it.
THEOREM UploadSafe == Spec => []UploadIsCurrent
<1>1. SInv => UploadIsCurrent
  BY DEF SInv, GoodRoom, GoodUpload, UploadIsCurrent, Member
<1>2. QED BY <1>1, SInvHolds, PTL

-----------------------------------------------------------------------------
\* Acknowledged states.

\* A game that leaves RAM, or stays because the disk refuses it, is still what
\* was acknowledged.
LEMMA KeepAcked ==
  ASSUME NEW R, GoodRoom(R), R.live, Ack(R) = acked, NEW evicted, Keep(R, evicted)
  PROVE  AckedSurvive'
<1>1. CASE fault = "here"
  BY <1>1 DEF Keep, AckedSurvive
<1>2. CASE fault # "here"
  <2>1. ram'.live = FALSE
    BY <1>2 DEF Keep, NoRoom
  <2>2. OnDisk(ImageOf(R)) = Ack(R) /\ OnDisk(None) = None
    BY ImageOfFacts DEF OnDisk
  <2>3. QED BY <1>2, <2>1, <2>2 DEF Keep, AckedSurvive
<1>3. QED BY <1>1, <1>2

\* Nothing that was acknowledged gets lost on the way, unless a refused entry
\* drops the game, or a shutdown meets a disk that does not take every game.
LEMMA AckedStep ==
  ASSUME SInv, AckedSurvive, [Next]_vars, \A p \in Account : ~EnterRefused(p),
         ~(fault # "none" /\ Stops)
  PROVE  AckedSurvive'
<1>0. ASSUME ram'.live, acked' = Ack(ram') PROVE AckedSurvive'
  BY <1>0 DEF AckedSurvive
<1>00. ASSUME ~ram'.live, acked' = OnDisk(disk') PROVE AckedSurvive'
  BY <1>00 DEF AckedSurvive
<1>000. ASSUME ram'.live = ram.live, Ack(ram') = Ack(ram), UNCHANGED <<disk, acked>>
        PROVE  AckedSurvive'
  BY <1>000 DEF AckedSurvive
<1>1. ASSUME NEW n \in 1 .. Cardinality(Account), NEW active \in [1 .. n -> Account],
             Distinct(active), NEW generation \in 0 .. 1, StartGame(active, generation)
      PROVE  AckedSurvive'
  <2>1. ram'.live /\ ram'.revision = 0 /\ ram'.state = <<>>
    BY <1>1 DEF StartGame, NoRoom
  <2>2. QED BY <1>1, <2>1, <1>0 DEF StartGame, Ack
<1>2. ASSUME NEW p \in Account, Enter(p) PROVE AckedSurvive'
  <2> DEFINE G == Game
  <2>1. G \in RoomState /\ G.live /\ acked = Ack(G)
    BY <1>2, GameFacts DEF Enter, GoodRoom, AckedSurvive
  <2>2. ram' = IF G.active = <<>>
               THEN [G EXCEPT !.owner = p, !.generation = @ + 1, !.upload = None,
                              !.active = <<p>>]
               ELSE [G EXCEPT !.active = Append(@, p)]
    BY <1>2 DEF Enter
  <2> HIDE DEF G
  <2>3. ram'.live /\ ram'.revision = G.revision /\ ram'.state = G.state
    BY <2>1, <2>2 DEF RoomState
  <2>4. QED BY <1>2, <2>1, <2>3, <1>0 DEF Enter, Ack
<1>4. ASSUME NEW p \in Account, NEW evicted \in Evicts, Leave(p, evicted) PROVE AckedSurvive'
  <2>1. PICK R : /\ GoodRoom(R) /\ R.live /\ Ack(R) = Ack(ram)
                 /\ IF R.active = <<>> THEN Keep(R, evicted)
                    ELSE ram' = R /\ UNCHANGED <<disk, acked>>
    BY <1>4, LeaveFacts
  <2>2. acked = Ack(ram)
    BY <1>4 DEF Leave, Member, AckedSurvive
  <2>3. QED BY <2>1, <2>2, KeepAcked, <1>0
<1>5. ASSUME NEW p \in Account, NEW u \in Request, BeginSession(p, u) PROVE AckedSurvive'
  <2>1. ram \in RoomState
    BY DEF SInv, GoodRoom
  <2>2. ram'.live = ram.live /\ Ack(ram') = Ack(ram)
    BY <1>5, <2>1 DEF BeginSession, Ack, RoomState
  <2>3. QED BY <1>5, <2>2, <1>000 DEF BeginSession
<1>6. ASSUME NEW p \in Account, NEW u \in Request, NEW offset \in 0 .. Parts,
             NEW n \in 1 .. Parts, UploadChunk(p, u, offset, n)
      PROVE  AckedSurvive'
  <2>1. ram \in RoomState
    BY DEF SInv, GoodRoom
  <2>2. ram'.live = ram.live /\ Ack(ram') = Ack(ram)
    BY <1>6, <2>1 DEF UploadChunk, Ack, RoomState
  <2>3. QED BY <1>6, <2>2, <1>000 DEF UploadChunk
<1>7. ASSUME NEW p \in Account, NEW u \in Request, CommitSession(p, u) PROVE AckedSurvive'
  <2> DEFINE bytes == ram.upload.bytes
  <2>1. ram \in RoomState /\ ram.live
    BY <1>7, CommitSessionGood DEF SInv, GoodRoom
  <2>2. /\ ram' = [ram EXCEPT !.state = bytes, !.revision = @ + 1, !.upload = None]
        /\ acked' = [revision |-> ram.revision + 1, state |-> bytes]
    BY <1>7 DEF CommitSession
  <2> HIDE DEF bytes
  <2>3. ram'.live = ram.live /\ ram'.revision = ram.revision + 1 /\ ram'.state = bytes
    BY <2>1, <2>2 DEF RoomState
  <2>4. QED BY <2>1, <2>2, <2>3, <1>0 DEF Ack
<1>8. CASE Stall
  <2>1. ram \in RoomState
    BY DEF SInv, GoodRoom
  <2>2. ram'.live = ram.live /\ Ack(ram') = Ack(ram)
    BY <1>8, <2>1 DEF Stall, Ack, RoomState
  <2>3. QED BY <1>8, <2>2, <1>000 DEF Stall
<1>9. ASSUME NEW evicted \in Evicts, Sweep(evicted) PROVE AckedSurvive'
  <2>1. ram.live /\ GoodRoom(ram) /\ acked = Ack(ram)
    BY <1>9 DEF Sweep, AckedSurvive, SInv
  <2>2. IF ram.active = <<>> THEN Keep(Swept(ram), evicted)
        ELSE ram' = Swept(ram) /\ UNCHANGED <<disk, acked>>
    BY <1>9 DEF Sweep, Swept
  <2>3. GoodRoom(Swept(ram)) /\ Swept(ram).live /\ Ack(Swept(ram)) = Ack(ram)
    BY <2>1, SweptFacts
  <2>4. QED BY <2>1, <2>2, <2>3, KeepAcked, <1>0
<1>10. CASE Prune
  BY <1>10, <1>00 DEF Prune, OnDisk
<1>11. CASE DiskBreaks
  BY <1>11, <1>000 DEF DiskBreaks
<1>12. CASE DiskWorks
  BY <1>12, <1>000 DEF DiskWorks
<1>13. ASSUME NEW evicted \in Evicts, Crash(evicted) PROVE AckedSurvive'
  BY <1>13, <1>00 DEF Crash, Restarted, NoRoom, OnDisk
<1>14. ASSUME NEW evicted \in Evicts, Shutdown(evicted) PROVE AckedSurvive'
  <2> DEFINE file == IF ram.live /\ fault = "none" THEN ImageOf(ram) ELSE disk
  <2>1. Restarted(file, acked, evicted)
    BY <1>14 DEF Shutdown
  <2>2. fault = "none"
    BY <1>14 DEF Stops
  <2>3. acked = OnDisk(file)
    BY <2>2, ImageOfFacts DEF AckedSurvive, SInv
  <2> HIDE DEF file
  <2>4. QED BY <2>1, <2>3, <1>00 DEF Restarted, NoRoom, OnDisk
<1>15. CASE UNCHANGED vars
  BY <1>15, <1>000 DEF vars
<1>16. QED
  BY <1>1, <1>2, <1>4, <1>5, <1>6, <1>7, <1>8, <1>9, <1>10, <1>11, <1>12, <1>13,
     <1>14, <1>15 DEF Next, SomeSweep

\* Whatever the disk does: what commitSession acknowledged is lost to the next
\* reader by nothing but a refused entry into a game that is only in RAM
\* (enter), or a shutdown that the disk cuts short (stop).
THEOREM LossSafe == Spec => LossHasCause
<1>1. SInv /\ [Next]_vars =>
        [AckedSurvive => \/ AckedSurvive'
                         \/ \E p \in Account : EnterRefused(p)
                         \/ fault # "none" /\ Stops]_vars
  BY AckedStep
<1>2. QED BY <1>1, SInvHolds, PTL DEF Spec, LossHasCause

\* On a disk that takes every write a game in RAM has members, so that nobody
\* who is refused can drop it.
Attended == fault = "none" /\ (ram.live => ram.active # <<>>)

LEMMA AttendedStep ==
  ASSUME ~DiskFails, SInv, Attended, [Next]_vars
  PROVE  Attended'
<1>0. ASSUME fault' = "none", ram'.live => ram'.active # <<>> PROVE Attended'
  BY <1>0 DEF Attended
<1>1. ASSUME NEW n \in 1 .. Cardinality(Account), NEW active \in [1 .. n -> Account],
             Distinct(active), NEW generation \in 0 .. 1, StartGame(active, generation)
      PROVE  Attended'
  <2>1. active # <<>> /\ ram'.active = active
    BY <1>1 DEF StartGame, NoRoom
  <2>2. QED BY <1>1, <2>1 DEF StartGame, Attended
<1>2. ASSUME NEW p \in Account, Enter(p) PROVE Attended'
  <2> DEFINE G == Game
  <2>1. G \in RoomState
    BY <1>2, GameFacts DEF Enter, GoodRoom
  <2>2. ram' = IF G.active = <<>>
               THEN [G EXCEPT !.owner = p, !.generation = @ + 1, !.upload = None,
                              !.active = <<p>>]
               ELSE [G EXCEPT !.active = Append(@, p)]
    BY <1>2 DEF Enter
  <2> HIDE DEF G
  <2>3. ram'.active = IF G.active = <<>> THEN <<p>> ELSE Append(G.active, p)
    BY <2>1, <2>2 DEF RoomState
  <2>4. <<p>> # <<>> /\ Append(G.active, p) # <<>>
    BY <2>1 DEF RoomState
  <2>5. QED BY <1>2, <2>3, <2>4 DEF Enter, Attended
<1>3. ASSUME NEW p \in Account, EnterRefused(p) PROVE Attended'
  BY <1>3 DEF EnterRefused, Retained, Attended
<1>4. ASSUME NEW p \in Account, NEW evicted \in Evicts, Leave(p, evicted) PROVE Attended'
  <2>1. PICK R : IF R.active = <<>> THEN Keep(R, evicted)
                 ELSE ram' = R /\ UNCHANGED <<disk, acked>>
    BY <1>4, LeaveFacts
  <2>2. fault' = fault
    BY <1>4 DEF Leave
  <2>3. QED BY <2>1, <2>2 DEF Keep, NoRoom, Attended
<1>5. ASSUME NEW p \in Account, NEW u \in Request, BeginSession(p, u) PROVE Attended'
  BY <1>5 DEF BeginSession, Attended, SInv, GoodRoom, RoomState, Member
<1>6. ASSUME NEW p \in Account, NEW u \in Request, NEW offset \in 0 .. Parts,
             NEW n \in 1 .. Parts, UploadChunk(p, u, offset, n)
      PROVE  Attended'
  <2>1. ram \in RoomState
    BY DEF SInv, GoodRoom
  <2>2. ram'.active = ram.active /\ ram.live
    BY <1>6, <2>1 DEF UploadChunk, RoomState, Member
  <2>3. QED BY <1>6, <2>2 DEF UploadChunk, Attended
<1>7. ASSUME NEW p \in Account, NEW u \in Request, CommitSession(p, u) PROVE Attended'
  <2>1. ram \in RoomState
    BY DEF SInv, GoodRoom
  <2>2. ram'.active = ram.active /\ ram.live
    BY <1>7, <2>1 DEF CommitSession, RoomState, Member
  <2>3. QED BY <1>7, <2>2 DEF CommitSession, Attended
<1>8. CASE Stall
  <2>1. ram \in RoomState
    BY DEF SInv, GoodRoom
  <2>2. ram'.live = ram.live /\ ram'.active = ram.active
    BY <1>8, <2>1 DEF Stall, RoomState
  <2>3. QED BY <1>8, <2>2 DEF Stall, Attended
<1>9. ASSUME NEW evicted \in Evicts, Sweep(evicted) PROVE Attended'
  <2>1. ram.live /\ ram.active # <<>> /\ GoodRoom(ram)
    BY <1>9 DEF Sweep, Attended, SInv
  <2>2. ram' = Swept(ram) /\ UNCHANGED fault
    BY <1>9, <2>1 DEF Sweep, Swept
  <2>3. QED BY <2>1, <2>2, SweptFacts DEF Attended
<1>10. CASE Prune
  BY <1>10 DEF Prune, Attended
<1>11. CASE DiskBreaks
  BY <1>11 DEF DiskBreaks
<1>12. CASE DiskWorks
  BY <1>12 DEF DiskWorks, Attended
<1>13. ASSUME NEW evicted \in Evicts, Crash(evicted) \/ Shutdown(evicted) PROVE Attended'
  BY <1>13 DEF Crash, Shutdown, Restarted, NoRoom, Attended
<1>14. CASE UNCHANGED vars
  BY <1>14 DEF vars, Attended
<1>15. QED
  BY <1>1, <1>2, <1>3, <1>4, <1>5, <1>6, <1>7, <1>8, <1>9, <1>10, <1>11, <1>12, <1>13,
     <1>14 DEF Next, SomeSweep

\* As long as the disk takes every write, what commitSession acknowledged is
\* what the next reader gets, whatever happens to members, host and process.
THEOREM AckedSafe == ~DiskFails => (Spec => []AckedSurvive)
<1> SUFFICES ASSUME ~DiskFails PROVE Spec => []AckedSurvive
  OBVIOUS
<1>1. Init => Attended /\ AckedSurvive
  BY DEF Init, Attended, AckedSurvive, NoRoom, OnDisk
<1>2. Attended => (\A p \in Account : ~EnterRefused(p)) /\ ~(fault # "none" /\ Stops)
  BY DEF Attended, EnterRefused, Retained
<1>3. SInv /\ Attended /\ AckedSurvive /\ [Next]_vars => Attended' /\ AckedSurvive'
  BY <1>2, AckedStep, AttendedStep
<1>4. QED BY <1>1, <1>3, SInvHolds, PTL DEF Spec

-----------------------------------------------------------------------------
\* Sessions implements World.

\* What World calls a copy is the contents of a file in order.
LEMMA CopyFacts ==
  ASSUME NEW image, GoodFile(image), image # None
  PROVE  image \in Abstract!Copy /\ image \in Image
BY DEF GoodFile, Image, Abstract!Copy, States

\* The mapping of the world's present copy.
LEMMA CurrentFacts ==
  ASSUME SInv
  PROVE  /\ Current # None => Current \in Image /\ Current.owner \in Current.players
         /\ ram.live => Current # None
BY ImageOfFacts DEF Current, SInv, GoodFile

\* Handing over to the next host is World's Handover.
LEMMA HandoverStep ==
  ASSUME SInv, Current # None, NEW p \in Current.players, NEW R, GoodRoom(R), R.live,
         ram' = R, disk' = disk,
         R.players = Current.players, R.owner = p,
         R.generation = Current.generation + 1,
         R.revision = Current.revision, R.state = Current.state
  PROVE  Abstract!Next
<1> DEFINE before == Current
           after == [before EXCEPT !.owner = p, !.generation = @ + 1]
<1>1. before \in Image /\ p \in Account
  BY CurrentFacts DEF Image
<1>2. Current' = ImageOf(R) /\ ImageOf(R) \in Image
  BY ImageOfFacts DEF Current
<1>3. /\ ImageOf(R).players = before.players /\ ImageOf(R).owner = p
      /\ ImageOf(R).generation = before.generation + 1
      /\ ImageOf(R).revision = before.revision /\ ImageOf(R).state = before.state
  BY DEF ImageOf
<1> HIDE DEF before
<1>4. /\ after \in Image
      /\ after.players = before.players /\ after.owner = p
      /\ after.generation = before.generation + 1
      /\ after.revision = before.revision /\ after.state = before.state
  <2> DEFINE generation == before.generation + 1
  <2>1. generation \in Nat
    BY <1>1 DEF Image
  <2>2. after = [before EXCEPT !.owner = p, !.generation = generation]
    OBVIOUS
  <2> HIDE DEF generation, after
  <2>3. /\ after \in Image
        /\ after.players = before.players /\ after.owner = p
        /\ after.generation = generation
        /\ after.revision = before.revision /\ after.state = before.state
    BY <1>1, <2>1, <2>2 DEF Image
  <2>4. QED BY <2>3 DEF generation
<1>5. Current' = after
  <2> HIDE DEF after
  <2>1. ImageOf(R) = after
    BY <1>2, <1>3, <1>4, ImageEquality
  <2>2. QED BY <1>2, <2>1
<1>6. Current' = [Current EXCEPT !.owner = p, !.generation = @ + 1]
  BY <1>5 DEF before
<1>7. Abstract!Handover(p)
  BY <1>6 DEF Abstract!Handover, Current
<1>8. QED BY <1>1, <1>7 DEF Abstract!Next

\* keep() saves, forgets or changes nothing.
LEMMA KeepStep ==
  ASSUME SInv, ram.live, NEW R, ImageOf(R) = ImageOf(ram), R.live,
         NEW evicted, Keep(R, evicted)
  PROVE  Abstract!Next \/ UNCHANGED Abstract!world
<1>1. Current = ImageOf(ram)
  BY DEF Current
<1>2. CASE fault = "here"
  BY <1>2 DEF Keep, Abstract!world
<1>3. CASE fault # "here" /\ evicted
  BY <1>3 DEF Keep, NoRoom, Abstract!Next, Abstract!Evict
<1>4. CASE fault # "here" /\ ~evicted
  <2>1. ram'.live = FALSE /\ disk' = ImageOf(ram)
    BY <1>4 DEF Keep, NoRoom
  <2>2. QED BY <2>1 DEF Abstract!Next, Abstract!Save
<1>5. QED BY <1>2, <1>3, <1>4

\* Steps that change neither the world nor its file.
LEMMA StutterStep ==
  ASSUME ram.live, ram'.live, ImageOf(ram') = ImageOf(ram), disk' = disk
  PROVE  UNCHANGED Abstract!world
BY DEF Abstract!world

\* A start is World's Begin.
LEMMA BeginStep ==
  ASSUME SInv, NEW n \in Nat \ {0}, NEW active \in [1 .. n -> Account], Distinct(active),
         NEW generation \in Nat, StartGame(active, generation)
  PROVE  Abstract!Next
<1>1. SInv'
  BY StartGameGood
<1>2. ~ram.live /\ disk = None /\ disk' = None
  BY DEF StartGame
<1>3. ram'.live /\ ram'.revision = 0 /\ ram'.state = <<>>
  BY DEF StartGame, NoRoom
<1>4. GoodRoom(ram')
  BY <1>1 DEF SInv, GoodRoom, GoodUpload
<1>5. ImageOf(ram') \in Abstract!Copy
  BY <1>3, <1>4, ImageOfFacts, CopyFacts
<1>6. /\ ImageOf(ram').revision = 0 /\ ImageOf(ram').state = <<>>
      /\ ImageOf(ram').owner \in ImageOf(ram').players
  BY <1>3, <1>4 DEF ImageOf, GoodRoom
<1>7. Abstract!Begin
  BY <1>2, <1>3, <1>5, <1>6 DEF Abstract!Begin
<1>8. QED BY <1>7 DEF Abstract!Next

\* Entering an empty game is a change of host, another entry is nothing to
\* the world.
LEMMA EnterStep ==
  ASSUME SInv, NEW p \in Account, Enter(p)
  PROVE  Abstract!Next \/ UNCHANGED Abstract!world
<1>1. /\ GoodRoom(Game) /\ Game.live /\ p \in Game.players /\ ImageOf(Game) = Current
      /\ Game.active # <<>> => ram.live /\ Game = ram
      /\ disk' = disk
  BY GameFacts DEF Enter
<1>2. GoodRoom(ram')
  BY EnterGood DEF SInv, GoodRoom, GoodUpload
<1> DEFINE G == Game
<1>3. G \in RoomState
  BY <1>1 DEF GoodRoom
<1>4. ram' = IF G.active = <<>>
             THEN [G EXCEPT !.owner = p, !.generation = @ + 1, !.upload = None,
                            !.active = <<p>>]
             ELSE [G EXCEPT !.active = Append(@, p)]
  BY DEF Enter
<1>5. /\ Current.players = G.players /\ Current.owner = G.owner
      /\ Current.generation = G.generation
      /\ Current.revision = G.revision /\ Current.state = G.state
  <2>1. Current = ImageOf(G)
    BY <1>1
  <2>2. QED BY <2>1 DEF ImageOf
<1>6. G.live /\ p \in G.players
  BY <1>1
<1> HIDE DEF G
<1>7. /\ ram'.live /\ ram'.players = G.players /\ ram'.revision = G.revision
      /\ ram'.state = G.state
      /\ G.active = <<>> => ram'.owner = p /\ ram'.generation = G.generation + 1
      /\ G.active # <<>> => ram'.owner = G.owner /\ ram'.generation = G.generation
  BY <1>3, <1>4, <1>6 DEF RoomState
<1>8. CASE G.active = <<>>
  <2>1. Current # None
    BY <1>1, ImageOfFacts
  <2>2. QED BY <1>1, <1>2, <1>5, <1>6, <1>7, <1>8, <2>1, HandoverStep
<1>9. CASE G.active # <<>>
  <2>1. ram.live /\ G = ram
    BY <1>1, <1>9 DEF G
  <2>2. ImageOf(ram') = ImageOf(ram)
    BY <1>7, <1>9, <2>1 DEF ImageOf
  <2>3. QED BY <1>1, <1>7, <2>1, <2>2, StutterStep
<1>10. QED BY <1>8, <1>9

\* A departure of the host is a change of host, the last one saves the world.
LEMMA LeaveStep ==
  ASSUME SInv, NEW p \in Account, NEW evicted, Leave(p, evicted)
  PROVE  Abstract!Next \/ UNCHANGED Abstract!world
<1>1. PICK R :
        /\ GoodRoom(R) /\ R.live /\ R.players = ram.players
        /\ Ack(R) = Ack(ram)
        /\ R.owner = ram.owner => R.generation = ram.generation
        /\ R.owner # ram.owner => R.generation = ram.generation + 1
        /\ R.active = <<>> => R.owner = ram.owner
        /\ IF R.active = <<>> THEN Keep(R, evicted)
           ELSE ram' = R /\ UNCHANGED <<disk, acked>>
  BY LeaveFacts
<1>2. ram.live /\ GoodRoom(ram)
  BY DEF Leave, Member, SInv
<1>3. R.revision = ram.revision /\ R.state = ram.state
  BY <1>1 DEF Ack
<1>4. CASE R.owner = ram.owner
  <2>1. ImageOf(R) = ImageOf(ram)
    BY <1>1, <1>3, <1>4 DEF ImageOf
  <2>2. QED BY <1>1, <1>2, <2>1, KeepStep, StutterStep
<1>5. CASE R.owner # ram.owner
  <2>1. ram' = R /\ disk' = disk /\ R.generation = ram.generation + 1
    BY <1>1, <1>5
  <2>2. /\ Current = ImageOf(ram) /\ Current # None
        /\ Current.players = ram.players /\ Current.generation = ram.generation
        /\ Current.revision = ram.revision /\ Current.state = ram.state
    BY <1>2, CurrentFacts DEF Current, ImageOf
  <2>3. R.owner \in R.players
    BY <1>1 DEF GoodRoom
  <2>4. QED BY <1>1, <1>3, <2>1, <2>2, <2>3, HandoverStep
<1>6. QED BY <1>4, <1>5

\* An acknowledged commit is World's Commit of the uploaded snapshot.
LEMMA CommitStep ==
  ASSUME SInv, NEW p \in Account, NEW u \in Request, CommitSession(p, u)
  PROVE  Abstract!Next
<1>1. ram.live /\ ram.upload.bytes = Whole(u) /\ ram \in RoomState /\ disk' = disk
  BY CommitSessionGood DEF SInv, GoodRoom, CommitSession
<1> DEFINE s == Whole(u)
           revision == ram.revision + 1
           before == ImageOf(ram)
           after == [before EXCEPT !.state = s, !.revision = @ + 1]
<1>2. ram' = [ram EXCEPT !.state = s, !.revision = revision, !.upload = None]
  BY <1>1 DEF CommitSession
<1>3. /\ before \in Image /\ s \in Bytes /\ before # None
      /\ GoodRoom(ram') /\ before.revision = ram.revision
  <2>1. GoodRoom(ram)
    BY DEF SInv
  <2>2. GoodRoom(ram')
    BY CommitSessionGood DEF SInv, GoodRoom, GoodUpload
  <2>3. s \in Bytes
    BY StatesAreBytes DEF States
  <2>4. before \in Image /\ before # None
    BY <1>1, <2>1, ImageOfFacts
  <2>5. before.revision = ram.revision
    BY DEF ImageOf
  <2>6. QED BY <2>2, <2>3, <2>4, <2>5
<1>4. /\ before.players = ram.players /\ before.owner = ram.owner
      /\ before.generation = ram.generation
  BY DEF ImageOf
<1> HIDE DEF s
<1>5. /\ ram'.live /\ ram'.players = ram.players /\ ram'.owner = ram.owner
      /\ ram'.generation = ram.generation /\ ram'.revision = revision /\ ram'.state = s
  <2> HIDE DEF revision
  <2>1. QED BY <1>1, <1>2 DEF RoomState
<1> HIDE DEF before
<1>6. /\ after \in Image /\ after.players = before.players /\ after.owner = before.owner
      /\ after.generation = before.generation
      /\ after.revision = before.revision + 1 /\ after.state = s
  <2> DEFINE next == before.revision + 1
  <2>1. next \in Nat
    BY <1>3 DEF Image
  <2>2. after = [before EXCEPT !.state = s, !.revision = next]
    OBVIOUS
  <2> HIDE DEF next, after
  <2>3. /\ after \in Image /\ after.players = before.players
        /\ after.owner = before.owner /\ after.generation = before.generation
        /\ after.revision = next /\ after.state = s
    BY <1>3, <2>1, <2>2 DEF Image
  <2>4. QED BY <2>3 DEF next
<1> HIDE DEF after
<1>7. ImageOf(ram') = after
  <2>1. ImageOf(ram') \in Image
    BY <1>3, <1>5, ImageOfFacts
  <2>2. /\ ImageOf(ram').players = after.players /\ ImageOf(ram').owner = after.owner
        /\ ImageOf(ram').generation = after.generation
        /\ ImageOf(ram').revision = after.revision /\ ImageOf(ram').state = after.state
    BY <1>3, <1>4, <1>5, <1>6 DEF ImageOf
  <2>3. QED BY <1>6, <2>1, <2>2, ImageEquality
<1>8. Abstract!Commit(s)
  BY <1>1, <1>3, <1>5, <1>7 DEF Abstract!Commit, before, after
<1>9. s \in {Whole(v) : v \in Request}
  BY DEF s
<1>10. QED BY <1>8, <1>9 DEF Abstract!Next

\* A new start keeps what is on disk, a shutdown saves first.
LEMMA RestartStep ==
  ASSUME SInv, NEW file, NEW kept, NEW evicted, file \in {disk, Current},
         Restarted(file, kept, evicted)
  PROVE  Abstract!Next
<1>1. ram'.live = FALSE /\ disk' = IF evicted THEN None ELSE file
  BY DEF Restarted, NoRoom
<1>2. CASE evicted
  BY <1>1, <1>2 DEF Abstract!Next, Abstract!Evict
<1>3. CASE ~evicted /\ file = disk
  BY <1>1, <1>3 DEF Abstract!Next, Abstract!Lose
<1>4. CASE ~evicted /\ file = Current
  BY <1>1, <1>4 DEF Abstract!Next, Abstract!Save, Current
<1>5. QED BY <1>2, <1>3, <1>4

\* Every step of the game is a step of its world, or none.
LEMMA NextImplements ==
  ASSUME SInv, [Next]_vars
  PROVE  Abstract!Next \/ UNCHANGED Abstract!world
<1>1. ASSUME NEW n \in 1 .. Cardinality(Account), NEW active \in [1 .. n -> Account],
             Distinct(active), NEW generation \in 0 .. 1, StartGame(active, generation)
      PROVE  Abstract!Next
  <2>1. n \in Nat \ {0} /\ generation \in Nat
    OBVIOUS
  <2>2. QED BY <1>1, <2>1, BeginStep
<1>2. ASSUME NEW p \in Account, Enter(p)
      PROVE  Abstract!Next \/ UNCHANGED Abstract!world
  BY <1>2, EnterStep
<1>3. ASSUME NEW p \in Account, EnterRefused(p) PROVE Abstract!Next
  BY <1>3 DEF EnterRefused, NoRoom, Abstract!Next, Abstract!Lose
<1>4. ASSUME NEW p \in Account, NEW evicted \in Evicts, Leave(p, evicted)
      PROVE  Abstract!Next \/ UNCHANGED Abstract!world
  BY <1>4, LeaveStep
<1>5. ASSUME ram.live, NEW upload, ram' = [ram EXCEPT !.upload = upload], disk' = disk
      PROVE  UNCHANGED Abstract!world
  <2>1. ram \in RoomState
    BY DEF SInv, GoodRoom
  <2>2. ram'.live = ram.live /\ ImageOf(ram') = ImageOf(ram)
    BY <1>5, <2>1 DEF RoomState, ImageOf
  <2>3. QED BY <1>5, <2>2, StutterStep
<1>6. ASSUME NEW p \in Account, NEW u \in Request, BeginSession(p, u)
      PROVE  UNCHANGED Abstract!world
  BY <1>6, <1>5 DEF BeginSession, Member
<1>7. ASSUME NEW p \in Account, NEW u \in Request, NEW offset \in 0 .. Parts,
             NEW n \in 1 .. Parts, UploadChunk(p, u, offset, n)
      PROVE  UNCHANGED Abstract!world
  BY <1>7, <1>5 DEF UploadChunk, Member
<1>8. ASSUME NEW p \in Account, NEW u \in Request, CommitSession(p, u) PROVE Abstract!Next
  BY <1>8, CommitStep
<1>9. CASE Stall
  <2>1. ram.live /\ ram \in RoomState
    BY <1>9 DEF Stall, SInv, GoodRoom
  <2>2. ram'.live = ram.live /\ ImageOf(ram') = ImageOf(ram)
    BY <1>9, <2>1 DEF Stall, RoomState, ImageOf
  <2>3. QED BY <1>9, <2>1, <2>2, StutterStep DEF Stall
<1>10. ASSUME NEW evicted \in Evicts, Sweep(evicted)
       PROVE  Abstract!Next \/ UNCHANGED Abstract!world
  <2>1. ram.live /\ GoodRoom(ram)
    BY <1>10 DEF Sweep, SInv
  <2>2. IF ram.active = <<>> THEN Keep(Swept(ram), evicted)
        ELSE ram' = Swept(ram) /\ UNCHANGED <<disk, acked>>
    BY <1>10 DEF Sweep, Swept
  <2>3. QED BY <2>1, <2>2, SweptFacts, KeepStep, StutterStep
<1>11. CASE Prune
  BY <1>11 DEF Prune, Abstract!Next, Abstract!Evict
<1>12. CASE DiskBreaks \/ DiskWorks \/ UNCHANGED vars
  BY <1>12 DEF DiskBreaks, DiskWorks, vars, Abstract!world
<1>13. ASSUME NEW evicted \in Evicts, Crash(evicted) PROVE Abstract!Next
  BY <1>13, RestartStep DEF Crash
<1>14. ASSUME NEW evicted \in Evicts, Shutdown(evicted) PROVE Abstract!Next
  BY <1>14, RestartStep DEF Shutdown, Current
<1>15. QED
  BY <1>1, <1>2, <1>3, <1>4, <1>6, <1>7, <1>8, <1>9, <1>10, <1>11, <1>12, <1>13, <1>14
  DEF Next, SomeSweep

\* Whatever happens to members, uploads, disk and process, players see one
\* world that advances by whole snapshots and changes of host, and loses only
\* what was not saved.
THEOREM Implementation == Spec => ImplementsWorld
<1>1. Init => Abstract!Init
  BY DEF Init, NoRoom, Abstract!Init
<1>2. SInv /\ [Next]_vars => [Abstract!Next]_(Abstract!world)
  BY NextImplements
<1>3. QED BY <1>1, <1>2, SInvHolds, PTL DEF Spec, ImplementsWorld, Abstract!Spec
=============================================================================
