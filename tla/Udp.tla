--------------------------------- MODULE Udp ---------------------------------
(***************************************************************************)
(* The UDP relay of rust/udp.rs: a datagram channel beside each socket,    *)
(* opened with a key of its own for one stay in one room.                  *)
(*                                                                         *)
(* A datagram arrives at any time, any number of times, from any address;  *)
(* one that is lost does not arrive.  Datagrams which are malformed, carry *)
(* another key or come for a session that is not Usable change nothing and *)
(* are not steps.  `Client` stands for an account and its present socket.  *)
(*                                                                         *)
(* Abstracted: keys and signatures, challenges (each is named by the       *)
(* sequence number of its probe), payloads, the clock (what ages, ages at  *)
(* any time), the budget of the listener, which only loses datagrams.      *)
(***************************************************************************)
EXTENDS Integers, FiniteSets

CONSTANTS
  Client,        \* accounts
  Room,          \* room ids
  Address,       \* source addresses of datagrams
  None,          \* Rust's Option::None
  Window,        \* the replay window (64)
  MaxSeq,        \* bound: sequence numbers a client uses under one key
  MaxOutgoing,   \* the greatest sequence number of the server (u64::MAX)
  InLimit,       \* udpIncomingPacketsPerSecond
  OutLimit,      \* udpOutgoingPacketsPerSecond
  Limited,       \* FALSE: no limit is reached within a second, nothing counted
  MaxVersion     \* bound: changes of room per client

Replay == [highest : Nat, seen : SUBSET (0 .. Window - 1)]
Binding == [address : Address, stale : BOOLEAN]
Challenge == [address : Address, nonce : Nat, stale : BOOLEAN]
\* stay, accepted and shown are history: when the key was made, which numbers
\* it was accepted with, and which challenges went where.
Session == [version : Nat, replay : Replay, outgoing : 0 .. MaxOutgoing,
            endpoint : Binding \cup {None}, challenge : Challenge \cup {None},
            stay : Nat, accepted : SUBSET Nat,
            shown : SUBSET [address : Address, nonce : Nat]]

ASSUME UdpAssumption ==
  /\ None \notin Room \cup Session
  /\ \A n \in {Window, MaxSeq, MaxOutgoing, InLimit, OutLimit, MaxVersion} : n \in Nat
  /\ Window > 0
  /\ Limited \in BOOLEAN

VARIABLES
  link,      \* the client's socket: up, closing or down
  room,      \* Player.room
  version,   \* Player.version
  udp,       \* Connection.udp
  inRate,    \* packets counted in the present second, per connection
  outRate,
  out,       \* the packets the last step sent
  stay,      \* history: counts the client's changes of room
  took,      \* history: datagrams handled in the present second
  gave       \* history: packets sent in the present second

rates == <<inRate, outRate, took, gave>>
places == <<link, room, version, stay>>
vars == <<places, udp, rates, out>>

Packet == [to : Client, address : Address, kind : {"challenge", "bound", "data"},
           from : Client, seq : Nat]

TypeOK ==
  /\ link \in [Client -> {"up", "closing", "down"}]
  /\ room \in [Client -> Room \cup {None}]
  /\ version \in [Client -> Nat] /\ stay \in [Client -> Nat]
  /\ \A c \in Client : udp[c] # None => udp[c] \in Session
  /\ inRate \in [Client -> 0 .. InLimit] /\ outRate \in [Client -> 0 .. OutLimit]
  /\ took \in [Client -> Nat] /\ gave \in [Client -> Nat]
  /\ out \subseteq Packet

NewSession(c) ==
  [version |-> version[c], replay |-> [highest |-> 0, seen |-> {}], outgoing |-> 0,
   endpoint |-> None, challenge |-> None,
   stay |-> stay[c], accepted |-> {}, shown |-> {}]

Zero == [c \in Client |-> 0]

Init ==
  /\ link = [c \in Client |-> "up"] /\ room = [c \in Client |-> None]
  /\ version = Zero /\ stay = Zero
  /\ udp = [c \in Client |-> None]
  /\ inRate = Zero /\ outRate = Zero /\ took = Zero /\ gave = Zero
  /\ out = {}

-----------------------------------------------------------------------------
\* The replay window: the highest number so far, and a bit for each of the
\* Window numbers up to it, by its distance.

\* Mutant of Advanced: the bits stay where they are.
AdvancedInPlace(w, s) ==
  IF s > w.highest
  THEN [highest |-> s, seen |-> w.seen \cup {0}]
  ELSE [w EXCEPT !.seen = @ \cup {w.highest - s}]

Accepts(w, s) ==
  \/ s > w.highest
  \/ s # 0 /\ w.highest - s < Window /\ w.highest - s \notin w.seen

Advanced(w, s) ==
  IF s > w.highest
  THEN [highest |-> s,
        seen |-> {0} \cup {d \in 0 .. Window - 1 : d - (s - w.highest) \in w.seen}]
  ELSE [w EXCEPT !.seen = @ \cup {w.highest - s}]

-----------------------------------------------------------------------------
\* Parts of the datagram handler

\* Mutant of Usable: the key of an earlier stay is still good.
UsableEver(c) == link[c] = "up" /\ room[c] # None /\ udp[c] # None

\* The connection's session exists, and belongs to the present stay.
Usable(c) ==
  /\ link[c] = "up" /\ room[c] # None
  /\ udp[c] # None /\ udp[c].version = version[c]

\* A genuine datagram with a new number; the number is spent in any case.
Fresh(c, s) == Usable(c) /\ Accepts(udp[c].replay, s)
Spent(c, s) == [udp[c] EXCEPT !.replay = Advanced(@, s), !.accepted = @ \cup {s}]

\* Rate::accept.
Below(count, limit) == ~Limited \/ count < limit
Counted(count) == IF Limited THEN count + 1 ELSE count

Takes(c) ==
  /\ Below(inRate[c], InLimit)
  /\ inRate' = [inRate EXCEPT ![c] = Counted(@)]
  /\ took' = [took EXCEPT ![c] = Counted(@)]

\* Mutant of Sends: the counter wraps around.
SendsWrapping(c) == Below(outRate[c], OutLimit)

\* Rate::accept for outgoing packets, then Session::packet, which has no
\* number left at the end of the counter.
Sends(c) == Below(outRate[c], OutLimit) /\ udp[c].outgoing < MaxOutgoing
Numbered(c, u) ==
  IF Sends(c) THEN [u EXCEPT !.outgoing = (@ + 1) % (MaxOutgoing + 1)] ELSE u
Made(c, kind, address, from) ==
  [to |-> c, address |-> address, kind |-> kind, from |-> from,
   seq |-> Numbered(c, udp[c]).outgoing]

\* The packets to the clients in R: each is charged to its recipient, also if
\* it cannot be numbered.
Charge(R) ==
  /\ outRate' = [c \in Client |->
       IF c \in R /\ Below(outRate[c], OutLimit) THEN Counted(outRate[c]) ELSE outRate[c]]
  /\ gave' = [c \in Client |->
       IF c \in R /\ Sends(c) THEN Counted(gave[c]) ELSE gave[c]]

-----------------------------------------------------------------------------
\* Datagrams

\* More than the incoming limit: the number is spent, nothing else happens.
OverRate(c, s) ==
  /\ Fresh(c, s) /\ ~Below(inRate[c], InLimit)
  /\ udp' = [udp EXCEPT ![c] = Spent(c, s)]
  /\ out' = {}
  /\ UNCHANGED <<places, rates>>

\* Kind 0, a probe from a: the challenge that replaces the last one goes there.
Probe(c, s, a) ==
  /\ Fresh(c, s) /\ Takes(c)
  /\ udp' = [udp EXCEPT ![c] =
       [Numbered(c, Spent(c, s)) EXCEPT
          !.challenge = [address |-> a, nonce |-> s, stale |-> FALSE],
          !.shown = IF Sends(c) THEN @ \cup {[address |-> a, nonce |-> s]} ELSE @]]
  /\ out' = IF Sends(c) THEN {Made(c, "challenge", a, c)} ELSE {}
  /\ Charge({c})
  /\ UNCHANGED places

\* Mutant of Answers: the answer may come from elsewhere.
AnswersFromAnywhere(c, a, nonce) ==
  /\ udp[c].challenge # None
  /\ ~udp[c].challenge.stale /\ udp[c].challenge.nonce = nonce

\* The last challenge, in time, and from where it was sent to.
Answers(c, a, nonce) ==
  /\ udp[c].challenge # None
  /\ udp[c].challenge.address = a
  /\ ~udp[c].challenge.stale /\ udp[c].challenge.nonce = nonce

\* Kind 1, a confirmation from a with a challenge the client has seen.
Confirm(c, s, a, nonce) ==
  /\ Fresh(c, s) /\ Takes(c)
  /\ IF Answers(c, a, nonce)
     THEN /\ udp' = [udp EXCEPT ![c] =
               [Numbered(c, Spent(c, s)) EXCEPT
                  !.challenge = None,
                  !.endpoint = [address |-> a, stale |-> FALSE]]]
          /\ out' = IF Sends(c) THEN {Made(c, "bound", a, c)} ELSE {}
          /\ Charge({c})
     ELSE /\ udp' = [udp EXCEPT ![c] = Spent(c, s)]
          /\ out' = {}
          /\ UNCHANGED <<outRate, gave>>
  /\ UNCHANGED places

\* Who gets c's data: the members of its room with a binding that is not old.
Reachable(c, target) ==
  {q \in target \ {c} :
     room[q] = room[c] /\ Usable(q)
     /\ udp[q].endpoint # None /\ ~udp[q].endpoint.stale}

\* Kind 2, data from a: relayed if a is the client's endpoint, which this
\* keeps alive.
Relay(c, s, a, target) ==
  /\ Fresh(c, s) /\ Takes(c)
  /\ IF udp[c].endpoint # None /\ udp[c].endpoint.address = a /\ ~udp[c].endpoint.stale
     THEN LET R == Reachable(c, target) IN
          /\ udp' = [q \in Client |->
               IF q = c THEN Spent(c, s)
               ELSE IF q \in R THEN Numbered(q, udp[q]) ELSE udp[q]]
          /\ out' = {Made(q, "data", udp[q].endpoint.address, c) : q \in {r \in R : Sends(r)}}
          /\ Charge(R)
     ELSE /\ udp' = [udp EXCEPT ![c] = Spent(c, s)]
          /\ out' = {}
          /\ UNCHANGED <<outRate, gave>>
  /\ UNCHANGED places

-----------------------------------------------------------------------------
\* Requests, rooms and sockets

\* Mutant of OpenUdp: a new key has a new budget.
OpenUdpAfresh(c) ==
  /\ link[c] = "up" /\ room[c] # None
  /\ udp' = [udp EXCEPT ![c] = NewSession(c)]
  /\ inRate' = [inRate EXCEPT ![c] = 0] /\ outRate' = [outRate EXCEPT ![c] = 0]
  /\ out' = {}
  /\ UNCHANGED <<places, took, gave>>

\* openUdp, in a room: a new key.
OpenUdp(c) ==
  /\ link[c] = "up" /\ room[c] # None
  /\ udp' = [udp EXCEPT ![c] = NewSession(c)]
  /\ out' = {}
  /\ UNCHANGED <<places, rates>>

CloseUdp(c) ==
  /\ link[c] = "up" /\ udp[c] # None
  /\ udp' = [udp EXCEPT ![c] = None]
  /\ out' = {}
  /\ UNCHANGED <<places, rates>>

\* The clients in P change rooms, to r or to none.
Move(P, r) ==
  /\ room' = [c \in Client |-> IF c \in P THEN r ELSE room[c]]
  /\ version' = [c \in Client |-> IF c \in P THEN version[c] + 1 ELSE version[c]]
  /\ stay' = [c \in Client |-> IF c \in P THEN stay[c] + 1 ELSE stay[c]]

EnterRoom(c, r) ==
  /\ link[c] = "up" /\ room[c] = None
  /\ version[c] + 2 <= MaxVersion
  /\ Move({c}, r) /\ out' = {}
  /\ UNCHANGED <<link, udp, rates>>

\* leave(); the host of a game without migration takes everybody along.
LeaveRoom(c, endsGame) ==
  /\ room[c] # None
  /\ Move(IF endsGame THEN {q \in Client : room[q] = room[c]} ELSE {c}, None)
  /\ out' = {}
  /\ UNCHANGED <<link, udp, rates>>

\* close(): the socket is marked; its task ends later.
CloseSocket(c) ==
  /\ link[c] = "up" /\ link' = [link EXCEPT ![c] = "closing"]
  /\ out' = {}
  /\ UNCHANGED <<room, version, stay, udp, rates>>

\* disconnect(): leave() and the end of the connection.  (leave() advances the
\* version of an account in no room, too; no session is left to notice.)
Disconnect(c) ==
  /\ link[c] # "down" /\ link' = [link EXCEPT ![c] = "down"]
  /\ IF room[c] # None THEN Move({c}, None) ELSE UNCHANGED <<room, version, stay>>
  /\ udp' = [udp EXCEPT ![c] = None]
  /\ out' = {}
  /\ UNCHANGED rates

\* auth() on another socket, with or without the old one: a new connection,
\* in the old room unless a game with a fixed roster has started there.
Reconnect(c, stays) ==
  /\ link' = [link EXCEPT ![c] = "up"]
  /\ udp' = [udp EXCEPT ![c] = None]
  /\ IF stays \/ room[c] = None THEN UNCHANGED <<room, version, stay>> ELSE Move({c}, None)
  /\ inRate' = [inRate EXCEPT ![c] = 0] /\ outRate' = [outRate EXCEPT ![c] = 0]
  /\ took' = [took EXCEPT ![c] = 0] /\ gave' = [gave EXCEPT ![c] = 0]
  /\ out' = {}

-----------------------------------------------------------------------------
\* Time

EndpointAges(c) ==
  /\ udp[c] # None /\ udp[c].endpoint # None /\ ~udp[c].endpoint.stale
  /\ udp' = [udp EXCEPT ![c].endpoint.stale = TRUE]
  /\ out' = {}
  /\ UNCHANGED <<places, rates>>

ChallengeAges(c) ==
  /\ udp[c] # None /\ udp[c].challenge # None /\ ~udp[c].challenge.stale
  /\ udp' = [udp EXCEPT ![c].challenge.stale = TRUE]
  /\ out' = {}
  /\ UNCHANGED <<places, rates>>

\* A second after the first packet of a window, the next one starts afresh.
IncomingWindowEnds(c) ==
  /\ inRate[c] > 0 /\ inRate' = [inRate EXCEPT ![c] = 0] /\ took' = [took EXCEPT ![c] = 0]
  /\ out' = {}
  /\ UNCHANGED <<places, udp, outRate, gave>>
OutgoingWindowEnds(c) ==
  /\ outRate[c] > 0 /\ outRate' = [outRate EXCEPT ![c] = 0] /\ gave' = [gave EXCEPT ![c] = 0]
  /\ out' = {}
  /\ UNCHANGED <<places, udp, inRate, took>>

Targets == {Client} \cup {{q} : q \in Client}

Next ==
  \E c \in Client :
    \/ \E s \in 1 .. MaxSeq :
         \/ OverRate(c, s)
         \/ \E a \in Address :
              \/ Probe(c, s, a)
              \/ Usable(c) /\ \E x \in udp[c].shown : Confirm(c, s, a, x.nonce)
              \/ \E target \in Targets : Relay(c, s, a, target)
    \/ OpenUdp(c)
    \/ CloseUdp(c)
    \/ \E r \in Room : EnterRoom(c, r)
    \/ \E endsGame \in BOOLEAN : LeaveRoom(c, endsGame)
    \/ CloseSocket(c)
    \/ Disconnect(c)
    \/ \E stays \in BOOLEAN : Reconnect(c, stays)
    \/ EndpointAges(c)
    \/ ChallengeAges(c)
    \/ IncomingWindowEnds(c)
    \/ OutgoingWindowEnds(c)

Spec == Init /\ [][Next]_vars

-----------------------------------------------------------------------------
\* Properties

\* The window accepts every number once, in any order, unless it is Window or
\* more behind the highest (docs/udp.md, "Datagram layout"): Replay keeps
\* exactly the recent past of the session, however far it jumps.
WindowIsExact ==
  \A c \in Client : udp[c] # None =>
    \A s \in 0 .. MaxSeq :
      Accepts(udp[c].replay, s) <=>
        /\ s # 0 /\ s \notin udp[c].accepted
        /\ \A t \in udp[c].accepted : t - s < Window

\* Data goes only between clients who are in the same room now, under keys
\* both made since they came there; to a recipient whose socket is open, and
\* where a challenge was sent under its key.
DataStaysInRoom ==
  \A packet \in out : packet.kind = "data" =>
    /\ packet.from # packet.to
    /\ room[packet.from] # None /\ room[packet.from] = room[packet.to]
    /\ \A c \in {packet.from, packet.to} :
         link[c] = "up" /\ udp[c] # None /\ udp[c].stay = stay[c]
    /\ \E x \in udp[packet.to].shown : x.address = packet.address

\* No address is bound that did not answer: probes, late answers and answers
\* from elsewhere never redirect the traffic.
EndpointAnswered ==
  \A c \in Client : udp[c] # None /\ udp[c].endpoint # None =>
    \E x \in udp[c].shown : x.address = udp[c].endpoint.address

\* The limits hold per connection, whatever keys it had within the second;
\* what was not handled is not charged.
QuotasHold ==
  \A c \in Client :
    /\ took[c] <= InLimit /\ inRate[c] = took[c]
    /\ gave[c] <= OutLimit /\ gave[c] <= outRate[c]

\* Under one key the server never uses a sequence number again, nor after the
\* counter has reached its end.
NumbersAreFresh ==
  [][\A packet \in out' : udp[packet.to].outgoing < packet.seq]_vars
=============================================================================
