------------------------------ MODULE UdpProof ------------------------------
(***************************************************************************)
(* Udp: the replay window, and on it challenges, endpoints, rates, packets *)
(* and the types, for windows, limits and numbers of any size.             *)
(***************************************************************************)
EXTENDS Udp, TLAPS

-----------------------------------------------------------------------------
\* The inductive invariant.

\* The window knows the highest number and, of the last Window numbers,
\* exactly those it was accepted with.
Exact(w, accepted) ==
  /\ w \in Replay
  /\ accepted \in SUBSET (Nat \ {0})
  /\ \A t \in accepted : t <= w.highest
  /\ w.highest # 0 => w.highest \in accepted
  /\ \A d \in 0 .. Window - 1 : d \in w.seen <=> w.highest - d \in accepted

GoodSession(u) == u \in Session /\ Exact(u.replay, u.accepted)

UInv ==
  /\ udp \in [Client -> Session \cup {None}]
  /\ \A c \in Client : udp[c] # None => GoodSession(udp[c])
  /\ version \in [Client -> Nat] /\ stay \in [Client -> Nat]

-----------------------------------------------------------------------------
\* The window.

\* An exact window accepts what it should.
LEMMA AcceptsFacts ==
  ASSUME NEW w, NEW accepted, Exact(w, accepted), NEW s \in Nat
  PROVE  Accepts(w, s) <=>
           /\ s # 0 /\ s \notin accepted
           /\ \A t \in accepted : t - s < Window
<1>1. /\ w.highest \in Nat /\ \A t \in accepted : t \in Nat /\ t # 0 /\ t <= w.highest
      /\ w.highest # 0 => w.highest \in accepted
      /\ \A d \in 0 .. Window - 1 : d \in w.seen <=> w.highest - d \in accepted
  BY DEF Exact, Replay
<1>2. Window \in Nat /\ Window > 0
  BY UdpAssumption
<1>3. CASE s > w.highest
  <2>1. s # 0 /\ s \notin accepted /\ \A t \in accepted : t - s < Window
    BY <1>1, <1>2, <1>3
  <2>2. QED BY <1>3, <2>1 DEF Accepts
<1>4. CASE s = 0
  BY <1>1, <1>4 DEF Accepts
<1>5. CASE s <= w.highest /\ s # 0
  <2> DEFINE d == w.highest - s
  <2>1. d \in Nat /\ w.highest - d = s /\ ~(s > w.highest)
    BY <1>1, <1>5
  <2>2. w.highest \in accepted
    BY <1>1, <1>5
  <2>3. d < Window <=> \A t \in accepted : t - s < Window
    <3>1. ASSUME d < Window, NEW t \in accepted PROVE t - s < Window
      BY <1>1, <1>2, <3>1
    <3>2. QED BY <2>2, <3>1
  <2>4. d < Window => (d \in w.seen <=> s \in accepted)
    <3>1. d < Window => d \in 0 .. Window - 1
      BY <1>2, <2>1
    <3>2. QED BY <1>1, <2>1, <3>1
  <2>5. Accepts(w, s) <=> d < Window /\ d \notin w.seen
    BY <1>5, <2>1 DEF Accepts
  <2>6. QED BY <1>5, <2>3, <2>4, <2>5
<1>6. QED BY <1>1, <1>3, <1>4, <1>5

\* Accepting a number keeps the window exact.
LEMMA AdvancedFacts ==
  ASSUME NEW w, NEW accepted, Exact(w, accepted), NEW s \in Nat, Accepts(w, s)
  PROVE  Exact(Advanced(w, s), accepted \cup {s})
<1>1. /\ w \in Replay /\ w.highest \in Nat /\ w.seen \in SUBSET (0 .. Window - 1)
      /\ accepted \in SUBSET (Nat \ {0})
      /\ \A t \in accepted : t \in Nat /\ t <= w.highest
      /\ w.highest # 0 => w.highest \in accepted
      /\ \A d \in 0 .. Window - 1 : d \in w.seen <=> w.highest - d \in accepted
  BY DEF Exact, Replay
<1>2. Window \in Nat /\ Window > 0
  BY UdpAssumption
<1>3. s # 0
  BY AcceptsFacts
<1>4. CASE s > w.highest
  <2> DEFINE seen == {0} \cup {d \in 0 .. Window - 1 : d - (s - w.highest) \in w.seen}
             after == [highest |-> s, seen |-> seen]
  <2>1. Advanced(w, s) = after
    BY <1>4 DEF Advanced
  <2>2. seen \in SUBSET (0 .. Window - 1)
    BY <1>2
  <2>3. ASSUME NEW d \in 0 .. Window - 1
        PROVE  d \in seen <=> s - d \in accepted \cup {s}
    <3>1. CASE d = 0
      BY <3>1
    <3>2. CASE d # 0
      <4> DEFINE e == d - (s - w.highest)
      <4>1. d \in seen <=> e \in w.seen
        BY <3>2
      <4>2. s - d # s /\ w.highest - e = s - d
        BY <1>1, <3>2
      <4>3. CASE e \in 0 .. Window - 1
        BY <1>1, <4>1, <4>2, <4>3
      <4>4. CASE e \notin 0 .. Window - 1
        <5>1. e < 0
          BY <1>1, <1>2, <1>4, <4>4
        <5>2. s - d > w.highest
          BY <1>1, <5>1
        <5>3. s - d \notin accepted
          BY <1>1, <5>2
        <5>4. QED BY <1>1, <4>1, <4>2, <4>4, <5>3
      <4>5. QED BY <4>3, <4>4
    <3>3. QED BY <3>1, <3>2
  <2> HIDE DEF seen
  <2>4. after \in Replay /\ after.highest = s /\ after.seen = seen
    BY <2>2 DEF Replay
  <2>5. \A t \in accepted \cup {s} : t <= s
    BY <1>1, <1>4
  <2>6. accepted \cup {s} \in SUBSET (Nat \ {0})
    BY <1>1, <1>3
  <2> HIDE DEF after
  <2>7. QED BY <2>1, <2>3, <2>4, <2>5, <2>6 DEF Exact
<1>5. CASE ~(s > w.highest)
  <2> DEFINE e == w.highest - s
             after == [w EXCEPT !.seen = w.seen \cup {e}]
  <2>1. Advanced(w, s) = after
    BY <1>5 DEF Advanced
  <2>2. e \in 0 .. Window - 1
    BY <1>1, <1>2, <1>5 DEF Accepts
  <2>3. \A d \in 0 .. Window - 1 : w.highest - d = s <=> d = e
    BY <1>1, <1>2, <2>2
  <2> HIDE DEF e
  <2>4. after \in Replay /\ after.highest = w.highest /\ after.seen = w.seen \cup {e}
    BY <1>1, <2>2 DEF Replay
  <2>5. \A t \in accepted \cup {s} : t <= w.highest
    BY <1>1, <1>5
  <2>6. accepted \cup {s} \in SUBSET (Nat \ {0})
    BY <1>1, <1>3
  <2> HIDE DEF after
  <2>7. QED BY <1>1, <2>1, <2>2, <2>3, <2>4, <2>5, <2>6 DEF Exact
<1>6. QED BY <1>4, <1>5

-----------------------------------------------------------------------------
\* Sessions.

\* A new key has an exact window.
LEMMA NewSessionGood ==
  ASSUME NEW c \in Client, version[c] \in Nat, stay[c] \in Nat
  PROVE  GoodSession(NewSession(c))
<1> DEFINE w == [highest |-> 0, seen |-> {}]
           u == NewSession(c)
<1>1. w \in Replay
  BY DEF Replay
<1>2. u.replay = w /\ u.accepted = {}
  BY DEF NewSession
<1>3. Exact(w, {})
  BY <1>1 DEF Exact
<1>4. u \in Session
  BY <1>1, UdpAssumption DEF NewSession, Session
<1>5. QED BY <1>2, <1>3, <1>4 DEF GoodSession

\* A number that is spent enters the window.
LEMMA SpentGood ==
  ASSUME UInv, NEW c \in Client, NEW s \in Nat, Fresh(c, s)
  PROVE  GoodSession(Spent(c, s))
<1> DEFINE u == udp[c]
           w == Advanced(u.replay, s)
           numbers == u.accepted \cup {s}
<1>1. u \in Session /\ Exact(u.replay, u.accepted) /\ Accepts(u.replay, s)
  BY DEF UInv, Fresh, Usable, GoodSession
<1>2. Exact(w, numbers)
  BY <1>1, AdvancedFacts
<1>3. Spent(c, s) = [u EXCEPT !.replay = w, !.accepted = numbers]
  BY DEF Spent
<1> HIDE DEF u, w, numbers
<1>4. w \in Replay /\ numbers \in SUBSET Nat
  BY <1>2 DEF Exact
<1>5. /\ Spent(c, s) \in Session
      /\ Spent(c, s).replay = w /\ Spent(c, s).accepted = numbers
  BY <1>1, <1>3, <1>4 DEF Session
<1>6. QED BY <1>2, <1>5 DEF GoodSession

\* Numbering a packet leaves the window alone.
LEMMA NumberedGood ==
  ASSUME NEW c \in Client, NEW u, GoodSession(u)
  PROVE  GoodSession(Numbered(c, u))
<1>1. CASE ~Sends(c)
  BY <1>1 DEF Numbered
<1>2. CASE Sends(c)
  <2> DEFINE next == (u.outgoing + 1) % (MaxOutgoing + 1)
             v == [u EXCEPT !.outgoing = next]
  <2>1. u \in Session /\ u.outgoing \in 0 .. MaxOutgoing /\ MaxOutgoing \in Nat
    BY UdpAssumption DEF GoodSession, Session
  <2>2. next \in 0 .. MaxOutgoing
    <3> DEFINE a == u.outgoing + 1
               b == MaxOutgoing + 1
    <3>1. a \in Int /\ b \in Int /\ b > 0
      BY <2>1
    <3> HIDE DEF a, b
    <3>2. a % b \in 0 .. b - 1
      BY <3>1
    <3>3. QED BY <2>1, <3>2 DEF a, b
  <2>3. Numbered(c, u) = v
    BY <1>2 DEF Numbered
  <2> HIDE DEF next
  <2>4. v \in Session /\ v.replay = u.replay /\ v.accepted = u.accepted
    BY <2>1, <2>2 DEF Session
  <2>5. QED BY <2>3, <2>4 DEF GoodSession
<1>3. QED BY <1>1, <1>2

\* The other fields may be anything of their type.
LEMMA BoundGood ==
  ASSUME NEW u, GoodSession(u), NEW v \in Session,
         v.replay = u.replay, v.accepted = u.accepted
  PROVE  GoodSession(v)
BY DEF GoodSession

\* A step of one client's session.
LEMMA SessionStep ==
  ASSUME UInv, NEW c \in Client, NEW u, u = None \/ GoodSession(u),
         udp' = [udp EXCEPT ![c] = u],
         version' \in [Client -> Nat], stay' \in [Client -> Nat]
  PROVE  UInv'
BY DEF UInv, GoodSession

\* Changes of room keep their counters natural.
LEMMA MoveFacts ==
  ASSUME UInv, NEW P, NEW r, Move(P, r)
  PROVE  version' \in [Client -> Nat] /\ stay' \in [Client -> Nat]
BY DEF UInv, Move

\* A probe sets the challenge.
LEMMA ProbeGood ==
  ASSUME UInv, NEW c \in Client, NEW s \in Nat, NEW a \in Address, Probe(c, s, a)
  PROVE  UInv'
<1> DEFINE u == Numbered(c, Spent(c, s))
           challenge == [address |-> a, nonce |-> s, stale |-> FALSE]
           shown == IF Sends(c) THEN u.shown \cup {[address |-> a, nonce |-> s]}
                    ELSE u.shown
           v == [u EXCEPT !.challenge = challenge, !.shown = shown]
<1>1. GoodSession(u)
  BY SpentGood, NumberedGood DEF Probe
<1>2. udp' = [udp EXCEPT ![c] = v]
  BY DEF Probe
<1>3. challenge \in Challenge /\ [address |-> a, nonce |-> s] \in [address : Address, nonce : Nat]
  BY DEF Challenge
<1> HIDE DEF u, challenge
<1>4. u.shown \in SUBSET [address : Address, nonce : Nat] /\ u \in Session
  BY <1>1 DEF GoodSession, Session
<1>5. shown \in SUBSET [address : Address, nonce : Nat]
  BY <1>3, <1>4
<1> HIDE DEF shown
<1>6. v \in Session /\ v.replay = u.replay /\ v.accepted = u.accepted
  BY <1>3, <1>4, <1>5 DEF Session
<1> HIDE DEF v
<1>7. GoodSession(v)
  BY <1>1, <1>6, BoundGood
<1>8. version' = version /\ stay' = stay
  BY DEF Probe, places
<1>9. QED BY <1>2, <1>7, <1>8, SessionStep DEF UInv

\* A confirmation binds the endpoint.
LEMMA ConfirmGood ==
  ASSUME UInv, NEW c \in Client, NEW s \in Nat, NEW a \in Address, NEW nonce,
         Confirm(c, s, a, nonce)
  PROVE  UInv'
<1>1. version' = version /\ stay' = stay /\ GoodSession(Spent(c, s))
  BY SpentGood DEF Confirm, places
<1>2. CASE ~Answers(c, a, nonce)
  <2>1. udp' = [udp EXCEPT ![c] = Spent(c, s)]
    BY <1>2 DEF Confirm
  <2>2. QED BY <1>1, <2>1, SessionStep DEF UInv
<1>3. CASE Answers(c, a, nonce)
  <2> DEFINE u == Numbered(c, Spent(c, s))
             endpoint == [address |-> a, stale |-> FALSE]
             v == [u EXCEPT !.challenge = None, !.endpoint = endpoint]
  <2>1. GoodSession(u)
    BY <1>1, NumberedGood
  <2>2. udp' = [udp EXCEPT ![c] = v]
    BY <1>3 DEF Confirm
  <2>3. endpoint \in Binding
    BY DEF Binding
  <2> HIDE DEF u, endpoint
  <2>4. v \in Session /\ v.replay = u.replay /\ v.accepted = u.accepted
    BY <2>1, <2>3 DEF GoodSession, Session
  <2> HIDE DEF v
  <2>5. QED BY <1>1, <2>1, <2>2, <2>4, BoundGood, SessionStep DEF UInv
<1>4. QED BY <1>2, <1>3

\* Data takes a number of its sender, and numbers of its recipients.
LEMMA RelayGood ==
  ASSUME UInv, NEW c \in Client, NEW s \in Nat, NEW a \in Address, NEW target,
         Relay(c, s, a, target)
  PROVE  UInv'
<1>1. version' = version /\ stay' = stay /\ GoodSession(Spent(c, s))
  BY SpentGood DEF Relay, places
<1>2. CASE udp' = [udp EXCEPT ![c] = Spent(c, s)]
  BY <1>1, <1>2, SessionStep DEF UInv
<1>3. CASE udp' = [q \in Client |->
                     IF q = c THEN Spent(c, s)
                     ELSE IF q \in Reachable(c, target) THEN Numbered(q, udp[q]) ELSE udp[q]]
  <2>1. ASSUME NEW q \in Client PROVE udp'[q] = None \/ GoodSession(udp'[q])
    <3>1. q \in Reachable(c, target) => GoodSession(udp[q])
      BY DEF UInv, Reachable, Usable
    <3>2. q \in Reachable(c, target) => GoodSession(Numbered(q, udp[q]))
      BY <3>1, NumberedGood
    <3>3. QED BY <1>1, <1>3, <3>2 DEF UInv
  <2>2. DOMAIN udp' = Client /\ udp' = [q \in Client |-> udp'[q]]
    BY <1>3
  <2>3. QED BY <1>1, <2>1, <2>2 DEF UInv, GoodSession
<1>4. QED BY <1>2, <1>3 DEF Relay

\* Ageing touches neither window nor numbers.
LEMMA AgesGood ==
  ASSUME UInv, NEW c \in Client, EndpointAges(c) \/ ChallengeAges(c)
  PROVE  UInv'
<1> DEFINE u == udp[c]
<1>1. /\ GoodSession(u) /\ u \in Session
      /\ version' = version /\ stay' = stay
  BY DEF UInv, GoodSession, EndpointAges, ChallengeAges, places
<1>2. CASE EndpointAges(c)
  <2> DEFINE old == u.endpoint
             endpoint == [old EXCEPT !.stale = TRUE]
             v == [u EXCEPT !.endpoint = endpoint]
  <2>1. old \in Binding
    BY <1>1, <1>2 DEF EndpointAges, Session
  <2>2. udp' = [udp EXCEPT ![c] = v]
    BY <1>2 DEF EndpointAges
  <2> HIDE DEF u, old
  <2>3. endpoint \in Binding
    BY <2>1 DEF Binding
  <2> HIDE DEF endpoint
  <2>4. v \in Session /\ v.replay = u.replay /\ v.accepted = u.accepted
    BY <1>1, <2>3 DEF Session
  <2> HIDE DEF v
  <2>5. QED BY <1>1, <2>2, <2>4, BoundGood, SessionStep DEF UInv
<1>3. CASE ChallengeAges(c)
  <2> DEFINE old == u.challenge
             challenge == [old EXCEPT !.stale = TRUE]
             v == [u EXCEPT !.challenge = challenge]
  <2>1. old \in Challenge
    BY <1>1, <1>3 DEF ChallengeAges, Session
  <2>2. udp' = [udp EXCEPT ![c] = v]
    BY <1>3 DEF ChallengeAges
  <2> HIDE DEF u, old
  <2>3. challenge \in Challenge
    BY <2>1 DEF Challenge
  <2> HIDE DEF challenge
  <2>4. v \in Session /\ v.replay = u.replay /\ v.accepted = u.accepted
    BY <1>1, <2>3 DEF Session
  <2> HIDE DEF v
  <2>5. QED BY <1>1, <2>2, <2>4, BoundGood, SessionStep DEF UInv
<1>4. QED BY <1>2, <1>3

-----------------------------------------------------------------------------
\* The invariant.

LEMMA UInit == Init => UInv
BY DEF Init, Zero, UInv

LEMMA UNext == UInv /\ [Next]_vars => UInv'
<1> SUFFICES ASSUME UInv, [Next]_vars PROVE UInv'
  OBVIOUS
<1> USE DEF places
<1>0. \A s \in 1 .. MaxSeq : s \in Nat
  BY UdpAssumption
<1>1. ASSUME NEW c \in Client, NEW s \in 1 .. MaxSeq, OverRate(c, s) PROVE UInv'
  <2>1. GoodSession(Spent(c, s))
    BY <1>0, <1>1, SpentGood DEF OverRate
  <2>2. QED BY <1>1, <2>1, SessionStep DEF OverRate, UInv
<1>2. ASSUME NEW c \in Client, NEW s \in 1 .. MaxSeq, NEW a \in Address, Probe(c, s, a)
      PROVE  UInv'
  BY <1>0, <1>2, ProbeGood
<1>3. ASSUME NEW c \in Client, NEW s \in 1 .. MaxSeq, NEW a \in Address,
             NEW x \in udp[c].shown, Confirm(c, s, a, x.nonce)
      PROVE  UInv'
  BY <1>0, <1>3, ConfirmGood
<1>4. ASSUME NEW c \in Client, NEW s \in 1 .. MaxSeq, NEW a \in Address,
             NEW target \in Targets, Relay(c, s, a, target)
      PROVE  UInv'
  BY <1>0, <1>4, RelayGood
<1>5. ASSUME NEW c \in Client, OpenUdp(c) PROVE UInv'
  <2>1. GoodSession(NewSession(c))
    BY NewSessionGood DEF UInv
  <2>2. QED BY <1>5, <2>1, SessionStep DEF OpenUdp, UInv
<1>6. ASSUME NEW c \in Client, CloseUdp(c) PROVE UInv'
  BY <1>6, SessionStep DEF CloseUdp, UInv
<1>7. ASSUME NEW c \in Client, NEW r \in Room, EnterRoom(c, r) PROVE UInv'
  <2>1. version' \in [Client -> Nat] /\ stay' \in [Client -> Nat] /\ udp' = udp
    BY <1>7, MoveFacts DEF EnterRoom
  <2>2. QED BY <2>1 DEF UInv
<1>8. ASSUME NEW c \in Client, NEW endsGame \in BOOLEAN, LeaveRoom(c, endsGame) PROVE UInv'
  <2>1. version' \in [Client -> Nat] /\ stay' \in [Client -> Nat] /\ udp' = udp
    BY <1>8, MoveFacts DEF LeaveRoom
  <2>2. QED BY <2>1 DEF UInv
<1>9. ASSUME NEW c \in Client, CloseSocket(c) PROVE UInv'
  BY <1>9 DEF CloseSocket, UInv
<1>10. ASSUME NEW c \in Client, Disconnect(c) PROVE UInv'
  <2>1. /\ version' \in [Client -> Nat] /\ stay' \in [Client -> Nat]
        /\ udp' = [udp EXCEPT ![c] = None]
    BY <1>10, MoveFacts DEF Disconnect, UInv
  <2>2. QED BY <2>1, SessionStep
<1>11. ASSUME NEW c \in Client, NEW stays \in BOOLEAN, Reconnect(c, stays) PROVE UInv'
  <2>1. /\ version' \in [Client -> Nat] /\ stay' \in [Client -> Nat]
        /\ udp' = [udp EXCEPT ![c] = None]
    BY <1>11, MoveFacts DEF Reconnect, UInv
  <2>2. QED BY <2>1, SessionStep
<1>12. ASSUME NEW c \in Client, EndpointAges(c) \/ ChallengeAges(c) PROVE UInv'
  BY <1>12, AgesGood
<1>13. ASSUME NEW c \in Client, IncomingWindowEnds(c) \/ OutgoingWindowEnds(c) PROVE UInv'
  BY <1>13 DEF IncomingWindowEnds, OutgoingWindowEnds, UInv
<1>14. CASE UNCHANGED vars
  BY <1>14 DEF vars, UInv
<1>15. QED
  BY <1>1, <1>2, <1>3, <1>4, <1>5, <1>6, <1>7, <1>8, <1>9, <1>10, <1>11, <1>12, <1>13,
     <1>14 DEF Next

\* Every session's window is exact, in every reachable state.
THEOREM UInvHolds == Spec => []UInv
BY UInit, UNext, PTL DEF Spec

\* Replay::accept takes every sequence number once, in any order, unless it is
\* the width of the window or more behind the highest.
THEOREM WindowSafe == Spec => []WindowIsExact
<1>1. UInv => WindowIsExact
  <2> SUFFICES ASSUME UInv, NEW c \in Client, udp[c] # None, NEW s \in 0 .. MaxSeq
               PROVE  Accepts(udp[c].replay, s) <=>
                        /\ s # 0 /\ s \notin udp[c].accepted
                        /\ \A t \in udp[c].accepted : t - s < Window
    BY DEF WindowIsExact
  <2>1. Exact(udp[c].replay, udp[c].accepted) /\ s \in Nat
    BY UdpAssumption DEF UInv, GoodSession
  <2>2. QED BY <2>1, AcceptsFacts
<1>2. QED BY <1>1, UInvHolds, PTL

-----------------------------------------------------------------------------
\* Challenges, endpoints and stays.

\* A number names one challenge, which went to one address, and an endpoint
\* has been sent one.
Answered(u) ==
  /\ u.version = u.stay
  /\ \A x \in u.shown : x.nonce \in u.accepted
  /\ u.challenge # None =>
       \A x \in u.shown : x.nonce = u.challenge.nonce => x.address = u.challenge.address
  /\ u.endpoint # None => \E x \in u.shown : x.address = u.endpoint.address

HInv ==
  /\ version = stay
  /\ \A c \in Client : udp[c] # None => Answered(udp[c])

\* What spending a number changes in a session.
LEMMA SpentFacts ==
  ASSUME UInv, HInv, NEW c \in Client, NEW s \in Nat, Fresh(c, s)
  PROVE  /\ GoodSession(Spent(c, s)) /\ Answered(Spent(c, s))
         /\ Spent(c, s).challenge = udp[c].challenge /\ Spent(c, s).shown = udp[c].shown
         /\ Spent(c, s).endpoint = udp[c].endpoint /\ Spent(c, s).stay = udp[c].stay
         /\ Spent(c, s).outgoing = udp[c].outgoing
         /\ s \in Spent(c, s).accepted /\ \A x \in Spent(c, s).shown : x.nonce # s
<1> DEFINE u == udp[c]
           v == Spent(c, s)
           w == Advanced(u.replay, s)
           numbers == u.accepted \cup {s}
<1>1. u \in Session /\ Exact(u.replay, u.accepted) /\ Accepts(u.replay, s) /\ Answered(u)
  BY DEF UInv, HInv, Fresh, Usable, GoodSession
<1>2. s \notin u.accepted
  BY <1>1, AcceptsFacts
<1>3. v = [u EXCEPT !.replay = w, !.accepted = numbers]
  BY DEF Spent
<1>4. GoodSession(v)
  BY SpentGood
<1> HIDE DEF u, v, w
<1>5. /\ v.accepted = numbers /\ v.challenge = u.challenge /\ v.shown = u.shown
      /\ v.endpoint = u.endpoint /\ v.stay = u.stay /\ v.version = u.version
      /\ v.outgoing = u.outgoing
  BY <1>1, <1>3 DEF Session
<1>6. Answered(v) /\ s \in v.accepted /\ \A x \in v.shown : x.nonce # s
  BY <1>1, <1>2, <1>5 DEF Answered
<1>7. QED BY <1>4, <1>5, <1>6 DEF u, v

\* A packet's number changes nothing else of the session.
LEMMA NumberedFacts ==
  ASSUME NEW c \in Client, NEW u, GoodSession(u)
  PROVE  /\ GoodSession(Numbered(c, u))
         /\ \E n \in Nat : Numbered(c, u) = [u EXCEPT !.outgoing = n]
         /\ Sends(c) /\ u = udp[c] => Numbered(c, u).outgoing = u.outgoing + 1
<1>1. u \in Session /\ u.outgoing \in 0 .. MaxOutgoing /\ MaxOutgoing \in Nat
  BY UdpAssumption DEF GoodSession, Session
<1>2. GoodSession(Numbered(c, u))
  BY NumberedGood
<1> DEFINE next == (u.outgoing + 1) % (MaxOutgoing + 1)
<1>3. CASE ~Sends(c)
  <2>1. Numbered(c, u) = [u EXCEPT !.outgoing = u.outgoing]
    BY <1>1, <1>3 DEF Numbered, Session
  <2>2. QED BY <1>1, <1>2, <1>3, <2>1
<1>4. CASE Sends(c)
  <2>1. next \in Nat /\ (u.outgoing < MaxOutgoing => next = u.outgoing + 1)
    <3> DEFINE a == u.outgoing + 1
               b == MaxOutgoing + 1
    <3>1. a \in Nat /\ b \in Nat /\ b > 0 /\ (u.outgoing < MaxOutgoing => a < b)
      BY <1>1
    <3> HIDE DEF a, b
    <3>2. a % b \in Nat /\ (a < b => a % b = a)
      BY <3>1
    <3>3. QED BY <3>1, <3>2 DEF a, b
  <2>2. Numbered(c, u) = [u EXCEPT !.outgoing = next]
    BY <1>4 DEF Numbered
  <2> HIDE DEF next
  <2>3. Numbered(c, u).outgoing = next
    BY <1>1, <2>2 DEF Session
  <2>4. u = udp[c] => u.outgoing < MaxOutgoing
    BY <1>4 DEF Sends
  <2>5. QED BY <1>2, <2>1, <2>2, <2>3, <2>4
<1>5. QED BY <1>3, <1>4

LEMMA NumberedAnswered ==
  ASSUME NEW c \in Client, NEW u, GoodSession(u), Answered(u)
  PROVE  /\ Answered(Numbered(c, u))
         /\ Numbered(c, u).shown = u.shown /\ Numbered(c, u).accepted = u.accepted
         /\ Numbered(c, u).stay = u.stay /\ Numbered(c, u).version = u.version
         /\ Numbered(c, u).endpoint = u.endpoint /\ Numbered(c, u).challenge = u.challenge
<1>1. PICK n \in Nat : Numbered(c, u) = [u EXCEPT !.outgoing = n]
  BY NumberedFacts
<1> DEFINE v == Numbered(c, u)
<1> HIDE DEF v
<1>2. /\ v.shown = u.shown /\ v.accepted = u.accepted /\ v.stay = u.stay
      /\ v.version = u.version /\ v.endpoint = u.endpoint /\ v.challenge = u.challenge
  BY <1>1 DEF GoodSession, Session, v
<1>3. QED BY <1>2 DEF Answered, v

\* A step of one client's session, in its place.
LEMMA AnsweredStep ==
  ASSUME UInv, HInv, NEW c \in Client, NEW u, u = None \/ Answered(u),
         udp' = [udp EXCEPT ![c] = u], version' = stay'
  PROVE  HInv'
BY DEF UInv, HInv, Answered

\* A probe's number is new, so no earlier challenge bears it.
LEMMA ProbeAnswered ==
  ASSUME UInv, HInv, NEW c \in Client, NEW s \in Nat, NEW a \in Address, Probe(c, s, a)
  PROVE  HInv'
<1> DEFINE u == Numbered(c, Spent(c, s))
           x == [address |-> a, nonce |-> s]
           challenge == [address |-> a, nonce |-> s, stale |-> FALSE]
           shown == IF Sends(c) THEN u.shown \cup {x} ELSE u.shown
           v == [u EXCEPT !.challenge = challenge, !.shown = shown]
<1>1. Fresh(c, s) /\ udp' = [udp EXCEPT ![c] = v] /\ version' = stay'
  BY DEF Probe, places, HInv
<1>2. /\ GoodSession(u) /\ Answered(u) /\ s \in u.accepted
      /\ \A y \in u.shown : y.nonce # s
  BY <1>1, SpentFacts, NumberedFacts, NumberedAnswered
<1>3. /\ x.address = a /\ x.nonce = s
      /\ challenge.address = a /\ challenge.nonce = s
  OBVIOUS
<1> HIDE DEF u, x, challenge
<1>4. \A y \in shown : y \in u.shown \/ y = x
  OBVIOUS
<1>5. u.shown \subseteq shown
  OBVIOUS
<1> HIDE DEF shown
<1>6. /\ v.challenge = challenge /\ v.shown = shown /\ v.accepted = u.accepted
      /\ v.endpoint = u.endpoint /\ v.stay = u.stay /\ v.version = u.version
  BY <1>2 DEF GoodSession, Session
<1> HIDE DEF v
<1>7. Answered(v)
  <2>1. v.version = v.stay
    BY <1>2, <1>6 DEF Answered
  <2>2. ASSUME NEW y \in v.shown
        PROVE  /\ y.nonce \in v.accepted
               /\ y.nonce = v.challenge.nonce => y.address = v.challenge.address
    <3>1. y \in u.shown \/ y = x
      BY <1>4, <1>6
    <3>2. QED BY <1>2, <1>3, <1>6, <3>1 DEF Answered
  <2>3. v.endpoint # None => \E y \in v.shown : y.address = v.endpoint.address
    BY <1>2, <1>5, <1>6 DEF Answered
  <2>4. QED BY <2>1, <2>2, <2>3 DEF Answered
<1>8. QED BY <1>1, <1>7, AnsweredStep

\* Who answers a challenge is where it went.
LEMMA ConfirmAnswered ==
  ASSUME UInv, HInv, NEW c \in Client, NEW s \in Nat, NEW a \in Address,
         NEW x \in udp[c].shown, Confirm(c, s, a, x.nonce)
  PROVE  HInv'
<1>1. Fresh(c, s) /\ version' = stay'
  BY DEF Confirm, places, HInv
<1>2. GoodSession(Spent(c, s)) /\ Answered(Spent(c, s)) /\ Spent(c, s).shown = udp[c].shown
      /\ Spent(c, s).challenge = udp[c].challenge
  BY <1>1, SpentFacts
<1>3. CASE ~Answers(c, a, x.nonce)
  <2>1. udp' = [udp EXCEPT ![c] = Spent(c, s)]
    BY <1>3 DEF Confirm
  <2>2. QED BY <1>1, <1>2, <2>1, AnsweredStep
<1>4. CASE Answers(c, a, x.nonce)
  <2> DEFINE u == Numbered(c, Spent(c, s))
             endpoint == [address |-> a, stale |-> FALSE]
             v == [u EXCEPT !.challenge = None, !.endpoint = endpoint]
  <2>1. udp' = [udp EXCEPT ![c] = v]
    BY <1>4 DEF Confirm
  <2>2. GoodSession(u) /\ Answered(u) /\ x \in u.shown /\ u.challenge = udp[c].challenge
    BY <1>2, NumberedFacts, NumberedAnswered
  <2>3. endpoint.address = a
    OBVIOUS
  <2> HIDE DEF u, endpoint
  <2>4. x.address = a
    BY <1>4, <2>2 DEF Answers, Answered
  <2>5. /\ v.challenge = None /\ v.endpoint = endpoint /\ v.shown = u.shown
        /\ v.accepted = u.accepted /\ v.stay = u.stay /\ v.version = u.version
    BY <2>2 DEF GoodSession, Session
  <2> HIDE DEF v
  <2>6. Answered(v)
    BY <2>2, <2>3, <2>4, <2>5 DEF Answered
  <2>7. QED BY <1>1, <2>1, <2>6, AnsweredStep
<1>5. QED BY <1>3, <1>4

LEMMA RelayAnswered ==
  ASSUME UInv, HInv, NEW c \in Client, NEW s \in Nat, NEW a \in Address, NEW target,
         Relay(c, s, a, target)
  PROVE  HInv'
<1>1. Fresh(c, s) /\ version' = stay'
  BY DEF Relay, places, HInv
<1>2. Answered(Spent(c, s))
  BY <1>1, SpentFacts
<1>3. CASE udp' = [udp EXCEPT ![c] = Spent(c, s)]
  BY <1>1, <1>2, <1>3, AnsweredStep
<1>4. CASE udp' = [q \in Client |->
                     IF q = c THEN Spent(c, s)
                     ELSE IF q \in Reachable(c, target) THEN Numbered(q, udp[q]) ELSE udp[q]]
  <2>1. ASSUME NEW q \in Client, udp'[q] # None PROVE Answered(udp'[q])
    <3>1. q \in Reachable(c, target) => GoodSession(udp[q]) /\ Answered(udp[q])
      BY DEF UInv, HInv, Reachable, Usable
    <3>2. q \in Reachable(c, target) => Answered(Numbered(q, udp[q]))
      BY <3>1, NumberedAnswered
    <3>3. CASE q = c
      BY <1>2, <1>4, <3>3
    <3>4. CASE q # c /\ q \in Reachable(c, target)
      BY <1>4, <3>2, <3>4
    <3>5. CASE q # c /\ q \notin Reachable(c, target)
      <4>1. udp'[q] = udp[q]
        BY <1>4, <3>5
      <4>2. QED BY <2>1, <4>1 DEF HInv
    <3>6. QED BY <3>3, <3>4, <3>5
  <2>2. QED BY <1>1, <2>1 DEF HInv, Answered
<1>5. QED BY <1>3, <1>4 DEF Relay

\* Ageing leaves addresses and numbers.
LEMMA AgesAnswered ==
  ASSUME UInv, HInv, NEW c \in Client, EndpointAges(c) \/ ChallengeAges(c)
  PROVE  HInv'
<1> DEFINE u == udp[c]
<1>1. /\ u \in Session /\ Answered(u) /\ version' = stay'
  BY DEF UInv, HInv, GoodSession, EndpointAges, ChallengeAges, places
<1>2. CASE EndpointAges(c)
  <2> DEFINE old == u.endpoint
             endpoint == [old EXCEPT !.stale = TRUE]
             v == [u EXCEPT !.endpoint = endpoint]
  <2>1. old \in Binding /\ old # None
    BY <1>1, <1>2 DEF EndpointAges, Session
  <2>2. udp' = [udp EXCEPT ![c] = v]
    BY <1>2 DEF EndpointAges
  <2> HIDE DEF u
  <2>3. endpoint.address = old.address
    BY <2>1 DEF Binding
  <2> HIDE DEF endpoint
  <2>4. /\ v.endpoint = endpoint /\ v.shown = u.shown /\ v.accepted = u.accepted
        /\ v.challenge = u.challenge /\ v.stay = u.stay /\ v.version = u.version
    BY <1>1 DEF Session
  <2> HIDE DEF v
  <2>5. Answered(v)
    BY <1>1, <2>1, <2>3, <2>4 DEF Answered
  <2>6. QED BY <1>1, <2>2, <2>5, AnsweredStep
<1>3. CASE ChallengeAges(c)
  <2> DEFINE old == u.challenge
             challenge == [old EXCEPT !.stale = TRUE]
             v == [u EXCEPT !.challenge = challenge]
  <2>1. old \in Challenge /\ old # None
    BY <1>1, <1>3 DEF ChallengeAges, Session
  <2>2. udp' = [udp EXCEPT ![c] = v]
    BY <1>3 DEF ChallengeAges
  <2> HIDE DEF u
  <2>3. challenge.address = old.address /\ challenge.nonce = old.nonce
    BY <2>1 DEF Challenge
  <2> HIDE DEF challenge
  <2>4. /\ v.challenge = challenge /\ v.shown = u.shown /\ v.accepted = u.accepted
        /\ v.endpoint = u.endpoint /\ v.stay = u.stay /\ v.version = u.version
    BY <1>1 DEF Session
  <2> HIDE DEF v
  <2>5. Answered(v)
    BY <1>1, <2>1, <2>3, <2>4 DEF Answered
  <2>6. QED BY <1>1, <2>2, <2>5, AnsweredStep
<1>4. QED BY <1>2, <1>3

\* Versions and stays count the same moves.
LEMMA MoveTogether ==
  ASSUME UInv, HInv, NEW P, NEW r, Move(P, r)
  PROVE  version' = stay'
BY DEF UInv, HInv, Move

LEMMA HNext == UInv /\ HInv /\ [Next]_vars => HInv'
<1> SUFFICES ASSUME UInv, HInv, [Next]_vars PROVE HInv'
  OBVIOUS
<1> USE DEF places
<1>0. (\A s \in 1 .. MaxSeq : s \in Nat) /\ version = stay
  BY UdpAssumption DEF HInv
<1>1. ASSUME NEW c \in Client, NEW s \in 1 .. MaxSeq, OverRate(c, s) PROVE HInv'
  <2>1. Answered(Spent(c, s))
    BY <1>0, <1>1, SpentFacts DEF OverRate
  <2>2. udp' = [udp EXCEPT ![c] = Spent(c, s)] /\ version' = stay'
    BY <1>0, <1>1 DEF OverRate
  <2>3. QED BY <2>1, <2>2, AnsweredStep
<1>2. ASSUME NEW c \in Client, NEW s \in 1 .. MaxSeq, NEW a \in Address, Probe(c, s, a)
      PROVE  HInv'
  BY <1>0, <1>2, ProbeAnswered
<1>3. ASSUME NEW c \in Client, NEW s \in 1 .. MaxSeq, NEW a \in Address,
             NEW x \in udp[c].shown, Confirm(c, s, a, x.nonce)
      PROVE  HInv'
  BY <1>0, <1>3, ConfirmAnswered
<1>4. ASSUME NEW c \in Client, NEW s \in 1 .. MaxSeq, NEW a \in Address,
             NEW target \in Targets, Relay(c, s, a, target)
      PROVE  HInv'
  BY <1>0, <1>4, RelayAnswered
<1>5. ASSUME NEW c \in Client, OpenUdp(c) PROVE HInv'
  <2>1. Answered(NewSession(c))
    BY <1>0 DEF NewSession, Answered
  <2>2. udp' = [udp EXCEPT ![c] = NewSession(c)] /\ version' = stay'
    BY <1>0, <1>5 DEF OpenUdp
  <2>3. QED BY <2>1, <2>2, AnsweredStep
<1>6. ASSUME NEW c \in Client, CloseUdp(c) PROVE HInv'
  BY <1>0, <1>6, AnsweredStep DEF CloseUdp
<1>7. ASSUME NEW c \in Client, NEW r \in Room, EnterRoom(c, r) PROVE HInv'
  BY <1>7, MoveTogether DEF EnterRoom, HInv
<1>8. ASSUME NEW c \in Client, NEW endsGame \in BOOLEAN, LeaveRoom(c, endsGame) PROVE HInv'
  BY <1>8, MoveTogether DEF LeaveRoom, HInv
<1>9. ASSUME NEW c \in Client, CloseSocket(c) PROVE HInv'
  BY <1>9 DEF CloseSocket, HInv
<1>10. ASSUME NEW c \in Client, Disconnect(c) PROVE HInv'
  <2>1. version' = stay'
    BY <1>0, <1>10, MoveTogether DEF Disconnect
  <2>2. udp' = [udp EXCEPT ![c] = None]
    BY <1>10 DEF Disconnect
  <2>3. QED BY <2>1, <2>2, AnsweredStep
<1>11. ASSUME NEW c \in Client, NEW stays \in BOOLEAN, Reconnect(c, stays) PROVE HInv'
  <2>1. version' = stay'
    BY <1>0, <1>11, MoveTogether DEF Reconnect
  <2>2. udp' = [udp EXCEPT ![c] = None]
    BY <1>11 DEF Reconnect
  <2>3. QED BY <2>1, <2>2, AnsweredStep
<1>12. ASSUME NEW c \in Client, EndpointAges(c) \/ ChallengeAges(c) PROVE HInv'
  BY <1>12, AgesAnswered
<1>13. ASSUME NEW c \in Client, IncomingWindowEnds(c) \/ OutgoingWindowEnds(c) PROVE HInv'
  BY <1>13 DEF IncomingWindowEnds, OutgoingWindowEnds, HInv
<1>14. CASE UNCHANGED vars
  BY <1>14 DEF vars, HInv
<1>15. QED
  BY <1>1, <1>2, <1>3, <1>4, <1>5, <1>6, <1>7, <1>8, <1>9, <1>10, <1>11, <1>12, <1>13,
     <1>14 DEF Next

LEMMA HInvHolds == Spec => [](UInv /\ HInv)
<1>1. Init => HInv
  BY DEF Init, Zero, HInv
<1>2. QED BY <1>1, UInit, UNext, HNext, PTL DEF Spec

\* Whatever probes, late answers and answers from elsewhere confirm() is given,
\* Session.endpoint is an address which was sent a challenge under its key.
THEOREM EndpointSafe == Spec => []EndpointAnswered
<1>1. HInv => EndpointAnswered
  BY DEF HInv, Answered, EndpointAnswered
<1>2. QED BY <1>1, HInvHolds, PTL

-----------------------------------------------------------------------------
\* Rates.

\* What is counted is what was done, and within the limits.
RInv ==
  /\ inRate \in [Client -> 0 .. InLimit] /\ took = inRate
  /\ outRate \in [Client -> 0 .. OutLimit] /\ gave \in [Client -> Nat]
  /\ \A c \in Client : gave[c] <= outRate[c]

LEMMA TakesFacts ==
  ASSUME RInv, NEW c \in Client, Takes(c)
  PROVE  inRate' \in [Client -> 0 .. InLimit] /\ took' = inRate'
<1>1. InLimit \in Nat /\ inRate[c] \in 0 .. InLimit
  BY UdpAssumption DEF RInv
<1>2. Counted(inRate[c]) \in 0 .. InLimit
  BY <1>1 DEF Takes, Below, Counted
<1>3. inRate' = [inRate EXCEPT ![c] = Counted(inRate[c])]
      /\ took' = [took EXCEPT ![c] = Counted(took[c])]
  BY DEF Takes
<1>4. QED BY <1>2, <1>3 DEF RInv

LEMMA ChargeFacts ==
  ASSUME RInv, NEW R, Charge(R)
  PROVE  /\ outRate' \in [Client -> 0 .. OutLimit] /\ gave' \in [Client -> Nat]
         /\ \A c \in Client : gave'[c] <= outRate'[c]
<1>1. ASSUME NEW c \in Client
      PROVE  /\ outRate'[c] \in 0 .. OutLimit /\ gave'[c] \in Nat /\ gave'[c] <= outRate'[c]
  <2>1. OutLimit \in Nat /\ outRate[c] \in 0 .. OutLimit /\ gave[c] \in Nat
        /\ gave[c] <= outRate[c]
    BY UdpAssumption DEF RInv
  <2>2. /\ outRate'[c] = IF c \in R /\ Below(outRate[c], OutLimit)
                         THEN Counted(outRate[c]) ELSE outRate[c]
        /\ gave'[c] = IF c \in R /\ Sends(c) THEN Counted(gave[c]) ELSE gave[c]
        /\ Sends(c) => Below(outRate[c], OutLimit)
    BY DEF Charge, Sends
  <2>3. QED BY <2>1, <2>2 DEF Below, Counted
<1>2. DOMAIN outRate' = Client /\ DOMAIN gave' = Client
      /\ outRate' = [c \in Client |-> outRate'[c]] /\ gave' = [c \in Client |-> gave'[c]]
  BY DEF Charge
<1>3. QED BY <1>1, <1>2

LEMMA RNext == RInv /\ [Next]_vars => RInv'
<1> SUFFICES ASSUME RInv, [Next]_vars PROVE RInv'
  OBVIOUS
<1> USE DEF rates
<1>1. CASE UNCHANGED rates
  BY <1>1 DEF RInv
<1>2. ASSUME NEW c \in Client, Takes(c), (\E R : Charge(R)) \/ UNCHANGED <<outRate, gave>>
      PROVE  RInv'
  <2>1. inRate' \in [Client -> 0 .. InLimit] /\ took' = inRate'
    BY <1>2, TakesFacts
  <2>2. /\ outRate' \in [Client -> 0 .. OutLimit] /\ gave' \in [Client -> Nat]
        /\ \A q \in Client : gave'[q] <= outRate'[q]
    <3>1. CASE \E R : Charge(R)
      BY <3>1, ChargeFacts
    <3>2. CASE UNCHANGED <<outRate, gave>>
      BY <3>2 DEF RInv
    <3>3. QED BY <1>2, <3>1, <3>2
  <2>3. QED BY <2>1, <2>2 DEF RInv
<1>3. ASSUME NEW c \in Client,
             \/ \E s, a : Probe(c, s, a)
             \/ \E s, a, nonce : Confirm(c, s, a, nonce)
             \/ \E s, a, target : Relay(c, s, a, target)
      PROVE  RInv'
  <2>1. Takes(c) /\ ((\E R : Charge(R)) \/ UNCHANGED <<outRate, gave>>)
    <3>1. CASE \E s, a : Probe(c, s, a)
      BY <3>1 DEF Probe
    <3>2. CASE \E s, a, nonce : Confirm(c, s, a, nonce)
      BY <3>2 DEF Confirm
    <3>3. CASE \E s, a, target : Relay(c, s, a, target)
      BY <3>3 DEF Relay
    <3>4. QED BY <1>3, <3>1, <3>2, <3>3
  <2>2. QED BY <1>2, <2>1
<1>4. ASSUME NEW c \in Client,
             (\E stays \in BOOLEAN : Reconnect(c, stays))
               \/ IncomingWindowEnds(c) \/ OutgoingWindowEnds(c)
      PROVE  RInv'
  <2>1. 0 \in 0 .. InLimit /\ 0 \in 0 .. OutLimit
    BY UdpAssumption
  <2>2. \A n \in 0 .. OutLimit : 0 <= n
    BY UdpAssumption
  <2>3. QED BY <1>4, <2>1, <2>2 DEF RInv, Reconnect, IncomingWindowEnds, OutgoingWindowEnds
<1>5. ASSUME NEW c \in Client,
             \/ \E s \in 1 .. MaxSeq : OverRate(c, s)
             \/ OpenUdp(c) \/ CloseUdp(c) \/ CloseSocket(c) \/ Disconnect(c)
             \/ \E r \in Room : EnterRoom(c, r)
             \/ \E endsGame \in BOOLEAN : LeaveRoom(c, endsGame)
             \/ EndpointAges(c) \/ ChallengeAges(c)
      PROVE  RInv'
  <2>1. UNCHANGED rates
    BY <1>5 DEF OverRate, OpenUdp, CloseUdp, CloseSocket, Disconnect, EnterRoom, LeaveRoom,
                EndpointAges, ChallengeAges
  <2>2. QED BY <1>1, <2>1
<1>6. CASE UNCHANGED vars
  BY <1>1, <1>6 DEF vars
<1>7. QED BY <1>3, <1>4, <1>5, <1>6 DEF Next

LEMMA RInvHolds == Spec => []RInv
<1>1. Init => RInv
  <2>1. 0 \in 0 .. InLimit /\ 0 \in 0 .. OutLimit
    BY UdpAssumption
  <2>2. QED BY <2>1 DEF Init, Zero, RInv
<1>2. QED BY <1>1, RNext, PTL DEF Spec

\* Rate::accept limits a connection whatever keys openUdp gives it.
THEOREM QuotasSafe == Spec => []QuotasHold
<1>1. RInv => QuotasHold
  <2> SUFFICES ASSUME RInv, NEW c \in Client
               PROVE  /\ took[c] <= InLimit /\ inRate[c] = took[c]
                      /\ gave[c] <= OutLimit /\ gave[c] <= outRate[c]
    BY DEF QuotasHold
  <2>1. InLimit \in Nat /\ OutLimit \in Nat /\ inRate[c] \in 0 .. InLimit
        /\ outRate[c] \in 0 .. OutLimit /\ gave[c] \in Nat
    BY UdpAssumption DEF RInv
  <2>2. QED BY <2>1 DEF RInv
<1>2. QED BY <1>1, RInvHolds, PTL

-----------------------------------------------------------------------------
\* Packets.

LEMMA MadeFacts ==
  ASSUME UInv, NEW q \in Client, udp[q] # None, Sends(q),
         NEW kind \in {"challenge", "bound", "data"}, NEW a \in Address, NEW c \in Client
  PROVE  /\ Made(q, kind, a, c) \in Packet
         /\ udp[Made(q, kind, a, c).to].outgoing < Made(q, kind, a, c).seq
<1>1. GoodSession(udp[q]) /\ udp[q].outgoing \in Nat
  BY UdpAssumption DEF UInv, GoodSession, Session
<1>2. Numbered(q, udp[q]).outgoing = udp[q].outgoing + 1
  BY <1>1, NumberedFacts
<1> DEFINE n == Numbered(q, udp[q]).outgoing
           p == [to |-> q, address |-> a, kind |-> kind, from |-> c, seq |-> n]
<1>3. Made(q, kind, a, c) = p
  BY DEF Made
<1> HIDE DEF n
<1>4. p \in Packet /\ p.to = q /\ p.seq = n
  <2>1. n \in Nat
    BY <1>1, <1>2 DEF n
  <2>2. QED BY <2>1 DEF Packet
<1> HIDE DEF p
<1>5. QED BY <1>1, <1>2, <1>3, <1>4 DEF n

\* The packets of any step.
LEMMA SentFacts ==
  ASSUME UInv, Next
  PROVE  /\ out' \subseteq Packet
         /\ \A packet \in out' : udp[packet.to].outgoing < packet.seq
<1> DEFINE Good(sent) == /\ sent \subseteq Packet
                         /\ \A packet \in sent : udp[packet.to].outgoing < packet.seq
<1> SUFFICES Good(out')
  OBVIOUS
<1>0. Good({}) /\ \A p \in Packet : udp[p.to].outgoing < p.seq => Good({p})
  OBVIOUS
<1>1. ASSUME NEW c \in Client, NEW s, NEW a \in Address, Probe(c, s, a) PROVE Good(out')
  <2>1. udp[c] # None
    BY <1>1 DEF Probe, Fresh, Usable
  <2>2. out' = IF Sends(c) THEN {Made(c, "challenge", a, c)} ELSE {}
    BY <1>1 DEF Probe
  <2>3. QED BY <1>0, <2>1, <2>2, MadeFacts
<1>2. ASSUME NEW c \in Client, NEW s, NEW a \in Address, NEW nonce, Confirm(c, s, a, nonce)
      PROVE  Good(out')
  <2>1. udp[c] # None
    BY <1>2 DEF Confirm, Fresh, Usable
  <2>2. out' = {} \/ (Sends(c) /\ out' = {Made(c, "bound", a, c)})
    BY <1>2 DEF Confirm
  <2>3. QED BY <1>0, <2>1, <2>2, MadeFacts
<1>3. ASSUME NEW c \in Client, NEW s, NEW a, NEW target \in Targets, Relay(c, s, a, target)
      PROVE  Good(out')
  <2> DEFINE R == Reachable(c, target)
  <2>1. \/ out' = {}
        \/ out' = {Made(q, "data", udp[q].endpoint.address, c) : q \in {r \in R : Sends(r)}}
    BY <1>3 DEF Relay
  <2>2. ASSUME NEW q \in R, Sends(q)
        PROVE  /\ Made(q, "data", udp[q].endpoint.address, c) \in Packet
               /\ udp[Made(q, "data", udp[q].endpoint.address, c).to].outgoing
                    < Made(q, "data", udp[q].endpoint.address, c).seq
    <3>1. q \in Client
      BY DEF Reachable, Targets
    <3>2. udp[q] # None /\ udp[q].endpoint # None
      BY DEF Reachable, Usable
    <3>3. udp[q].endpoint.address \in Address
      BY <3>1, <3>2 DEF UInv, GoodSession, Session, Binding
    <3>4. QED BY <2>2, <3>1, <3>2, <3>3, MadeFacts
  <2>3. QED BY <1>0, <2>1, <2>2
<1>4. CASE out' = {}
  BY <1>0, <1>4
<1>5. QED
  BY <1>1, <1>2, <1>3, <1>4
  DEF Next, OverRate, OpenUdp, CloseUdp, EnterRoom, LeaveRoom, CloseSocket, Disconnect,
      Reconnect, EndpointAges, ChallengeAges, IncomingWindowEnds, OutgoingWindowEnds

\* Session::packet never uses a sequence number twice under one key, nor wraps.
THEOREM NumbersSafe == Spec => NumbersAreFresh
<1>1. UInv /\ [Next]_vars => [\A packet \in out' : udp[packet.to].outgoing < packet.seq]_vars
  BY SentFacts
<1>2. QED BY <1>1, UInvHolds, PTL DEF Spec, NumbersAreFresh

\* Sockets and rooms, and what the last step sent.
PInv ==
  /\ link \in [Client -> {"up", "closing", "down"}]
  /\ room \in [Client -> Room \cup {None}]
  /\ out \subseteq Packet

LEMMA PNext == UInv /\ PInv /\ [Next]_vars => PInv'
<1> SUFFICES ASSUME UInv, PInv, [Next]_vars PROVE PInv'
  OBVIOUS
<1>1. CASE UNCHANGED vars
  BY <1>1 DEF vars, places, PInv
<1>2. CASE Next
  <2>1. out' \subseteq Packet
    BY <1>2, SentFacts
  <2>2. ASSUME NEW P, NEW r \in Room \cup {None}, Move(P, r)
        PROVE  room' \in [Client -> Room \cup {None}]
    BY <2>2 DEF Move, PInv
  <2>3. CASE UNCHANGED places
    BY <2>1, <2>3 DEF places, PInv
  <2>4. ASSUME NEW c \in Client,
               \/ \E s \in 1 .. MaxSeq :
                    \/ OverRate(c, s)
                    \/ \E a \in Address :
                         \/ Probe(c, s, a)
                         \/ \E nonce : Confirm(c, s, a, nonce)
                         \/ \E target \in Targets : Relay(c, s, a, target)
               \/ OpenUdp(c) \/ CloseUdp(c) \/ EndpointAges(c) \/ ChallengeAges(c)
               \/ IncomingWindowEnds(c) \/ OutgoingWindowEnds(c)
        PROVE  PInv'
    <3>1. UNCHANGED places
      BY <2>4 DEF OverRate, Probe, Confirm, Relay, OpenUdp, CloseUdp, EndpointAges,
                  ChallengeAges, IncomingWindowEnds, OutgoingWindowEnds
    <3>2. QED BY <2>3, <3>1
  <2>5. ASSUME NEW c \in Client, NEW r \in Room, EnterRoom(c, r) PROVE PInv'
    BY <2>1, <2>2, <2>5 DEF EnterRoom, PInv
  <2>6. ASSUME NEW c \in Client, NEW endsGame, LeaveRoom(c, endsGame) PROVE PInv'
    BY <2>1, <2>2, <2>6 DEF LeaveRoom, PInv
  <2>7. ASSUME NEW c \in Client, CloseSocket(c) PROVE PInv'
    BY <2>1, <2>7 DEF CloseSocket, PInv
  <2>8. ASSUME NEW c \in Client, Disconnect(c) PROVE PInv'
    BY <2>1, <2>2, <2>8 DEF Disconnect, PInv
  <2>9. ASSUME NEW c \in Client, NEW stays, Reconnect(c, stays) PROVE PInv'
    BY <2>1, <2>2, <2>9 DEF Reconnect, PInv
  <2>10. QED BY <1>2, <2>4, <2>5, <2>6, <2>7, <2>8, <2>9 DEF Next
<1>3. QED BY <1>1, <1>2

\* The relay's tables, and the packets it sends, keep their types.
THEOREM UdpTypes == Spec => []TypeOK
<1>1. Init => PInv
  BY DEF Init, PInv
<1>2. UInv /\ RInv /\ PInv => TypeOK
  <2> SUFFICES ASSUME UInv, RInv, PInv PROVE TypeOK
    OBVIOUS
  <2>1. took \in [Client -> Nat]
    <3>1. \A n \in 0 .. InLimit : n \in Nat
      BY UdpAssumption
    <3>2. QED BY <3>1 DEF RInv
  <2>2. \A c \in Client : udp[c] # None => udp[c] \in Session
    BY DEF UInv, GoodSession
  <2>3. QED BY <2>1, <2>2 DEF UInv, RInv, PInv, TypeOK
<1>3. QED BY <1>1, <1>2, PNext, UInvHolds, RInvHolds, PTL DEF Spec

\* Data reaches only those for whom Relay found it a way.
LEMMA DataNext == UInv /\ HInv /\ DataStaysInRoom /\ [Next]_vars => DataStaysInRoom'
<1> SUFFICES ASSUME UInv, HInv, DataStaysInRoom, [Next]_vars PROVE DataStaysInRoom'
  OBVIOUS
<1>1. CASE UNCHANGED vars
  BY <1>1 DEF vars, places, DataStaysInRoom
<1>2. ASSUME NEW c \in Client, NEW s \in 1 .. MaxSeq, NEW a, NEW target \in Targets,
             Relay(c, s, a, target), NEW packet \in out'
      PROVE  /\ packet.from # packet.to
             /\ room'[packet.from] # None /\ room'[packet.from] = room'[packet.to]
             /\ \A q \in {packet.from, packet.to} :
                  link'[q] = "up" /\ udp'[q] # None /\ udp'[q].stay = stay'[q]
             /\ \E x \in udp'[packet.to].shown : x.address = packet.address
  <2> DEFINE R == Reachable(c, target)
  <2>1. /\ out' = {Made(q, "data", udp[q].endpoint.address, c) : q \in {r \in R : Sends(r)}}
        /\ udp' = [q \in Client |->
             IF q = c THEN Spent(c, s)
             ELSE IF q \in R THEN Numbered(q, udp[q]) ELSE udp[q]]
        /\ UNCHANGED <<link, room, version, stay>>
    BY <1>2 DEF Relay, places
  <2>2. PICK q \in R : packet = Made(q, "data", udp[q].endpoint.address, c)
    BY <2>1
  <2>3. packet.to = q /\ packet.from = c /\ packet.address = udp[q].endpoint.address
    BY <2>2 DEF Made
  <2>4. /\ q \in Client /\ q # c /\ room[q] = room[c]
        /\ Usable(q) /\ Fresh(c, s) /\ Usable(c) /\ udp[q].endpoint # None
    BY <1>2 DEF Reachable, Targets, Relay, Fresh
  <2>5. \A r \in {q, c} : /\ GoodSession(udp[r]) /\ Answered(udp[r])
                          /\ udp[r].stay = stay[r] /\ link[r] = "up"
    BY <2>4 DEF UInv, HInv, Usable, Answered
  <2>6. s \in Nat
    BY UdpAssumption
  <2>7. udp'[c].stay = stay[c] /\ udp'[c] # None
    <3>1. GoodSession(Spent(c, s)) /\ Spent(c, s).stay = udp[c].stay
      BY <2>4, <2>6, SpentFacts
    <3>2. QED BY <2>1, <2>5, <3>1, UdpAssumption DEF GoodSession
  <2>8. udp'[q].stay = stay[q] /\ udp'[q] # None
        /\ \E x \in udp'[q].shown : x.address = udp[q].endpoint.address
    <3>1. /\ GoodSession(Numbered(q, udp[q])) /\ Numbered(q, udp[q]).stay = udp[q].stay
          /\ Numbered(q, udp[q]).shown = udp[q].shown
      BY <2>4, <2>5, NumberedFacts, NumberedAnswered
    <3>2. udp'[q] = Numbered(q, udp[q])
      BY <2>1, <2>4
    <3>3. \E x \in udp[q].shown : x.address = udp[q].endpoint.address
      BY <2>4, <2>5 DEF Answered
    <3>4. QED BY <2>5, <3>1, <3>2, <3>3, UdpAssumption DEF GoodSession
  <2>9. room[c] # None
    BY <2>4 DEF Usable
  <2>10. QED BY <2>1, <2>3, <2>4, <2>5, <2>7, <2>8, <2>9
<1>3. ASSUME NEW c \in Client, NEW s \in 1 .. MaxSeq, NEW a, NEW target \in Targets,
             Relay(c, s, a, target)
      PROVE  DataStaysInRoom'
  BY <1>2, <1>3 DEF DataStaysInRoom
<1>4. CASE \A packet \in out' : packet.kind # "data"
  BY <1>4 DEF DataStaysInRoom
<1>5. ASSUME NEW c \in Client, NEW s, NEW a, Probe(c, s, a) \/ \E nonce : Confirm(c, s, a, nonce)
      PROVE  DataStaysInRoom'
  <2>1. \/ out' = {}
        \/ out' = {Made(c, "challenge", a, c)} \/ out' = {Made(c, "bound", a, c)}
    BY <1>5 DEF Probe, Confirm
  <2>2. QED BY <1>4, <2>1 DEF Made
<1>6. CASE out' = {}
  BY <1>4, <1>6
<1>7. QED
  BY <1>1, <1>3, <1>5, <1>6
  DEF Next, OverRate, OpenUdp, CloseUdp, EnterRoom, LeaveRoom, CloseSocket, Disconnect,
      Reconnect, EndpointAges, ChallengeAges, IncomingWindowEnds, OutgoingWindowEnds

\* The data handler of datagram_at relays within a stay in a room only: no key
\* of another stay, and no address without a challenge, gets or sends any.
THEOREM DataSafe == Spec => []DataStaysInRoom
<1>1. Init => DataStaysInRoom
  BY DEF Init, DataStaysInRoom
<1>2. QED BY <1>1, DataNext, HInvHolds, PTL DEF Spec
=============================================================================
