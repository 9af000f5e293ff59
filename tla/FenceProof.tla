----------------------------- MODULE FenceProof -----------------------------
(***************************************************************************)
(* Proofs about Fence: the fence lets a frame through only in the stay it  *)
(* was sent in, the count of waiting frames is exact, and the queue is a   *)
(* Mailbox for each session, for any number of accounts, sockets and       *)
(* frames.                                                                 *)
(***************************************************************************)
EXTENDS Fence, WellFoundedInduction, TLAPS

\* Induction over the naturals, for a set in place of a predicate: the least
\* number outside of it has a predecessor inside.
LEMMA Inductive ==
  ASSUME NEW S, 0 \in S, \A n \in Nat : n \in S => n + 1 \in S
  PROVE  Nat \subseteq S
<1> DEFINE T == {n \in Nat : n \notin S}
           R == OpToRel(<, Nat)
<1> SUFFICES ASSUME T # {} PROVE FALSE
  OBVIOUS
<1>1. IsWellFoundedOn(R, Nat)
  BY NatLessThanWellFounded, Zenon
<1>2. PICK x \in T : \A y \in T : <<y, x>> \notin R
  <2>1. T \subseteq Nat
    OBVIOUS
  <2> HIDE DEF T, R
  <2> QED BY <1>1, <2>1, WFMin
<1>3. \A y \in T : ~(y < x)
  BY <1>2 DEF OpToRel
<1>4. x # 0 /\ x - 1 \in Nat
  OBVIOUS
<1> QED BY <1>3, <1>4

\* The same over the queues.
LEMMA Queues ==
  ASSUME NEW X, <<>> \in X,
         \A s \in Seq(Delayed), f \in Delayed : s \in X => Append(s, f) \in X
  PROVE  Seq(Delayed) \subseteq X
<1> DEFINE S == {n \in Nat : \A s \in Seq(Delayed) : Len(s) = n => s \in X}
<1>1. 0 \in S
  <2>1. \A s \in Seq(Delayed) : Len(s) = 0 => s = <<>>
    OBVIOUS
  <2> QED BY <2>1
<1>2. ASSUME NEW n \in Nat, n \in S PROVE n + 1 \in S
  <2>1. ASSUME NEW s \in Seq(Delayed), Len(s) = n + 1 PROVE s \in X
    <3> DEFINE u == SubSeq(s, 1, n)
    <3>1. n + 1 \in 1 .. Len(s)
      BY <2>1
    <3>2. u \in Seq(Delayed) /\ Len(u) = n /\ s[n + 1] \in Delayed
      BY <2>1, <3>1
    <3>3. s = Append(u, s[n + 1])
      BY <2>1, <3>2
    <3>4. u \in X
      BY <1>2, <3>2
    <3> HIDE DEF u
    <3> QED BY <3>2, <3>3, <3>4
  <2> QED BY <2>1
<1> HIDE DEF S
<1>3. \A n \in Nat : n \in S
  BY <1>1, <1>2, Inductive
<1> QED BY <1>3 DEF S

-----------------------------------------------------------------------------
(* Kept is defined by recursion over the number of frames looked at.       *)

StepOf(S, s, f, n) ==
  IF n = 0 THEN <<>>
  ELSE IF s[n].cid \in S THEN Append(f[n - 1], s[n])
  ELSE f[n - 1]
Looked(S, s, m) == CHOOSE f : f = [n \in 0 .. m |-> StepOf(S, s, f, n)]

LEMMA KeptDef == \A S, s : Kept(S, s) = Looked(S, s, Len(s))[Len(s)]
BY DEF Kept, Looked, StepOf

\* The recursion has a solution.
LEMMA LookedExists ==
  ASSUME NEW S, NEW s, NEW m \in Nat
  PROVE  \A n \in 0 .. m : Looked(S, s, m)[n] = StepOf(S, s, Looked(S, s, m), n)
<1> DEFINE X == {k \in Nat : \E f : \A n \in 0 .. k : f[n] = StepOf(S, s, f, n)}
<1>1. 0 \in X
  <2> DEFINE f == [n \in 0 .. 0 |-> <<>>]
  <2>1. \A n \in 0 .. 0 : f[n] = StepOf(S, s, f, n)
    BY DEF StepOf
  <2> QED BY <2>1
<1>2. ASSUME NEW k \in Nat, k \in X PROVE k + 1 \in X
  <2>1. PICK f : \A n \in 0 .. k : f[n] = StepOf(S, s, f, n)
    BY <1>2
  <2> DEFINE h == [n \in 0 .. k + 1 |-> IF n = k + 1 THEN StepOf(S, s, f, n) ELSE f[n]]
  <2>2. ASSUME NEW n \in 0 .. k + 1 PROVE h[n] = StepOf(S, s, h, n)
    <3>1. n = k + 1 \/ n \in 0 .. k
      OBVIOUS
    <3>2. h[n] = StepOf(S, s, f, n)
      BY <2>1, <3>1
    <3>3. n # 0 => h[n - 1] = f[n - 1]
      OBVIOUS
    <3> HIDE DEF h
    <3> QED BY <3>2, <3>3 DEF StepOf
  <2> HIDE DEF h
  <2> QED BY <2>2
<1> HIDE DEF X
<1>3. m \in X
  BY <1>1, <1>2, Inductive
<1>4. PICK f : \A n \in 0 .. m : f[n] = StepOf(S, s, f, n)
  BY <1>3 DEF X
<1> DEFINE h == [n \in 0 .. m |-> f[n]]
<1>5. ASSUME NEW n \in 0 .. m PROVE h[n] = StepOf(S, s, h, n)
  <2>1. f[n] = StepOf(S, s, f, n)
    BY <1>4
  <2>2. n # 0 => h[n - 1] = f[n - 1]
    OBVIOUS
  <2> QED BY <2>1, <2>2 DEF StepOf
<1>6. h = [n \in 0 .. m |-> StepOf(S, s, h, n)]
  <2>1. h = [n \in 0 .. m |-> h[n]]
    OBVIOUS
  <2> HIDE DEF h
  <2> QED BY <1>5, <2>1
<1> HIDE DEF h
<1> DEFINE F == Looked(S, s, m)
<1>7. F = [n \in 0 .. m |-> StepOf(S, s, F, n)]
  BY <1>6 DEF Looked
<1> HIDE DEF F
<1>8. \A n \in 0 .. m : F[n] = StepOf(S, s, F, n)
  BY <1>7
<1> QED BY <1>8 DEF F

\* It has one only, which does not depend on the frames that follow.
LEMMA LookedAgrees ==
  ASSUME NEW S, NEW s, NEW t, NEW m \in Nat, NEW n \in Nat, m <= n,
         \A i \in 1 .. m : s[i] = t[i]
  PROVE  Looked(S, s, m)[m] = Looked(S, t, n)[m]
<1> DEFINE A == Looked(S, s, m)
           B == Looked(S, t, n)
           X == {k \in Nat : k <= m => A[k] = B[k]}
<1>1. ASSUME NEW k \in 0 .. m
      PROVE  A[k] = StepOf(S, s, A, k) /\ B[k] = StepOf(S, t, B, k)
  <2>1. k \in 0 .. n
    OBVIOUS
  <2> QED BY <2>1, LookedExists
<1> HIDE DEF A, B
<1>2. 0 \in X
  <2>1. 0 \in 0 .. m
    OBVIOUS
  <2>2. A[0] = B[0]
    BY <1>1, <2>1 DEF StepOf
  <2> QED BY <2>2
<1>3. ASSUME NEW k \in Nat, k \in X PROVE k + 1 \in X
  <2> SUFFICES ASSUME k + 1 <= m PROVE A[k + 1] = B[k + 1]
    OBVIOUS
  <2>1. k + 1 \in 0 .. m /\ k + 1 # 0 /\ (k + 1) - 1 = k /\ s[k + 1] = t[k + 1]
    OBVIOUS
  <2>2. A[k] = B[k]
    BY <1>3
  <2> HIDE DEF X
  <2> QED BY <1>1, <2>1, <2>2 DEF StepOf
<1> HIDE DEF X
<1>4. m \in X
  BY <1>2, <1>3, Inductive
<1> QED BY <1>4 DEF X, A, B

LEMMA KeptEmpty == \A S : Kept(S, <<>>) = <<>>
<1> SUFFICES ASSUME NEW S PROVE Kept(S, <<>>) = <<>>
  OBVIOUS
<1>1. Len(<<>>) = 0 /\ 0 \in 0 .. 0
  OBVIOUS
<1>2. Looked(S, <<>>, 0)[0] = StepOf(S, <<>>, Looked(S, <<>>, 0), 0)
  BY <1>1, LookedExists
<1> QED BY <1>1, <1>2, KeptDef DEF StepOf

LEMMA KeptAppend ==
  ASSUME NEW S, NEW s \in Seq(Delayed), NEW f \in Delayed
  PROVE  Kept(S, Append(s, f)) =
           IF f.cid \in S THEN Append(Kept(S, s), f) ELSE Kept(S, s)
<1> DEFINE t == Append(s, f)
           n == Len(s)
<1>1. /\ n \in Nat /\ n + 1 \in Nat /\ Len(t) = n + 1
      /\ t[n + 1] = f /\ \A i \in 1 .. n : s[i] = t[i]
  OBVIOUS
<1> HIDE DEF t, n
<1>2. /\ n + 1 \in 0 .. n + 1 /\ n + 1 # 0 /\ (n + 1) - 1 = n /\ n <= n + 1
  BY <1>1
<1>3. Kept(S, t) = StepOf(S, t, Looked(S, t, n + 1), n + 1)
  BY <1>1, <1>2, LookedExists, KeptDef
<1>4. Kept(S, s) = Looked(S, t, n + 1)[n]
  <2>1. Looked(S, s, n)[n] = Looked(S, t, n + 1)[n]
    BY <1>1, <1>2, LookedAgrees
  <2> QED BY <2>1, KeptDef DEF n
<1> QED BY <1>1, <1>2, <1>3, <1>4 DEF StepOf, t

-----------------------------------------------------------------------------
(* What is kept of a queue. *)

\* Frames of the queue, from the sockets asked for.
LEMMA KeptFrames ==
  ASSUME NEW S, NEW s \in Seq(Delayed)
  PROVE  /\ Kept(S, s) \in Seq(Delayed)
         /\ \A i \in DOMAIN Kept(S, s) :
              Kept(S, s)[i].cid \in S /\ \E j \in DOMAIN s : Kept(S, s)[i] = s[j]
<1> DEFINE From(k, u) == \A i \in DOMAIN k : k[i].cid \in S /\ \E j \in DOMAIN u : k[i] = u[j]
           X == {u \in Seq(Delayed) : Kept(S, u) \in Seq(Delayed) /\ From(Kept(S, u), u)}
<1>1. <<>> \in X
  <2>1. <<>> \in Seq(Delayed) /\ From(<<>>, <<>>)
    OBVIOUS
  <2> QED BY <2>1, KeptEmpty
<1>2. ASSUME NEW u \in Seq(Delayed), NEW f \in Delayed, u \in X
      PROVE  Append(u, f) \in X
  <2> DEFINE t == Append(u, f)
             k == Kept(S, u)
  <2>1. t \in Seq(Delayed) /\ k \in Seq(Delayed) /\ From(k, u)
    BY <1>2
  <2>2. /\ DOMAIN u = 1 .. Len(u) /\ DOMAIN t = 1 .. Len(u) + 1 /\ t[Len(u) + 1] = f
        /\ Len(u) \in Nat /\ \A j \in DOMAIN u : t[j] = u[j]
    OBVIOUS
  <2>3. From(k, t)
    BY <2>1, <2>2
  <2> HIDE DEF k
  <2>4. CASE f.cid \in S
    <3>1. Kept(S, t) = Append(k, f)
      BY <2>4, KeptAppend DEF k
    <3>2. /\ DOMAIN k = 1 .. Len(k) /\ DOMAIN Append(k, f) = 1 .. Len(k) + 1
          /\ Append(k, f)[Len(k) + 1] = f /\ Append(k, f) \in Seq(Delayed)
          /\ Len(k) \in Nat /\ \A j \in DOMAIN k : Append(k, f)[j] = k[j]
      BY <2>1
    <3>3. Len(u) + 1 \in DOMAIN t
      BY <2>2
    <3> HIDE DEF t
    <3>4. From(Append(k, f), t)
      BY <2>2, <2>3, <2>4, <3>2, <3>3
    <3> QED BY <2>1, <3>1, <3>2, <3>4 DEF t
  <2>5. CASE f.cid \notin S
    <3>1. Kept(S, t) = k
      BY <2>5, KeptAppend DEF k
    <3> QED BY <2>1, <2>3, <3>1
  <2> QED BY <2>4, <2>5
<1> HIDE DEF X
<1>3. s \in X
  BY <1>1, <1>2, Queues
<1> QED BY <1>3 DEF X

\* None, if no frame came through these sockets.
LEMMA KeptNone ==
  ASSUME NEW S, NEW s \in Seq(Delayed), \A i \in DOMAIN s : s[i].cid \notin S
  PROVE  Kept(S, s) = <<>>
<1>1. Kept(S, s) \in Seq(Delayed) /\ \A i \in DOMAIN Kept(S, s) : FALSE
  <2>1. ASSUME NEW i \in DOMAIN Kept(S, s) PROVE FALSE
    <3>1. PICK j \in DOMAIN s : Kept(S, s)[i] = s[j]
      BY KeptFrames
    <3>2. Kept(S, s)[i].cid \in S
      BY KeptFrames
    <3> QED BY <3>1, <3>2
  <2> QED BY <2>1, KeptFrames
<1>2. ASSUME NEW k \in Seq(Delayed), \A i \in DOMAIN k : FALSE PROVE k = <<>>
  <2>1. DOMAIN k = 1 .. Len(k) /\ Len(k) \in Nat
    OBVIOUS
  <2>2. Len(k) = 0
    <3>1. Len(k) # 0 => 1 \in 1 .. Len(k)
      BY <2>1
    <3> QED BY <1>2, <2>1, <3>1
  <2> QED BY <2>2
<1> QED BY <1>1, <1>2

\* Dropping the frames of other sockets changes nothing for these.
LEMMA KeptTwice ==
  ASSUME NEW S, NEW T, T \subseteq S, NEW s \in Seq(Delayed)
  PROVE  Kept(T, Kept(S, s)) = Kept(T, s)
<1> DEFINE X == {u \in Seq(Delayed) : Kept(T, Kept(S, u)) = Kept(T, u)}
<1>1. <<>> \in X
  BY KeptEmpty
<1>2. ASSUME NEW u \in Seq(Delayed), NEW f \in Delayed, u \in X
      PROVE  Append(u, f) \in X
  <2>1. Kept(S, u) \in Seq(Delayed)
    BY KeptFrames
  <2>2. Kept(T, Kept(S, Append(u, f))) = Kept(T, Append(u, f))
    <3>1. CASE f.cid \in S
      <4>1. Kept(S, Append(u, f)) = Append(Kept(S, u), f)
        BY <3>1, KeptAppend
      <4>2. Kept(T, Append(Kept(S, u), f)) =
              IF f.cid \in T THEN Append(Kept(T, Kept(S, u)), f) ELSE Kept(T, Kept(S, u))
        BY <2>1, KeptAppend
      <4>3. Kept(T, Append(u, f)) = IF f.cid \in T THEN Append(Kept(T, u), f) ELSE Kept(T, u)
        BY KeptAppend
      <4> QED BY <1>2, <4>1, <4>2, <4>3
    <3>2. CASE f.cid \notin S
      <4>1. Kept(S, Append(u, f)) = Kept(S, u) /\ Kept(T, Append(u, f)) = Kept(T, u)
        BY <3>2, KeptAppend
      <4> QED BY <1>2, <4>1
    <3> QED BY <3>1, <3>2
  <2> QED BY <2>2
<1> HIDE DEF X
<1>3. s \in X
  BY <1>1, <1>2, Queues
<1> QED BY <1>3 DEF X

\* The first frame of the queue is the first of its socket's.
LEMMA KeptTail ==
  ASSUME NEW S, NEW s \in Seq(Delayed), s # <<>>
  PROVE  /\ Head(s).cid \in S => /\ Kept(S, s) # <<>> /\ Head(Kept(S, s)) = Head(s)
                                 /\ Tail(Kept(S, s)) = Kept(S, Tail(s))
         /\ Head(s).cid \notin S => Kept(S, s) = Kept(S, Tail(s))
<1> DEFINE Good(u) == /\ Head(u).cid \in S => /\ Kept(S, u) # <<>> /\ Head(Kept(S, u)) = Head(u)
                                              /\ Tail(Kept(S, u)) = Kept(S, Tail(u))
                      /\ Head(u).cid \notin S => Kept(S, u) = Kept(S, Tail(u))
           X == {u \in Seq(Delayed) : u # <<>> => Good(u)}
<1>1. <<>> \in X
  OBVIOUS
<1>2. ASSUME NEW u \in Seq(Delayed), NEW f \in Delayed, u \in X
      PROVE  Append(u, f) \in X
  <2> DEFINE t == Append(u, f)
  <2>1. t \in Seq(Delayed)
    OBVIOUS
  <2>2. CASE u = <<>>
    <3>1. t = <<f>> /\ Head(t) = f /\ Tail(t) = <<>>
      BY <2>2
    <3>2. Kept(S, t) = (IF f.cid \in S THEN <<f>> ELSE <<>>)
      <4>1. Append(<<>>, f) = <<f>> /\ <<>> \in Seq(Delayed)
        OBVIOUS
      <4>2. Kept(S, Append(<<>>, f)) =
              IF f.cid \in S THEN Append(Kept(S, <<>>), f) ELSE Kept(S, <<>>)
        BY <4>1, KeptAppend
      <4> QED BY <2>2, <4>1, <4>2, KeptEmpty
    <3>3. <<f>> # <<>> /\ Head(<<f>>) = f /\ Tail(<<f>>) = <<>> /\ Kept(S, <<>>) = <<>>
      BY KeptEmpty
    <3> HIDE DEF t
    <3>4. Good(t)
      BY <3>1, <3>2, <3>3
    <3> QED BY <2>1, <3>4 DEF t
  <2>3. CASE u # <<>>
    <3>1. Head(t) = Head(u) /\ Tail(t) = Append(Tail(u), f) /\ Tail(u) \in Seq(Delayed)
      BY <2>3
    <3>2. Kept(S, t) = IF f.cid \in S THEN Append(Kept(S, u), f) ELSE Kept(S, u)
      BY KeptAppend
    <3>3. Kept(S, Tail(t)) =
            IF f.cid \in S THEN Append(Kept(S, Tail(u)), f) ELSE Kept(S, Tail(u))
      <4>1. Kept(S, Append(Tail(u), f)) =
              IF f.cid \in S THEN Append(Kept(S, Tail(u)), f) ELSE Kept(S, Tail(u))
        BY <3>1, KeptAppend
      <4> HIDE DEF t
      <4> QED BY <3>1, <4>1
    <3>4. Kept(S, u) \in Seq(Delayed) /\ Good(u)
      BY <1>2, <2>3, KeptFrames
    <3>5. ASSUME NEW k \in Seq(Delayed), k # <<>>
          PROVE  /\ Append(k, f) # <<>> /\ Head(Append(k, f)) = Head(k)
                 /\ Tail(Append(k, f)) = Append(Tail(k), f)
      BY <3>5
    <3> HIDE DEF t
    <3>6. Good(t)
      BY <3>1, <3>2, <3>3, <3>4, <3>5
    <3> QED BY <2>1, <3>6 DEF t
  <2> QED BY <2>2, <2>3
<1> HIDE DEF X
<1>3. s \in X
  BY <1>1, <1>2, Queues
<1> QED BY <1>3 DEF X

-----------------------------------------------------------------------------
(* The invariant. *)

Queue == due \o delayed

\* The socket of a session is known, and knows whose it is.
Linked ==
  \A p \in Account : players[p].conn # None =>
    /\ conns[players[p].conn].player = p
    /\ conns[players[p].conn].state # "absent"

\* Frames came through authenticated sockets; where there was none nothing waits.
Owned == \A i \in DOMAIN Queue : conns[Queue[i].cid].player # None
Unused == \A c \in Conn : conns[c].player = None => conns[c].pending = 0

\* Since f was sent its sender's version and moves have not gone back.  The
\* room changed only with a move; a move changes the version as well; and a
\* new version, for one who was in a room, is a move.
Since(f, version, inside, moved) ==
  /\ f.version <= version /\ f.stay.moves <= moved
  /\ f.stay.moves = moved => f.stay.inside = inside
  /\ f.version = version => f.stay.moves = moved
  /\ f.version < version /\ f.stay.inside => f.stay.moves < moved
SinceSent(f) ==
  LET p == conns[f.cid].player IN
  Speaks(f.cid) => Since(f, players[p].version, players[p].room # None, moves[p])
Aged == \A i \in DOMAIN Queue : SinceSent(Queue[i])

FInv == TypeOK /\ Linked /\ Owned /\ Unused /\ Aged /\ PendingExact

LEMMA QueueType == TypeOK => Queue \in Seq(Delayed) /\ \A i \in DOMAIN Queue : Queue[i] \in Delayed
BY DEF TypeOK, Queue

LEMMA DelayedType ==
  \A f \in Delayed : /\ f.cid \in Conn /\ f.version \in Nat /\ f.what \in Scoped \cup Global
                     /\ f.stay \in Stay /\ f.stay.moves \in Nat /\ f.stay.inside \in BOOLEAN
BY DEF Delayed, Stay

LEMMA PlayerType ==
  ASSUME TypeOK, NEW p \in Account
  PROVE  /\ players[p] \in Player /\ players[p].conn \in Conn \cup {None}
         /\ players[p].room \in Room \cup {None}
         /\ players[p].version \in Nat /\ moves[p] \in Nat
BY DEF TypeOK, Player

LEMMA ConnType ==
  ASSUME TypeOK, NEW c \in Conn
  PROVE  /\ conns[c] \in Connection /\ conns[c].state \in {"absent", "open", "closing"}
         /\ conns[c].player \in Account \cup {None} /\ conns[c].pending \in Nat
BY DEF TypeOK, Connection

LEMMA SpeaksType ==
  ASSUME TypeOK, NEW c \in Conn, Speaks(c)
  PROVE  conns[c].player \in Account /\ players[conns[c].player].conn = c
BY ConnType DEF Speaks

LEMMA FrameConn ==
  ASSUME TypeOK, NEW i \in DOMAIN Queue
  PROVE  Queue[i] \in Delayed /\ Queue[i].cid \in Conn
BY QueueType, DelayedType

LEMMA InitFInv == Init => FInv
<1> SUFFICES ASSUME Init PROVE FInv
  OBVIOUS
<1>1. TypeOK
  BY DEF Init, TypeOK, Player, Connection, NoConn
<1>2. \A c \in Conn : ~Speaks(c) /\ conns[c].pending = 0
  BY DEF Init, Speaks, NoConn
<1>3. DOMAIN Queue = {}
  BY DEF Init, Queue
<1>4. \A p \in Account : players[p].conn = None
  BY DEF Init
<1> QED BY <1>1, <1>2, <1>3, <1>4 DEF FInv, Linked, Owned, Unused, Aged, PendingExact

-----------------------------------------------------------------------------
(* What a step may do to a session which lasts. *)

Forward(p) ==
  \/ /\ players'[p].version = players[p].version /\ moves'[p] = moves[p]
     /\ players'[p].room = None <=> players[p].room = None
  \/ players'[p].version = players[p].version + 1 /\ moves'[p] = moves[p] + 1
  \/ /\ players'[p].version = players[p].version + 1 /\ moves'[p] = moves[p]
     /\ players[p].room = None /\ players'[p].room = None

Goes(c) ==
  Speaks(c) /\ conns'[c].player = conns[c].player /\ Forward(conns[c].player)

Begins(c) ==
  conns'[c].pending = 0 /\ \A i \in DOMAIN Queue' : Queue'[i].cid # c

\* No frame is new.
Fewer == \A i \in DOMAIN Queue' : \E j \in DOMAIN Queue : Queue'[i] = Queue[j]

LEMMA SinceForward ==
  ASSUME TypeOK, NEW f \in Delayed, NEW p \in Account, Forward(p),
         Since(f, players[p].version, players[p].room # None, moves[p])
  PROVE  Since(f, players'[p].version, players'[p].room # None, moves'[p])
<1> DEFINE v == players[p].version
           m == moves[p]
           r == players[p].room # None
           w == players'[p].version
           n == moves'[p]
           s == players'[p].room # None
<1>1. v \in Nat /\ m \in Nat /\ r \in BOOLEAN /\ s \in BOOLEAN
  BY PlayerType
<1>2. \/ w = v /\ n = m /\ s = r
      \/ w = v + 1 /\ n = m + 1
      \/ w = v + 1 /\ n = m /\ r = FALSE /\ s = FALSE
  BY DEF Forward
<1>3. f.version \in Nat /\ f.stay.moves \in Nat /\ f.stay.inside \in BOOLEAN
  BY DelayedType
<1>4. Since(f, v, r, m)
  OBVIOUS
<1> HIDE DEF v, m, r, w, n, s
<1>5. Since(f, w, s, n)
  <2>1. CASE w = v /\ n = m /\ s = r
    BY <1>4, <2>1
  <2>2. CASE w = v + 1 /\ n = m + 1
    BY <1>1, <1>3, <1>4, <2>2 DEF Since
  <2>3. CASE w = v + 1 /\ n = m /\ r = FALSE /\ s = FALSE
    BY <1>1, <1>3, <1>4, <2>3 DEF Since
  <2> QED BY <1>2, <2>1, <2>2, <2>3
<1> QED BY <1>5 DEF w, n, s

LEMMA FrameKept ==
  ASSUME TypeOK, NEW f \in Delayed, SinceSent(f), Speaks(f.cid)' => Goes(f.cid)
  PROVE  SinceSent(f)'
<1> SUFFICES ASSUME Speaks(f.cid)'
             PROVE  Since(f, players'[conns'[f.cid].player].version,
                          players'[conns'[f.cid].player].room # None,
                          moves'[conns'[f.cid].player])
  BY DEF SinceSent
<1> DEFINE p == conns[f.cid].player
<1>1. f.cid \in Conn /\ Goes(f.cid)
  BY DelayedType
<1>2. p \in Account /\ conns'[f.cid].player = p /\ Forward(p)
  BY <1>1, SpeaksType DEF Goes
<1>3. Since(f, players[p].version, players[p].room # None, moves[p])
  BY <1>1 DEF SinceSent, Goes
<1> HIDE DEF p
<1>4. Since(f, players'[p].version, players'[p].room # None, moves'[p])
  BY <1>2, <1>3, SinceForward
<1> QED BY <1>2, <1>4

LEMMA AgedKept ==
  ASSUME FInv, Fewer, \A c \in Conn : Speaks(c)' => Goes(c) \/ Begins(c)
  PROVE  Aged'
<1>1. TypeOK
  BY DEF FInv
<1>2. ASSUME NEW f, NEW i \in DOMAIN Queue', f = Queue'[i]
      PROVE  SinceSent(f)'
  <2>1. PICK j \in DOMAIN Queue : f = Queue[j]
    BY <1>2 DEF Fewer
  <2>2. f \in Delayed /\ f.cid \in Conn
    BY <1>1, <2>1, FrameConn
  <2>3. Speaks(f.cid)' => Goes(f.cid)
    BY <1>2, <2>2 DEF Begins
  <2>4. SinceSent(f)
    BY <2>1 DEF FInv, Aged
  <2> QED BY <1>1, <2>2, <2>3, <2>4, FrameKept
<1> QED BY <1>2 DEF Aged

LEMMA BeginsWaiting ==
  ASSUME TypeOK', NEW c \in Conn, Begins(c)
  PROVE  Waiting(c)' = <<>> /\ conns'[c].pending = 0
<1>1. due' \o delayed' \in Seq(Delayed)
  BY DEF TypeOK
<1>2. \A i \in DOMAIN (due' \o delayed') : (due' \o delayed')[i].cid \notin {c}
  BY DEF Begins, Queue
<1>3. Kept({c}, due' \o delayed') = <<>>
  BY <1>1, <1>2, KeptNone
<1> QED BY <1>3 DEF Begins, Waiting

\* Nothing is sent or dispatched; sessions which last have what they had.
Calm ==
  /\ Fewer
  /\ \A c \in Conn : Speaks(c)' =>
       \/ Goes(c) /\ Waiting(c)' = Waiting(c) /\ conns'[c].pending = conns[c].pending
       \/ Begins(c)

LEMMA CalmInv ==
  ASSUME FInv, TypeOK', Calm, Linked', Owned', Unused'
  PROVE  FInv'
<1>1. Aged'
  BY AgedKept DEF Calm
<1>2. PendingExact'
  <2> SUFFICES ASSUME NEW c \in Conn, Speaks(c)'
               PROVE  conns'[c].pending = Len(Waiting(c)')
    BY DEF PendingExact
  <2>1. CASE Goes(c) /\ Waiting(c)' = Waiting(c) /\ conns'[c].pending = conns[c].pending
    BY <2>1 DEF Goes, FInv, PendingExact
  <2>2. CASE Begins(c)
    <3>1. Len(<<>>) = 0
      OBVIOUS
    <3> QED BY <2>2, <3>1, BeginsWaiting
  <2> QED BY <2>1, <2>2 DEF Calm
<1> QED BY <1>1, <1>2 DEF FInv

-----------------------------------------------------------------------------
(* The moves of accounts. *)

LEMMA MovedFacts ==
  ASSUME TypeOK, NEW P, NEW r \in Room \cup {None}
  PROVE  /\ Moved(players, P, r) \in [Account -> Player]
         /\ \A p \in Account :
              /\ Moved(players, P, r)[p].conn = players[p].conn
              /\ p \notin P => Moved(players, P, r)[p] = players[p]
              /\ p \in P => /\ Moved(players, P, r)[p].room = r
                            /\ Moved(players, P, r)[p].version = players[p].version + 1
<1> DEFINE M == Moved(players, P, r)
<1>1. ASSUME NEW p \in Account
      PROVE  /\ M[p] \in Player
             /\ M[p].conn = players[p].conn
             /\ p \notin P => M[p] = players[p]
             /\ p \in P => M[p].room = r /\ M[p].version = players[p].version + 1
  <2>1. M[p] = IF p \in P THEN [players[p] EXCEPT !.room = r, !.version = @ + 1]
               ELSE players[p]
    BY DEF Moved
  <2>2. players[p] \in Player /\ players[p].version + 1 \in Nat
    BY PlayerType
  <2> HIDE DEF M
  <2> QED BY <2>1, <2>2 DEF Player
<1>2. M \in [Account -> Player]
  <2>1. M = [p \in Account |-> M[p]]
    BY DEF Moved
  <2> HIDE DEF M
  <2> QED BY <1>1, <2>1
<1> QED BY <1>1, <1>2

LEMMA AdvancedFacts ==
  ASSUME TypeOK, NEW P
  PROVE  /\ Advanced(P) \in [Account -> Nat]
         /\ \A p \in Account : Advanced(P)[p] = IF p \in P THEN moves[p] + 1 ELSE moves[p]
BY DEF TypeOK, Advanced

LEMMA CompanyFacts ==
  ASSUME NEW p \in Account, NEW others \in Company(p)
  PROVE  others \subseteq Account \ {p} /\ (players[p].room = None => others = {})
BY DEF Company

\* Dropping what came through c, with nothing in due.
LEMMA WithoutFacts ==
  ASSUME TypeOK, Ready, NEW c, delayed' = Without(c, delayed), UNCHANGED due
  PROVE  /\ Fewer /\ delayed' \in Seq(Delayed)
         /\ \A i \in DOMAIN Queue' : Queue'[i].cid # c
         /\ \A d \in Conn \ {c} : Waiting(d)' = Waiting(d)
<1>1. due = <<>> /\ due' = <<>> /\ delayed \in Seq(Delayed) /\ delayed' = Kept(Conn \ {c}, delayed)
  BY DEF TypeOK, Ready, Without
<1>2. delayed' \in Seq(Delayed)
  BY <1>1, KeptFrames
<1>3. Queue = delayed /\ Queue' = delayed'
  BY <1>1, <1>2 DEF Queue
<1>4. Fewer /\ \A i \in DOMAIN Queue' : Queue'[i].cid # c
  <2>1. ASSUME NEW i \in DOMAIN delayed'
        PROVE  delayed'[i].cid # c /\ \E j \in DOMAIN delayed : delayed'[i] = delayed[j]
    <3> DEFINE S == Conn \ {c}
               k == Kept(S, delayed)
    <3>1. k = delayed' /\ c \notin S
      BY <1>1
    <3> HIDE DEF S
    <3>2. \A x \in DOMAIN k : k[x].cid \in S /\ \E j \in DOMAIN delayed : k[x] = delayed[j]
      BY <1>1, KeptFrames
    <3> HIDE DEF k
    <3> QED BY <3>1, <3>2
  <2> QED BY <1>3, <2>1 DEF Fewer
<1>5. ASSUME NEW d \in Conn \ {c} PROVE Waiting(d)' = Waiting(d)
  <2>1. Kept({d}, delayed') = Kept({d}, delayed)
    BY <1>1, KeptTwice
  <2>2. due \o delayed = delayed /\ due' \o delayed' = delayed'
    BY <1>3 DEF Queue
  <2> QED BY <2>1, <2>2 DEF Waiting
<1> QED BY <1>2, <1>4, <1>5

LEMMA SameQueue ==
  ASSUME UNCHANGED <<due, delayed>>
  PROVE  /\ Fewer /\ Queue' = Queue /\ \A c \in Conn : Waiting(c)' = Waiting(c)
BY DEF Fewer, Queue, Waiting

-----------------------------------------------------------------------------
(* Steps of sockets and sessions. *)

Quiet == FInv' /\ Calm /\ heard' = <<>>

LEMMA ConnectStep ==
  ASSUME FInv, NEW c \in Conn, Connect(c)
  PROVE  Quiet
<1>1. /\ conns[c].state = "absent" /\ conns' = [conns EXCEPT ![c].state = "open"]
      /\ heard' = <<>> /\ UNCHANGED <<players, delayed, due, moves>>
  BY DEF Connect
<1>2. TypeOK
  BY DEF FInv
<1>3. /\ conns' \in [Conn -> Connection]
      /\ \A d \in Conn : /\ conns'[d].player = conns[d].player
                         /\ conns'[d].pending = conns[d].pending
                         /\ d # c => conns'[d] = conns[d]
                         /\ conns'[d].state # "absent" \/ conns[d].state = "absent"
  BY <1>1, <1>2 DEF TypeOK, Connection
<1>4. TypeOK'
  BY <1>1, <1>2, <1>3 DEF TypeOK
<1>5. Linked' /\ Unused'
  BY <1>1, <1>2, <1>3, PlayerType DEF FInv, Linked, Unused
<1>6. Owned'
  BY <1>1, <1>2, <1>3, FrameConn DEF FInv, Owned, Queue
<1>7. Calm
  <2>1. ASSUME NEW d \in Conn, Speaks(d)' PROVE Goes(d)
    <3>1. conns'[d].player = conns[d].player /\ conns[d].player \in Account
      BY <1>2, <1>3, <2>1, ConnType DEF Speaks
    <3>2. d # c
      BY <1>1, <2>1, <3>1, FenceAssumption DEF Speaks, FInv, Linked
    <3> QED BY <1>1, <1>3, <2>1, <3>1, <3>2 DEF Speaks, Goes, Forward
  <2> QED BY <1>1, <1>3, <2>1, SameQueue DEF Calm
<1> QED BY <1>1, <1>4, <1>5, <1>6, <1>7, CalmInv DEF Quiet

LEMMA ClosesStep ==
  ASSUME FInv, NEW c \in Conn, CloseSocket(c) \/ DelayLimit(c)
  PROVE  Quiet
<1>1. /\ conns[c].state = "open" /\ conns' = [conns EXCEPT ![c].state = "closing"]
      /\ heard' = <<>> /\ UNCHANGED <<players, delayed, due, moves>>
  BY DEF CloseSocket, DelayLimit, Speaks
<1>2. TypeOK
  BY DEF FInv
<1>3. /\ conns' \in [Conn -> Connection] /\ conns'[c].state = "closing"
      /\ \A d \in Conn : /\ conns'[d].player = conns[d].player
                         /\ conns'[d].pending = conns[d].pending
                         /\ d # c => conns'[d] = conns[d]
                         /\ conns'[d].state # "absent" \/ conns[d].state = "absent"
  BY <1>1, <1>2 DEF TypeOK, Connection
<1>4. TypeOK'
  BY <1>1, <1>2, <1>3 DEF TypeOK
<1>5. Linked' /\ Unused'
  BY <1>1, <1>2, <1>3, PlayerType DEF FInv, Linked, Unused
<1>6. Owned'
  BY <1>1, <1>2, <1>3, FrameConn DEF FInv, Owned, Queue
<1>7. Calm
  <2>1. ASSUME NEW d \in Conn, Speaks(d)' PROVE Goes(d)
    <3>1. d # c
      BY <1>3, <2>1 DEF Speaks
    <3> QED BY <1>1, <1>3, <2>1, <3>1 DEF Speaks, Goes, Forward
  <2> QED BY <1>1, <1>3, <2>1, SameQueue DEF Calm
<1> QED BY <1>1, <1>4, <1>5, <1>6, <1>7, CalmInv DEF Quiet

LEMMA ForgetStep ==
  ASSUME FInv, NEW p \in Account, Forget(p)
  PROVE  Quiet
<1>1. /\ players[p].conn = None /\ players' = [players EXCEPT ![p].version = 0]
      /\ heard' = <<>> /\ UNCHANGED <<conns, delayed, due, moves>>
  BY DEF Forget
<1>2. TypeOK
  BY DEF FInv
<1>3. /\ players' \in [Account -> Player]
      /\ \A q \in Account : /\ players'[q].conn = players[q].conn
                            /\ q # p => players'[q] = players[q]
  BY <1>1, <1>2 DEF TypeOK, Player
<1>4. TypeOK'
  BY <1>1, <1>2, <1>3 DEF TypeOK
<1>5. Linked' /\ Unused' /\ Owned'
  BY <1>1, <1>3 DEF FInv, Linked, Unused, Owned, Queue
<1>6. Calm
  <2>1. ASSUME NEW d \in Conn, Speaks(d)' PROVE Goes(d)
    <3>1. conns[d].player \in Account /\ conns'[d] = conns[d]
      BY <1>1, <1>2, <2>1, ConnType DEF Speaks
    <3>2. conns[d].player # p
      BY <1>1, <1>3, <2>1, <3>1, FenceAssumption DEF Speaks
    <3> QED BY <1>1, <1>3, <2>1, <3>1, <3>2 DEF Speaks, Goes, Forward
  <2> QED BY <1>1, <2>1, SameQueue DEF Calm
<1> QED BY <1>1, <1>4, <1>5, <1>6, CalmInv DEF Quiet

LEMMA StartSweepStep ==
  ASSUME FInv, NEW n \in 1 .. Len(delayed), StartSweep(n)
  PROVE  Quiet
<1>1. /\ due = <<>> /\ due' = SubSeq(delayed, 1, n)
      /\ delayed' = SubSeq(delayed, n + 1, Len(delayed))
      /\ heard' = <<>> /\ UNCHANGED <<players, conns, moves>>
  BY DEF StartSweep, Ready
<1>2. TypeOK /\ delayed \in Seq(Delayed)
  BY DEF FInv, TypeOK
<1>3. /\ due' \in Seq(Delayed) /\ delayed' \in Seq(Delayed)
      /\ due' \o delayed' = delayed
  BY <1>1, <1>2
<1>4. due' \o delayed' = due \o delayed
  BY <1>1, <1>2, <1>3
<1>5. TypeOK'
  BY <1>1, <1>2, <1>3 DEF TypeOK
<1>6. Queue' = Queue /\ \A c \in Conn : Waiting(c)' = Waiting(c)
  BY <1>4 DEF Queue, Waiting
<1>7. Linked' /\ Unused' /\ Owned'
  BY <1>1, <1>6 DEF FInv, Linked, Unused, Owned
<1>8. Calm
  BY <1>1, <1>6 DEF Calm, Fewer, Speaks, Goes, Forward
<1> QED BY <1>1, <1>5, <1>7, <1>8, CalmInv DEF Quiet

LEMMA DisconnectStep ==
  ASSUME FInv, NEW c \in Conn, Disconnect(c)
  PROVE  Quiet
<1> DEFINE p == conns[c].player
<1>1. /\ Ready /\ conns' = [conns EXCEPT ![c] = NoConn] /\ delayed' = Without(c, delayed)
      /\ heard' = <<>> /\ UNCHANGED due
      /\ IF p # None /\ players[p].conn = c
         THEN \E others \in Company(p) :
                /\ players' = [Departs(players, p, others) EXCEPT ![p].conn = None]
                /\ moves' = Advanced({p} \cup others)
         ELSE UNCHANGED <<players, moves>>
  BY DEF Disconnect
<1>2. TypeOK /\ c # None
  BY FenceAssumption DEF FInv
<1>3. /\ Fewer /\ delayed' \in Seq(Delayed)
      /\ \A i \in DOMAIN Queue' : Queue'[i].cid # c
      /\ \A d \in Conn \ {c} : Waiting(d)' = Waiting(d)
  BY <1>1, <1>2, WithoutFacts
<1>4. /\ conns' \in [Conn -> Connection] /\ conns'[c] = NoConn
      /\ \A d \in Conn \ {c} : conns'[d] = conns[d]
  <2>1. NoConn \in Connection
    BY DEF NoConn, Connection
  <2> QED BY <1>1, <1>2, <2>1 DEF TypeOK
\* Whose session it was has none any more; the others move on or stay.
<1>5. /\ players' \in [Account -> Player] /\ moves' \in [Account -> Nat]
      /\ \A q \in Account : /\ players'[q].conn = players[q].conn \/ players'[q].conn = None
                            /\ players[q].conn = c => players'[q].conn = None
                            /\ players[q].conn # c => Forward(q)
  <2>1. CASE p # None /\ players[p].conn = c
    <3>1. p \in Account
      BY <1>2, <2>1, ConnType
    <3>2. PICK others \in Company(p) :
            /\ players' = [Departs(players, p, others) EXCEPT ![p].conn = None]
            /\ moves' = Advanced({p} \cup others)
      BY <1>1, <2>1
    <3> DEFINE D == Departs(players, p, others)
               P == {p} \cup others
    <3>3. /\ D \in [Account -> Player]
          /\ \A q \in Account :
               /\ D[q].conn = players[q].conn
               /\ q \notin P => D[q] = players[q]
               /\ q \in P => D[q].room = None /\ D[q].version = players[q].version + 1
      BY <1>2, MovedFacts DEF Departs
    <3>4. /\ moves' \in [Account -> Nat]
          /\ \A q \in Account : moves'[q] = IF q \in P THEN moves[q] + 1 ELSE moves[q]
      BY <1>2, <3>2, AdvancedFacts
    <3>5. players' = [D EXCEPT ![p].conn = None]
      BY <3>2
    <3> HIDE DEF D, P
    <3>6. /\ players' \in [Account -> Player] /\ players'[p].conn = None
          /\ \A q \in Account \ {p} : players'[q] = D[q]
      BY <3>1, <3>3, <3>5 DEF Player
    <3>7. \A q \in Account : players[q].conn = c => q = p
      BY <1>2 DEF FInv, Linked
    <3>8. ASSUME NEW q \in Account, players[q].conn # c PROVE Forward(q)
      <4>1. q # p
        BY <2>1, <3>8
      <4> QED BY <3>3, <3>4, <3>6, <4>1 DEF Forward
    <3> QED BY <3>3, <3>4, <3>6, <3>7, <3>8
  <2>2. CASE ~(p # None /\ players[p].conn = c)
    <3>1. UNCHANGED <<players, moves>>
      BY <1>1, <2>2
    <3>2. \A q \in Account : players[q].conn # c
      BY <1>2, <2>2, FenceAssumption DEF FInv, Linked
    <3>3. \A q \in Account : Forward(q)
      BY <3>1 DEF Forward
    <3> QED BY <1>2, <3>1, <3>2, <3>3 DEF TypeOK
  <2> QED BY <2>1, <2>2
<1>6. TypeOK'
  BY <1>1, <1>2, <1>3, <1>4, <1>5 DEF TypeOK
<1>7. Linked'
  <2> SUFFICES ASSUME NEW q \in Account, players'[q].conn # None
               PROVE  /\ conns'[players'[q].conn].player = q
                      /\ conns'[players'[q].conn].state # "absent"
    BY DEF Linked
  <2>1. players'[q].conn = players[q].conn /\ players[q].conn # c
    BY <1>5
  <2>2. players[q].conn \in Conn \ {c}
    BY <1>2, <2>1, PlayerType
  <2> QED BY <1>4, <2>1, <2>2 DEF FInv, Linked
<1>8. Unused'
  BY <1>4 DEF FInv, Unused, NoConn
<1>9. Owned'
  <2> SUFFICES ASSUME NEW i \in DOMAIN Queue' PROVE conns'[Queue'[i].cid].player # None
    BY DEF Owned
  <2>1. PICK j \in DOMAIN Queue : Queue'[i] = Queue[j]
    BY <1>3 DEF Fewer
  <2>2. Queue'[i].cid \in Conn \ {c}
    BY <1>2, <1>3, <2>1, FrameConn
  <2> QED BY <1>4, <2>1, <2>2 DEF FInv, Owned
<1>10. Calm
  <2>1. ASSUME NEW d \in Conn, Speaks(d)'
        PROVE  Goes(d) /\ d # c
    <3>1. d # c
      BY <1>4, <2>1 DEF Speaks, NoConn
    <3>2. conns'[d] = conns[d] /\ conns[d].player \in Account /\ conns[d].state = "open"
      BY <1>2, <1>4, <2>1, <3>1, ConnType DEF Speaks
    <3>3. players'[conns[d].player].conn = d /\ d # None
      BY <2>1, <3>2, FenceAssumption DEF Speaks
    <3>4. players[conns[d].player].conn = d
      BY <1>5, <3>2, <3>3
    <3> QED BY <1>5, <3>1, <3>2, <3>4, FenceAssumption DEF Speaks, Goes
  <2> QED BY <1>3, <1>4, <2>1 DEF Calm
<1> QED BY <1>1, <1>6, <1>7, <1>8, <1>9, <1>10, CalmInv DEF Quiet

LEMMA AuthStep ==
  ASSUME FInv, NEW c \in Conn, NEW p \in Account, NEW leaves \in BOOLEAN, Auth(c, p, leaves)
  PROVE  Quiet
<1> DEFINE old == players[p].conn
<1>1. /\ Ready /\ conns[c].state = "open" /\ conns[c].player = None
      /\ delayed' = Without(old, delayed) /\ heard' = <<>> /\ UNCHANGED due
      /\ conns' = [d \in Conn |->
                     IF d = c THEN [conns[d] EXCEPT !.player = p]
                     ELSE IF d = old THEN [conns[d] EXCEPT !.state = "closing"]
                     ELSE conns[d]]
  BY DEF Auth
<1>2. TypeOK /\ c # None /\ old \in Conn \cup {None}
  BY FenceAssumption, PlayerType DEF FInv
<1>3. old # c /\ \A q \in Account : players[q].conn # c
  BY <1>1, <1>2, FenceAssumption DEF FInv, Linked
<1>4. /\ Fewer /\ delayed' \in Seq(Delayed)
      /\ \A d \in Conn \ {old} : Waiting(d)' = Waiting(d)
  BY <1>1, <1>2, WithoutFacts
<1>5. \A i \in DOMAIN Queue' : Queue'[i].cid # c
  <2> SUFFICES ASSUME NEW i \in DOMAIN Queue', Queue'[i].cid = c PROVE FALSE
    OBVIOUS
  <2>1. PICK j \in DOMAIN Queue : Queue'[i] = Queue[j]
    BY <1>4 DEF Fewer
  <2> QED BY <1>1, <2>1 DEF FInv, Owned
<1> HIDE DEF old
<1>6. /\ conns' \in [Conn -> Connection]
      /\ conns'[c].player = p /\ conns'[c].state = "open"
      /\ conns'[c].pending = conns[c].pending
      /\ old \in Conn => /\ conns'[old].state = "closing"
                         /\ conns'[old].player = conns[old].player
                         /\ conns'[old].pending = conns[old].pending
      /\ \A d \in Conn \ {c, old} : conns'[d] = conns[d]
  <2>1. [conns[c] EXCEPT !.player = p] \in Connection
    BY <1>2, ConnType DEF Connection
  <2>2. old \in Conn => [conns[old] EXCEPT !.state = "closing"] \in Connection
    BY <1>2, ConnType DEF Connection
  <2>3. \A d \in Conn : conns[d] \in Connection
    BY <1>2, ConnType
  <2>4. conns' \in [Conn -> Connection]
    BY <1>1, <2>1, <2>2, <2>3
  <2>5. conns'[c] = [conns[c] EXCEPT !.player = p]
    BY <1>1
  <2>6. old \in Conn => conns'[old] = [conns[old] EXCEPT !.state = "closing"]
    BY <1>1, <1>3
  <2>7. \A d \in Conn \ {c, old} : conns'[d] = conns[d]
    BY <1>1
  <2> QED BY <1>1, <1>2, <2>4, <2>5, <2>6, <2>7, ConnType DEF Connection
<1>7. /\ players' \in [Account -> Player] /\ moves' \in [Account -> Nat]
      /\ players'[p].conn = c
      /\ \A q \in Account \ {p} : players'[q].conn = players[q].conn /\ Forward(q)
  <2>1. PICK others \in (IF leaves THEN Company(p) ELSE {{}}) :
          /\ players' = [(IF leaves THEN Departs(players, p, others) ELSE players)
                           EXCEPT ![p].conn = c]
          /\ moves' = Advanced({p} \cup others)
    BY DEF Auth
  <2> DEFINE P == {p} \cup others
             D == IF leaves THEN Departs(players, p, others) ELSE players
  <2>2. /\ D \in [Account -> Player]
        /\ \A q \in Account :
             /\ D[q].conn = players[q].conn
             /\ ~(leaves /\ q \in P) => D[q] = players[q]
             /\ leaves /\ q \in P => D[q].version = players[q].version + 1
    <3>1. CASE leaves
      BY <1>2, <3>1, MovedFacts DEF Departs
    <3>2. CASE ~leaves
      BY <1>2, <3>2 DEF TypeOK
    <3> QED BY <3>1, <3>2
  <2>3. /\ moves' \in [Account -> Nat]
        /\ \A q \in Account : moves'[q] = IF q \in P THEN moves[q] + 1 ELSE moves[q]
    BY <1>2, <2>1, AdvancedFacts
  <2>4. ~leaves => P = {p}
    BY <2>1
  <2>5. players' = [D EXCEPT ![p].conn = c]
    BY <2>1
  <2> HIDE DEF D, P
  <2>6. /\ players' \in [Account -> Player] /\ players'[p].conn = c
        /\ \A q \in Account \ {p} : players'[q] = D[q]
    BY <2>2, <2>5 DEF Player
  <2>7. ASSUME NEW q \in Account \ {p} PROVE Forward(q)
    <3>1. CASE leaves /\ q \in P
      BY <2>2, <2>3, <2>6, <3>1 DEF Forward
    <3>2. CASE ~(leaves /\ q \in P)
      BY <2>2, <2>3, <2>4, <2>6, <3>2 DEF Forward
    <3> QED BY <3>1, <3>2
  <2> QED BY <2>2, <2>3, <2>6, <2>7
<1>8. TypeOK'
  BY <1>1, <1>2, <1>4, <1>6, <1>7 DEF TypeOK
<1>9. Linked'
  <2> SUFFICES ASSUME NEW q \in Account, players'[q].conn # None
               PROVE  /\ conns'[players'[q].conn].player = q
                      /\ conns'[players'[q].conn].state # "absent"
    BY DEF Linked
  <2>1. CASE q = p
    BY <1>6, <1>7, <2>1
  <2>2. CASE q # p
    <3>1. players'[q].conn = players[q].conn
      BY <1>7, <2>2
    <3>2. players[q].conn \in Conn \ {c, old}
      <4>1. players[q].conn \in Conn
        BY <1>2, <3>1, PlayerType
      <4>2. conns[players[q].conn].player = q
        BY <3>1 DEF FInv, Linked
      <4>3. old # None => conns[old].player = p
        BY DEF FInv, Linked, old
      <4> QED BY <1>3, <2>2, <3>1, <4>1, <4>2, <4>3
    <3> QED BY <1>6, <3>1, <3>2 DEF FInv, Linked
  <2> QED BY <2>1, <2>2
<1>10. Unused'
  <2> SUFFICES ASSUME NEW d \in Conn, conns'[d].player = None PROVE conns'[d].pending = 0
    BY DEF Unused
  <2>1. d # c
    BY <1>6, FenceAssumption
  <2>2. conns'[d].player = conns[d].player /\ conns'[d].pending = conns[d].pending
    BY <1>6, <2>1
  <2> QED BY <2>2 DEF FInv, Unused
<1>11. Owned'
  <2> SUFFICES ASSUME NEW i \in DOMAIN Queue' PROVE conns'[Queue'[i].cid].player # None
    BY DEF Owned
  <2>1. PICK j \in DOMAIN Queue : Queue'[i] = Queue[j]
    BY <1>4 DEF Fewer
  <2>2. Queue'[i].cid \in Conn \ {c}
    BY <1>2, <1>5, <2>1, FrameConn
  <2>3. conns[Queue'[i].cid].player # None
    BY <2>1 DEF FInv, Owned
  <2> QED BY <1>6, <2>2, <2>3
<1>12. Calm
  <2>1. ASSUME NEW d \in Conn \ {c}, Speaks(d)'
        PROVE  Goes(d) /\ Waiting(d)' = Waiting(d) /\ conns'[d].pending = conns[d].pending
    <3>1. d # old
      BY <1>6, <2>1 DEF Speaks
    <3>2. conns'[d] = conns[d] /\ conns[d].player \in Account /\ conns[d].state = "open"
      BY <1>2, <1>6, <2>1, <3>1, ConnType DEF Speaks
    <3>3. conns[d].player # p
      BY <1>7, <2>1, <3>2 DEF Speaks
    <3>4. players[conns[d].player].conn = d /\ conns[d].player # None /\ Forward(conns[d].player)
      BY <1>7, <2>1, <3>2, <3>3, FenceAssumption DEF Speaks
    <3> QED BY <1>4, <3>1, <3>2, <3>4 DEF Speaks, Goes
  <2>2. Begins(c)
    BY <1>1, <1>5, <1>6 DEF Begins, FInv, Unused
  <2> QED BY <1>4, <2>1, <2>2 DEF Calm
<1> QED BY <1>1, <1>8, <1>9, <1>10, <1>11, <1>12, CalmInv DEF Quiet

-----------------------------------------------------------------------------
(* The steps of frames. *)

LEMMA WaitingType ==
  ASSUME TypeOK, NEW c
  PROVE  Waiting(c) \in Seq(Delayed)
<1>1. due \o delayed \in Seq(Delayed)
  BY DEF TypeOK
<1> QED BY <1>1, KeptFrames DEF Waiting

LEMMA ReceiveInv ==
  ASSUME FInv, NEW c \in Conn, NEW what \in Scoped \cup Global, Receive(c, what)
  PROVE  /\ FInv'
         /\ Waiting(c)' = Append(Waiting(c), [cid |-> c, version |-> players[conns[c].player].version,
                                             what |-> what, stay |-> StayOf(conns[c].player)])
         /\ \A d \in Conn \ {c} : Waiting(d)' = Waiting(d)
         /\ \A d \in Conn : Speaks(d)' <=> Speaks(d)
         /\ \A d \in Conn : conns'[d].player = conns[d].player
<1> DEFINE p == conns[c].player
           f == [cid |-> c, version |-> players[p].version, what |-> what, stay |-> StayOf(p)]
<1>1. /\ due = <<>> /\ Speaks(c) /\ conns' = [conns EXCEPT ![c].pending = @ + 1]
      /\ delayed' = Append(delayed, f) /\ UNCHANGED <<players, due, moves>>
  BY DEF Receive, Ready
<1>2. TypeOK /\ delayed \in Seq(Delayed)
  BY DEF FInv, TypeOK
<1>3. p \in Account /\ p # None
  BY <1>1, <1>2, SpeaksType, FenceAssumption
<1>4. f \in Delayed /\ f.cid = c
  BY <1>2, <1>3, PlayerType DEF Delayed, StayOf, Stay
<1>5. f.version = players[p].version /\ f.stay.moves = moves[p]
      /\ f.stay.inside = (players[p].room # None)
  BY DEF StayOf
<1> HIDE DEF f
<1>6. /\ conns' \in [Conn -> Connection]
      /\ conns'[c].pending = conns[c].pending + 1
      /\ \A d \in Conn : conns'[d].player = conns[d].player /\ conns'[d].state = conns[d].state
      /\ \A d \in Conn \ {c} : conns'[d] = conns[d]
  <2>1. conns[c] \in Connection /\ conns[c].pending + 1 \in Nat
    BY <1>2, ConnType
  <2>2. [conns[c] EXCEPT !.pending = @ + 1] \in Connection
    BY <2>1 DEF Connection
  <2>3. conns \in [Conn -> Connection]
    BY <1>2 DEF TypeOK
  <2>4. /\ conns' \in [Conn -> Connection]
        /\ conns'[c] = [conns[c] EXCEPT !.pending = @ + 1]
        /\ \A d \in Conn \ {c} : conns'[d] = conns[d]
    BY <1>1, <2>2, <2>3
  <2> QED BY <2>1, <2>4 DEF Connection
<1>7. TypeOK'
  BY <1>1, <1>2, <1>4, <1>6 DEF TypeOK
<1>8. \A d \in Conn : Speaks(d)' <=> Speaks(d)
  BY <1>1, <1>6 DEF Speaks
<1>9. Linked' /\ Unused'
  <2>1. Linked'
    BY <1>1, <1>2, <1>6, PlayerType DEF FInv, Linked
  <2>2. Unused'
    BY <1>3, <1>6 DEF FInv, Unused
  <2> QED BY <2>1, <2>2
<1>10. Queue = delayed /\ Queue' = Append(delayed, f) /\ Queue' = delayed'
  BY <1>1, <1>2, <1>4 DEF Queue
<1>11. \A i \in DOMAIN Queue' : Queue'[i] = f \/ \E j \in DOMAIN Queue : Queue'[i] = Queue[j]
  <2>1. /\ DOMAIN Append(delayed, f) = 1 .. Len(delayed) + 1 /\ DOMAIN delayed = 1 .. Len(delayed)
        /\ Len(delayed) \in Nat /\ Append(delayed, f)[Len(delayed) + 1] = f
        /\ \A i \in DOMAIN delayed : Append(delayed, f)[i] = delayed[i]
    BY <1>2, <1>4
  <2>2. \A i \in 1 .. Len(delayed) + 1 : i = Len(delayed) + 1 \/ i \in 1 .. Len(delayed)
    BY <2>1
  <2> QED BY <1>10, <2>1, <2>2
<1>12. Owned'
  <2> SUFFICES ASSUME NEW i \in DOMAIN Queue' PROVE conns'[Queue'[i].cid].player # None
    BY DEF Owned
  <2>1. CASE Queue'[i] = f
    BY <1>3, <1>4, <1>6, <2>1
  <2>2. CASE \E j \in DOMAIN Queue : Queue'[i] = Queue[j]
    BY <1>2, <1>6, <2>2, FrameConn DEF FInv, Owned
  <2> QED BY <1>11, <2>1, <2>2
<1>13. \A d \in Conn : Speaks(d)' => Goes(d)
  BY <1>1, <1>6, <1>8 DEF Goes, Forward
<1>14. Aged'
  <2>1. ASSUME NEW g, NEW i \in DOMAIN Queue', g = Queue'[i]
        PROVE  SinceSent(g)'
    <3>1. g \in Delayed /\ SinceSent(g)
      <4>1. CASE g = f
        <5>1. players[p].version \in Nat /\ moves[p] \in Nat
          BY <1>2, <1>3, PlayerType
        <5> QED BY <1>4, <1>5, <4>1, <5>1 DEF SinceSent, Since
      <4>2. CASE \E j \in DOMAIN Queue : g = Queue[j]
        BY <1>2, <4>2, FrameConn DEF FInv, Aged
      <4> QED BY <1>11, <2>1, <4>1, <4>2
    <3>2. g.cid \in Conn
      BY <3>1, DelayedType
    <3> QED BY <1>2, <1>13, <3>1, <3>2, FrameKept
  <2> QED BY <2>1 DEF Aged
<1>15. /\ Waiting(c)' = Append(Waiting(c), f)
       /\ \A d \in Conn \ {c} : Waiting(d)' = Waiting(d)
  <2>1. \A d \in Conn : /\ Waiting(d)' = Kept({d}, Append(delayed, f))
                        /\ Waiting(d) = Kept({d}, delayed)
    BY <1>10 DEF Queue, Waiting
  <2>2. ASSUME NEW d \in Conn
        PROVE  Kept({d}, Append(delayed, f)) =
                 IF f.cid \in {d} THEN Append(Kept({d}, delayed), f) ELSE Kept({d}, delayed)
    BY <1>2, <1>4, KeptAppend
  <2> QED BY <1>4, <2>1, <2>2
<1>16. PendingExact'
  <2> SUFFICES ASSUME NEW d \in Conn, Speaks(d)' PROVE conns'[d].pending = Len(Waiting(d)')
    BY DEF PendingExact
  <2>1. conns[d].pending = Len(Waiting(d))
    BY <1>8 DEF FInv, PendingExact
  <2>2. CASE d = c
    <3>1. Waiting(c) \in Seq(Delayed)
      BY <1>2, WaitingType
    <3>2. Len(Append(Waiting(c), f)) = Len(Waiting(c)) + 1
      BY <1>4, <3>1
    <3> QED BY <1>6, <1>15, <2>1, <2>2, <3>2
  <2>3. CASE d # c
    BY <1>6, <1>15, <2>1, <2>3
  <2> QED BY <2>2, <2>3
<1>17. FInv'
  BY <1>7, <1>9, <1>12, <1>14, <1>16 DEF FInv
<1> QED BY <1>6, <1>8, <1>15, <1>17 DEF f

LEMMA DispatchedFacts ==
  ASSUME TypeOK, NEW f \in Delayed, conns[f.cid].player \in Account, Dispatched(f)
  PROVE  /\ players' \in [Account -> Player] /\ moves' \in [Account -> Nat]
         /\ \A q \in Account : players'[q].conn = players[q].conn /\ Forward(q)
         /\ f.what \in Scoped => UNCHANGED <<players, moves>>
<1> DEFINE p == conns[f.cid].player
<1>1. CASE UNCHANGED <<players, moves>>
  BY <1>1 DEF TypeOK, Forward
<1>2. CASE f.what \in Room /\ players' = Moved(players, {p}, f.what) /\ moves' = Advanced({p})
  <2>1. f.what \notin Scoped
    BY <1>2, FenceAssumption DEF Global
  <2>2. /\ players' \in [Account -> Player]
        /\ \A q \in Account :
             /\ players'[q].conn = players[q].conn
             /\ q \notin {p} => players'[q] = players[q]
             /\ q \in {p} => players'[q].version = players[q].version + 1
    BY <1>2, MovedFacts
  <2>3. /\ moves' \in [Account -> Nat]
        /\ \A q \in Account : moves'[q] = IF q \in {p} THEN moves[q] + 1 ELSE moves[q]
    BY <1>2, AdvancedFacts
  <2> QED BY <2>1, <2>2, <2>3 DEF Forward
<1>3. ASSUME NEW others \in Company(p), f.what = "leaveRoom", Leaves(p, others)
      PROVE  /\ players' \in [Account -> Player] /\ moves' \in [Account -> Nat]
             /\ \A q \in Account : players'[q].conn = players[q].conn /\ Forward(q)
             /\ f.what \notin Scoped
  <2>1. f.what \notin Scoped
    BY <1>3, FenceAssumption DEF Global
  <2> DEFINE P == {p} \cup others
             A == others \cup (IF players[p].room = None THEN {} ELSE {p})
  <2>2. /\ players' \in [Account -> Player]
        /\ \A q \in Account :
             /\ players'[q].conn = players[q].conn
             /\ q \notin P => players'[q] = players[q]
             /\ q \in P => /\ players'[q].room = None
                           /\ players'[q].version = players[q].version + 1
    BY <1>3, MovedFacts DEF Leaves, Departs
  <2>3. /\ moves' \in [Account -> Nat]
        /\ \A q \in Account : moves'[q] = IF q \in A THEN moves[q] + 1 ELSE moves[q]
    BY <1>3, AdvancedFacts DEF Leaves
  <2>4. p \notin others /\ (players[p].room = None => others = {})
    BY <1>3, CompanyFacts
  <2>5. ASSUME NEW q \in Account PROVE Forward(q)
    <3>1. CASE q \notin P
      BY <2>2, <2>3, <3>1 DEF Forward
    <3>2. CASE q \in P /\ q \in A
      BY <2>2, <2>3, <3>2 DEF Forward
    <3>3. CASE q \in P /\ q \notin A
      <4>1. q = p /\ players[q].room = None
        BY <3>3
      <4> QED BY <2>2, <2>3, <3>3, <4>1 DEF Forward
    <3> QED BY <3>1, <3>2, <3>3
  <2> QED BY <2>1, <2>2, <2>3, <2>5
<1> QED BY <1>1, <1>2, <1>3 DEF Dispatched

\* Whether or not the frame acts.
LEMMA SweepInv ==
  ASSUME FInv, SweepNext
  PROVE  LET f == Head(due) IN
         /\ FInv' /\ f \in Delayed /\ f.cid \in Conn
         /\ Fewer /\ SinceSent(f)
         /\ \A c \in Conn : /\ Speaks(c)' <=> Speaks(c)
                            /\ Speaks(c) => Goes(c)
                            /\ c # f.cid => /\ Waiting(c)' = Waiting(c)
                                            /\ conns'[c].pending = conns[c].pending
                            /\ c = f.cid => /\ Waiting(c) # <<>> /\ Head(Waiting(c)) = f
                                            /\ Waiting(c)' = Tail(Waiting(c))
<1> DEFINE f == Head(due)
<1>1. /\ due # <<>> /\ due' = Tail(due) /\ UNCHANGED delayed
      /\ conns' = IF conns[f.cid].state = "absent" THEN conns ELSE Released(f)
      /\ IF Passes(f) THEN Dispatched(f) ELSE UNCHANGED <<players, moves>>
  BY DEF SweepNext, Ready
<1>2. TypeOK /\ due \in Seq(Delayed) /\ delayed \in Seq(Delayed)
  BY DEF FInv, TypeOK
<1>3. /\ Queue \in Seq(Delayed) /\ Queue # <<>> /\ Head(Queue) = f /\ Queue' = Tail(Queue)
  BY <1>1, <1>2 DEF Queue
<1>4. 1 \in DOMAIN Queue /\ Queue[1] = f /\ f \in Delayed /\ f.cid \in Conn
  <2>1. 1 \in DOMAIN Queue /\ Queue[1] = f
    BY <1>3
  <2> QED BY <1>2, <2>1, FrameConn
<1>5. conns[f.cid].player \in Account /\ conns[f.cid].player # None /\ SinceSent(f)
  BY <1>2, <1>4, ConnType, FenceAssumption DEF FInv, Owned, Aged
<1>6. Fewer
  BY <1>3 DEF Fewer
<1> HIDE DEF f
<1>7. /\ conns' \in [Conn -> Connection]
      /\ \A c \in Conn : /\ conns'[c].player = conns[c].player /\ conns'[c].state = conns[c].state
                         /\ c # f.cid => conns'[c] = conns[c]
      /\ conns[f.cid].state # "absent" =>
           conns'[f.cid].pending = IF conns[f.cid].pending > 0 THEN conns[f.cid].pending - 1 ELSE 0
  <2>1. CASE conns[f.cid].state = "absent"
    BY <1>1, <1>2, <2>1 DEF TypeOK
  <2>2. CASE conns[f.cid].state # "absent"
    <3>1. conns' = Released(f)
      BY <1>1, <2>2
    <3>2. conns[f.cid] \in Connection /\ conns[f.cid].pending \in Nat
      BY <1>2, <1>4, ConnType
    <3>3. (IF conns[f.cid].pending > 0 THEN conns[f.cid].pending - 1 ELSE 0) \in Nat
      BY <3>2
    <3> QED BY <1>2, <1>4, <3>1, <3>2, <3>3 DEF Released, TypeOK, Connection
  <2> QED BY <2>1, <2>2
<1>8. /\ players' \in [Account -> Player] /\ moves' \in [Account -> Nat]
      /\ \A q \in Account : players'[q].conn = players[q].conn /\ Forward(q)
  <2>1. CASE Passes(f)
    BY <1>1, <1>2, <1>4, <1>5, <2>1, DispatchedFacts
  <2>2. CASE ~Passes(f)
    BY <1>1, <1>2, <2>2 DEF TypeOK, Forward
  <2> QED BY <2>1, <2>2
<1>9. TypeOK'
  BY <1>1, <1>2, <1>7, <1>8 DEF TypeOK
<1>10. ASSUME NEW c \in Conn PROVE (Speaks(c)' <=> Speaks(c)) /\ (Speaks(c) => Goes(c))
  <2>1. conns'[c].player = conns[c].player /\ conns'[c].state = conns[c].state
    BY <1>7
  <2>2. conns[c].player # None => conns[c].player \in Account
    BY <1>2, ConnType
  <2> QED BY <1>8, <2>1, <2>2 DEF Speaks, Goes
<1>11. Linked'
  BY <1>2, <1>7, <1>8, PlayerType DEF FInv, Linked
<1>12. Unused'
  BY <1>5, <1>7 DEF FInv, Unused
<1>13. Owned'
  <2> SUFFICES ASSUME NEW i \in DOMAIN Queue' PROVE conns'[Queue'[i].cid].player # None
    BY DEF Owned
  <2>1. PICK j \in DOMAIN Queue : Queue'[i] = Queue[j]
    BY <1>6 DEF Fewer
  <2> QED BY <1>2, <1>7, <2>1, FrameConn DEF FInv, Owned
<1>14. Aged'
  BY <1>6, <1>10, AgedKept
<1>15. ASSUME NEW c \in Conn
       PROVE  /\ c # f.cid => Waiting(c)' = Waiting(c)
              /\ c = f.cid => /\ Waiting(c) # <<>> /\ Head(Waiting(c)) = f
                              /\ Waiting(c)' = Tail(Waiting(c))
  <2>1. Waiting(c) = Kept({c}, Queue) /\ Waiting(c)' = Kept({c}, Tail(Queue))
    <3>1. due \o delayed = Queue /\ due' \o delayed' = Tail(Queue)
      BY <1>3 DEF Queue
    <3> QED BY <3>1 DEF Waiting
  <2>2. c # f.cid => Kept({c}, Queue) = Kept({c}, Tail(Queue))
    BY <1>3, KeptTail
  <2>3. c = f.cid => /\ Kept({c}, Queue) # <<>> /\ Head(Kept({c}, Queue)) = f
                     /\ Tail(Kept({c}, Queue)) = Kept({c}, Tail(Queue))
    BY <1>3, KeptTail
  <2> QED BY <2>1, <2>2, <2>3
<1>16. PendingExact'
  <2> SUFFICES ASSUME NEW c \in Conn, Speaks(c)' PROVE conns'[c].pending = Len(Waiting(c)')
    BY DEF PendingExact
  <2>1. Speaks(c) /\ conns[c].pending = Len(Waiting(c))
    BY <1>10 DEF FInv, PendingExact
  <2>2. CASE c = f.cid
    <3>1. Waiting(c) \in Seq(Delayed)
      BY <1>2, WaitingType
    <3>2. Len(Waiting(c)) > 0 /\ Len(Tail(Waiting(c))) = Len(Waiting(c)) - 1
      BY <1>15, <2>2, <3>1
    <3>3. conns[c].state # "absent"
      BY <2>1 DEF Speaks
    <3>4. conns'[c].pending = conns[c].pending - 1
      BY <1>7, <2>1, <2>2, <3>2, <3>3
    <3> QED BY <1>15, <2>1, <2>2, <3>2, <3>4
  <2>3. CASE c # f.cid
    BY <1>7, <1>15, <2>1, <2>3
  <2> QED BY <2>2, <2>3
<1>17. FInv'
  BY <1>9, <1>11, <1>12, <1>13, <1>14, <1>16 DEF FInv
<1> QED BY <1>4, <1>5, <1>6, <1>7, <1>10, <1>15, <1>17 DEF f

-----------------------------------------------------------------------------
(* The refinement: the boxes of Mailbox are what waits, as letters. *)

Lettered(w) == [i \in DOMAIN w |-> [what |-> w[i].what, stay |-> w[i].stay]]

LEMMA LetteredFacts ==
  ASSUME NEW w \in Seq(Delayed)
  PROVE  /\ Lettered(<<>>) = <<>>
         /\ \A f \in Delayed : Lettered(Append(w, f)) =
              Append(Lettered(w), [what |-> f.what, stay |-> f.stay])
         /\ w # <<>> => /\ Lettered(w) # <<>>
                        /\ Head(Lettered(w)) = [what |-> Head(w).what, stay |-> Head(w).stay]
                        /\ Tail(Lettered(w)) = Lettered(Tail(w))
<1> DEFINE L(f) == [what |-> f.what, stay |-> f.stay]
           S == {L(f) : f \in Delayed}
<1>1. \A u \in Seq(Delayed) : /\ Lettered(u) \in Seq(S) /\ Len(Lettered(u)) = Len(u)
                              /\ \A i \in 1 .. Len(u) : Lettered(u)[i] = L(u[i])
  <2> SUFFICES ASSUME NEW u \in Seq(Delayed)
               PROVE  /\ Lettered(u) \in Seq(S) /\ Len(Lettered(u)) = Len(u)
                      /\ \A i \in 1 .. Len(u) : Lettered(u)[i] = L(u[i])
    OBVIOUS
  <2>1. Len(u) \in Nat /\ DOMAIN u = 1 .. Len(u) /\ \A i \in 1 .. Len(u) : u[i] \in Delayed
    OBVIOUS
  <2>2. Lettered(u) = [i \in 1 .. Len(u) |-> L(u[i])]
    BY <2>1 DEF Lettered
  <2>3. \A i \in 1 .. Len(u) : L(u[i]) \in S
    BY <2>1
  <2> HIDE DEF S, L
  <2> QED BY <2>1, <2>2, <2>3
<1> HIDE DEF L
<1>2. ASSUME NEW f \in Delayed
      PROVE  Lettered(Append(w, f)) = Append(Lettered(w), L(f))
  <2> DEFINE a == Append(w, f)
  <2>1. /\ a \in Seq(Delayed) /\ Len(a) = Len(w) + 1 /\ Len(w) \in Nat /\ a[Len(w) + 1] = f
        /\ \A i \in 1 .. Len(w) : a[i] = w[i]
    OBVIOUS
  <2>2. L(f) \in S
    OBVIOUS
  <2> HIDE DEF a, S
  <2>3. /\ Append(Lettered(w), L(f)) \in Seq(S)
        /\ Len(Append(Lettered(w), L(f))) = Len(w) + 1
        /\ Append(Lettered(w), L(f))[Len(w) + 1] = L(f)
        /\ \A i \in 1 .. Len(w) : Append(Lettered(w), L(f))[i] = Lettered(w)[i]
    BY <1>1, <2>2
  <2>4. ASSUME NEW i \in 1 .. Len(w) + 1
        PROVE  Lettered(a)[i] = Append(Lettered(w), L(f))[i]
    <3>1. CASE i = Len(w) + 1
      BY <1>1, <2>1, <2>3, <3>1
    <3>2. CASE i # Len(w) + 1
      <4>1. i \in 1 .. Len(w)
        BY <2>1, <3>2
      <4> QED BY <1>1, <2>1, <2>3, <4>1
    <3> QED BY <3>1, <3>2
  <2>5. Lettered(a) \in Seq(S) /\ Len(Lettered(a)) = Len(w) + 1
    BY <1>1, <2>1
  <2>6. Lettered(a) = Append(Lettered(w), L(f))
    BY <2>3, <2>4, <2>5
  <2> QED BY <2>6 DEF a
<1>3. ASSUME w # <<>>
      PROVE  /\ Lettered(w) # <<>> /\ Head(Lettered(w)) = L(Head(w))
             /\ Tail(Lettered(w)) = Lettered(Tail(w))
  <2> DEFINE t == Tail(w)
             n == Len(w) - 1
  <2>1. /\ t \in Seq(Delayed) /\ Len(t) = n /\ Len(w) = n + 1 /\ n \in Nat /\ Head(w) = w[1]
        /\ \A i \in 1 .. n : t[i] = w[i + 1]
    BY <1>3
  <2> HIDE DEF t, S, n
  <2>2. Len(Lettered(w)) = n + 1 /\ Lettered(w) \in Seq(S)
    BY <1>1, <2>1
  <2>3. /\ Lettered(w) # <<>> /\ Head(Lettered(w)) = Lettered(w)[1]
        /\ Tail(Lettered(w)) \in Seq(S) /\ Len(Tail(Lettered(w))) = n
        /\ \A i \in 1 .. n : Tail(Lettered(w))[i] = Lettered(w)[i + 1]
    BY <2>1, <2>2
  <2>4. Lettered(t) \in Seq(S) /\ Len(Lettered(t)) = n
    BY <1>1, <2>1
  <2>5. ASSUME NEW i \in 1 .. n PROVE Tail(Lettered(w))[i] = Lettered(t)[i]
    <3>1. i + 1 \in 1 .. Len(w) /\ i \in 1 .. Len(t)
      BY <2>1
    <3> QED BY <1>1, <2>1, <2>3, <3>1
  <2>6. Tail(Lettered(w)) = Lettered(t)
    BY <2>3, <2>4, <2>5
  <2>7. 1 \in 1 .. Len(w)
    BY <2>1
  <2> QED BY <1>1, <2>1, <2>3, <2>6, <2>7 DEF t
<1>4. Lettered(<<>>) = <<>>
  <2>1. <<>> \in Seq(Delayed) /\ Len(<<>>) = 0
    OBVIOUS
  <2> HIDE DEF S
  <2>2. Lettered(<<>>) \in Seq(S) /\ Len(Lettered(<<>>)) = 0
    BY <1>1, <2>1
  <2> QED BY <2>2
<1> QED BY <1>2, <1>3, <1>4 DEF L

LEMMA BoxOf ==
  /\ \A c \in Conn : Boxes[c] = IF Speaks(c) THEN Lettered(Waiting(c)) ELSE <<>>
  /\ DOMAIN Boxes = Conn /\ Boxes = [c \in Conn |-> Boxes[c]]
BY DEF Boxes, Letters, Lettered

LEMMA StayAt ==
  /\ \A c \in Conn : Stays[c] = IF Speaks(c) THEN StayOf(conns[c].player)
                                ELSE [moves |-> 0, inside |-> FALSE]
  /\ DOMAIN Stays = Conn /\ Stays = [c \in Conn |-> Stays[c]]
BY DEF Stays

LEMMA StayType == TypeOK => Stays \in [Conn -> Abstract!Stay]
<1> SUFFICES ASSUME TypeOK PROVE Stays \in [Conn -> Abstract!Stay]
  OBVIOUS
<1>1. ASSUME NEW m \in Nat, NEW b \in BOOLEAN
      PROVE  [moves |-> m, inside |-> b] \in Abstract!Stay
  BY DEF Abstract!Stay
<1>2. ASSUME NEW c \in Conn PROVE Stays[c] \in Abstract!Stay
  <2> DEFINE p == conns[c].player
             b == players[p].room # None
  <2>1. CASE Speaks(c)
    <3>1. moves[p] \in Nat /\ b \in BOOLEAN
      BY <2>1, SpeaksType, PlayerType
    <3>2. Stays[c] = [moves |-> moves[p], inside |-> b]
      BY <2>1, StayAt DEF StayOf
    <3> HIDE DEF p, b
    <3> QED BY <1>1, <3>1, <3>2
  <2>2. CASE ~Speaks(c)
    <3>1. Stays[c] = [moves |-> 0, inside |-> FALSE] /\ 0 \in Nat /\ FALSE \in BOOLEAN
      BY <2>2, StayAt
    <3> QED BY <1>1, <3>1
  <2> QED BY <2>1, <2>2
<1> QED BY <1>2, StayAt

\* A session which lasts is where it was, or has moved.
LEMMA StayGoes ==
  ASSUME TypeOK, NEW c \in Conn, Goes(c), Speaks(c)'
  PROVE  Stays'[c] = Stays[c] \/ Stays'[c].moves > Stays[c].moves
<1> DEFINE p == conns[c].player
<1>1. p \in Account /\ moves[p] \in Nat /\ Forward(p) /\ conns'[c].player = p /\ Speaks(c)
  BY SpeaksType, PlayerType DEF Goes
<1> HIDE DEF p
<1>2. Stays[c] = [moves |-> moves[p], inside |-> players[p].room # None]
  BY <1>1, StayAt DEF StayOf, p
<1>3. Stays'[c] = [moves |-> moves'[p], inside |-> players'[p].room # None]
  BY <1>1 DEF Stays, StayOf
<1> QED BY <1>1, <1>2, <1>3 DEF Forward

LEMMA BoxSame ==
  ASSUME NEW c \in Conn, Speaks(c)' <=> Speaks(c), Waiting(c)' = Waiting(c)
  PROVE  Boxes'[c] = Boxes[c]
<1>1. Boxes'[c] = IF Speaks(c)' THEN Lettered(Waiting(c)') ELSE <<>>
  BY DEF Boxes, Letters, Lettered
<1> QED BY <1>1, BoxOf

LEMMA QuietEnds ==
  ASSUME FInv, Quiet
  PROVE  Abstract!End
<1>1. TypeOK /\ TypeOK' /\ Calm /\ heard' = <<>>
  BY DEF FInv, Quiet
<1>2. ASSUME NEW c \in Conn
      PROVE  /\ Boxes'[c] \in {Boxes[c], <<>>}
             /\ \/ Stays'[c] = Stays[c] \/ Stays'[c].moves > Stays[c].moves
                \/ Boxes'[c] = <<>>
  <2>1. CASE ~Speaks(c)'
    BY <2>1 DEF Boxes, Letters
  <2>2. CASE Speaks(c)' /\ Goes(c) /\ Waiting(c)' = Waiting(c)
    BY <1>1, <2>2, BoxSame, StayGoes DEF Goes
  <2>3. CASE Speaks(c)' /\ Begins(c)
    <3>1. Waiting(c)' = <<>>
      BY <1>1, <2>3, BeginsWaiting
    <3>2. <<>> \in Seq(Delayed)
      OBVIOUS
    <3>3. Lettered(<<>>) = <<>>
      BY <3>2, LetteredFacts
    <3>4. Boxes'[c] = Lettered(Waiting(c)')
      BY <2>3 DEF Boxes, Letters, Lettered
    <3> QED BY <3>1, <3>3, <3>4
  <2> QED BY <1>1, <2>1, <2>2, <2>3 DEF Calm
<1>3. Stays' \in [Conn -> Abstract!Stay]
  <2>1. TypeOK' => (Stays \in [Conn -> Abstract!Stay])'
    BY StayType, PTL
  <2> QED BY <1>1, <2>1
<1> QED BY <1>1, <1>2, <1>3 DEF Abstract!End, Abstract!Moves

LEMMA ReceivePuts ==
  ASSUME FInv, NEW c \in Conn, NEW what \in Scoped \cup Global, Receive(c, what)
  PROVE  Abstract!Put(c)
<1> DEFINE p == conns[c].player
           f == [cid |-> c, version |-> players[p].version, what |-> what, stay |-> StayOf(p)]
           letter == [what |-> what, stay |-> Stays[c]]
<1>1. /\ Waiting(c)' = Append(Waiting(c), f)
      /\ \A d \in Conn \ {c} : Waiting(d)' = Waiting(d)
      /\ \A d \in Conn : Speaks(d)' <=> Speaks(d)
      /\ \A d \in Conn : conns'[d].player = conns[d].player
  BY ReceiveInv
<1>2. heard' = <<>> /\ UNCHANGED <<players, moves>> /\ Speaks(c) /\ TypeOK
  BY DEF Receive, FInv
<1>3. p \in Account /\ Stays[c] = StayOf(p)
  BY <1>2, SpeaksType, StayAt
<1>4. f \in Delayed /\ f.what = what /\ f.stay = StayOf(p)
  BY <1>2, <1>3, PlayerType DEF Delayed, StayOf, Stay
<1> HIDE DEF f
<1>5. Boxes'[c] = Append(Boxes[c], letter)
  <2>1. Waiting(c) \in Seq(Delayed)
    BY <1>2, WaitingType
  <2>2. Lettered(Append(Waiting(c), f)) =
          Append(Lettered(Waiting(c)), [what |-> f.what, stay |-> f.stay])
    BY <1>4, <2>1, LetteredFacts
  <2>3. Boxes'[c] = Lettered(Waiting(c)')
    BY <1>1, <1>2 DEF Boxes, Letters, Lettered
  <2> QED BY <1>1, <1>2, <1>3, <1>4, <2>2, <2>3, BoxOf
<1>6. \A d \in Conn \ {c} : Boxes'[d] = Boxes[d]
  BY <1>1, BoxSame
<1>7. Boxes' = [Boxes EXCEPT ![c] = Append(@, letter)]
  <2>1. Boxes' = [d \in Conn |-> Boxes'[d]]
    BY DEF Boxes
  <2> HIDE DEF letter
  <2> QED BY <1>5, <1>6, <2>1, BoxOf
<1>8. Stays' = Stays
  <2>1. \A d \in Conn : Speaks(d) => conns[d].player \in Account
    BY <1>2, SpeaksType
  <2>2. ASSUME NEW d \in Conn PROVE Stays'[d] = Stays[d]
    BY <1>1, <1>2 DEF Stays, StayOf
  <2> QED BY <2>2 DEF Stays
<1> QED BY <1>2, <1>7, <1>8 DEF Abstract!Put

LEMMA SweepMaps ==
  ASSUME FInv, SweepNext
  PROVE  Abstract!Next
<1> DEFINE f == Head(due)
           p == conns[f.cid].player
           letter == [what |-> f.what, stay |-> f.stay]
<1>1. /\ FInv' /\ f \in Delayed /\ f.cid \in Conn
      /\ Fewer /\ SinceSent(f)
      /\ \A c \in Conn : /\ Speaks(c)' <=> Speaks(c)
                         /\ Speaks(c) => Goes(c)
                         /\ c # f.cid => /\ Waiting(c)' = Waiting(c)
                                         /\ conns'[c].pending = conns[c].pending
                         /\ c = f.cid => /\ Waiting(c) # <<>> /\ Head(Waiting(c)) = f
                                         /\ Waiting(c)' = Tail(Waiting(c))
  BY SweepInv
<1>2. /\ TypeOK /\ TypeOK'
      /\ IF Passes(f) THEN Dispatched(f) /\ heard' = <<f.cid, letter>>
         ELSE heard' = <<>> /\ UNCHANGED <<players, moves>>
      /\ f.what \in Scoped \cup Global
      /\ f.version \in Nat /\ f.stay \in Stay /\ f.stay.moves \in Nat /\ f.stay.inside \in BOOLEAN
  BY <1>1, DelayedType DEF FInv, SweepNext
<1> HIDE DEF f
\* The box of the frame's session, and the others.
<1>3. ASSUME Speaks(f.cid)
      PROVE  /\ Boxes[f.cid] # <<>> /\ Head(Boxes[f.cid]) = letter
             /\ Boxes' = [Boxes EXCEPT ![f.cid] = Tail(@)]
             /\ p \in Account /\ Stays[f.cid] = StayOf(p)
             /\ Since(f, players[p].version, players[p].room # None, moves[p])
  <2>1. PICK c \in Conn : c = f.cid
    BY <1>1
  <2>2. Waiting(c) \in Seq(Delayed) /\ Waiting(c) # <<>> /\ Head(Waiting(c)) = f
        /\ Waiting(c)' = Tail(Waiting(c)) /\ Speaks(c) /\ Speaks(c)'
    BY <1>1, <1>2, <1>3, <2>1, WaitingType
  <2>3. /\ Lettered(Waiting(c)) # <<>> /\ Head(Lettered(Waiting(c))) = letter
        /\ Tail(Lettered(Waiting(c))) = Lettered(Tail(Waiting(c)))
    BY <2>2, LetteredFacts
  <2>4. Boxes[c] = Lettered(Waiting(c))
    BY <2>2, BoxOf
  <2>5. Boxes'[c] = Lettered(Waiting(c)')
    BY <2>2 DEF Boxes, Letters, Lettered
  <2>6. Boxes'[c] = Tail(Boxes[c])
    BY <2>2, <2>3, <2>4, <2>5
  <2>7. \A d \in Conn \ {c} : Boxes'[d] = Boxes[d]
    BY <1>1, <2>1, BoxSame
  <2>8. Boxes' = [Boxes EXCEPT ![c] = Tail(@)]
    <3>1. Boxes' = [d \in Conn |-> Boxes'[d]]
      BY DEF Boxes
    <3> QED BY <2>6, <2>7, <3>1, BoxOf
  <2>9. p \in Account /\ Stays[c] = StayOf(p)
    BY <1>2, <2>1, <2>2, SpeaksType, StayAt
  <2>10. Since(f, players[p].version, players[p].room # None, moves[p])
    BY <1>1, <1>3 DEF SinceSent
  <2> QED BY <2>1, <2>3, <2>4, <2>8, <2>9, <2>10
<1>4. CASE ~Speaks(f.cid)
  <2>1. ~Passes(f)
    BY <1>4 DEF Passes
  <2>2. Calm
    <3>1. ASSUME NEW c \in Conn, Speaks(c)'
          PROVE  Goes(c) /\ Waiting(c)' = Waiting(c) /\ conns'[c].pending = conns[c].pending
      <4>1. c # f.cid /\ Speaks(c)
        BY <1>1, <1>4, <3>1
      <4> QED BY <1>1, <4>1
    <3> QED BY <1>1, <3>1 DEF Calm
  <2>3. Quiet
    BY <1>1, <1>2, <2>1, <2>2 DEF Quiet
  <2> QED BY <2>3, QuietEnds DEF Abstract!Next
<1>5. CASE Passes(f)
  <2>1. Speaks(f.cid)
    BY <1>5 DEF Passes
  <2>2. f.what \in Scoped => f.stay = Stays[f.cid] /\ UNCHANGED <<players, moves>>
    <3> SUFFICES ASSUME f.what \in Scoped
                 PROVE  f.stay = Stays[f.cid] /\ UNCHANGED <<players, moves>>
      OBVIOUS
    <3>1. players[p].version = f.version
      BY <1>5 DEF Passes
    <3>2. f.stay.moves = moves[p] /\ f.stay.inside = (players[p].room # None)
      BY <1>3, <2>1, <3>1 DEF Since
    <3>3. f.stay = [moves |-> f.stay.moves, inside |-> f.stay.inside]
      BY <1>2 DEF Stay
    <3>4. f.stay = Stays[f.cid]
      BY <1>3, <2>1, <3>2, <3>3 DEF StayOf
    <3>5. UNCHANGED <<players, moves>>
      BY <1>1, <1>2, <1>3, <1>5, <2>1, DispatchedFacts
    <3> QED BY <3>4, <3>5
  <2>3. UNCHANGED <<players, moves>> => Stays' = Stays
    <3> SUFFICES ASSUME UNCHANGED <<players, moves>> PROVE Stays' = Stays
      OBVIOUS
    <3>1. ASSUME NEW d \in Conn PROVE Stays'[d] = Stays[d]
      BY <1>1 DEF Stays, StayOf, Goes
    <3> QED BY <3>1 DEF Stays
  <2>4. Abstract!Moves
    <3>1. Stays' \in [Conn -> Abstract!Stay]
      <4>1. TypeOK' => (Stays \in [Conn -> Abstract!Stay])'
        BY StayType, PTL
      <4> QED BY <1>2, <4>1
    <3>2. ASSUME NEW d \in Conn
          PROVE  Stays'[d] = Stays[d] \/ Stays'[d].moves > Stays[d].moves
      <4>1. CASE Speaks(d)
        BY <1>1, <1>2, <4>1, StayGoes
      <4>2. CASE ~Speaks(d)
        BY <1>1, <4>2 DEF Stays
      <4> QED BY <4>1, <4>2
    <3> QED BY <3>1, <3>2 DEF Abstract!Moves
  <2>5. heard' = <<f.cid, letter>> /\ letter.what = f.what /\ letter.stay = f.stay
    BY <1>2, <1>5
  <2> HIDE DEF letter
  <2>6. Abstract!Act(f.cid)
    BY <1>3, <2>1, <2>2, <2>3, <2>4, <2>5 DEF Abstract!Act
  <2> QED BY <1>1, <2>6 DEF Abstract!Next
<1>6. CASE Speaks(f.cid) /\ ~Passes(f)
  <2>1. f.what \in Scoped /\ players[p].version # f.version
    BY <1>6 DEF Passes
  <2>2. f.stay # Stays[f.cid] \/ ~f.stay.inside
    <3>1. f.version < players[p].version
      BY <1>2, <1>3, <1>6, <2>1, PlayerType DEF Since
    <3>2. CASE f.stay.inside
      <4>1. f.stay.moves < moves[p] /\ moves[p] \in Nat /\ Stays[f.cid].moves = moves[p]
        BY <1>2, <1>3, <1>6, <3>1, <3>2, PlayerType DEF Since, StayOf
      <4> QED BY <1>2, <4>1
    <3> QED BY <3>2
  <2>3. Stays' = Stays
    <3>1. ASSUME NEW d \in Conn PROVE Stays'[d] = Stays[d]
      BY <1>1, <1>2, <1>6 DEF Stays, StayOf, Goes
    <3> QED BY <3>1 DEF Stays
  <2>4. letter.what = f.what /\ letter.stay = f.stay
    OBVIOUS
  <2> HIDE DEF letter
  <2>5. Abstract!Discard(f.cid)
    BY <1>2, <1>3, <1>6, <2>1, <2>2, <2>3, <2>4 DEF Abstract!Discard
  <2> QED BY <1>1, <2>5 DEF Abstract!Next
<1> QED BY <1>4, <1>5, <1>6

-----------------------------------------------------------------------------
LEMMA NextFence ==
  ASSUME FInv, [Next]_vars
  PROVE  FInv' /\ [Abstract!Next]_(Abstract!mail)
<1>1. ASSUME Quiet PROVE FInv' /\ Abstract!Next
  BY <1>1, QuietEnds DEF Quiet, Abstract!Next
<1>2. ASSUME NEW c \in Conn, Connect(c) \/ CloseSocket(c) \/ Disconnect(c) \/ DelayLimit(c)
      PROVE  FInv' /\ Abstract!Next
  BY <1>1, <1>2, ConnectStep, ClosesStep, DisconnectStep
<1>3. ASSUME NEW c \in Conn, NEW p \in Account, NEW leaves \in BOOLEAN, Auth(c, p, leaves)
      PROVE  FInv' /\ Abstract!Next
  BY <1>1, <1>3, AuthStep
<1>4. ASSUME NEW c \in Conn, NEW what \in Scoped \cup Global, Receive(c, what)
      PROVE  FInv' /\ Abstract!Next
  BY <1>4, ReceiveInv, ReceivePuts DEF Abstract!Next
<1>5. ASSUME NEW p \in Account, Forget(p) PROVE FInv' /\ Abstract!Next
  BY <1>1, <1>5, ForgetStep
<1>6. ASSUME NEW n \in 1 .. Len(delayed), StartSweep(n) PROVE FInv' /\ Abstract!Next
  BY <1>1, <1>6, StartSweepStep
<1>7. CASE SweepNext
  BY <1>7, SweepInv, SweepMaps
<1>8. CASE UNCHANGED vars
  <2>1. FInv'
    BY <1>8 DEF vars, FInv, TypeOK, Linked, Owned, Unused, Aged, SinceSent, Queue,
                Speaks, PendingExact, Waiting
  <2>2. UNCHANGED Abstract!mail
    BY <1>8 DEF vars, Abstract!mail, Boxes, Stays, Letters, Waiting, Speaks, StayOf
  <2> QED BY <2>1, <2>2
<1> QED BY <1>2, <1>3, <1>4, <1>5, <1>6, <1>7, <1>8 DEF Next

(* What receive(), sweep(), auth(), disconnect() and every move of an      *)
(* account keep between them.                                              *)
THEOREM FInvHolds == Spec => []FInv
<1>1. FInv /\ [Next]_vars => FInv'
  BY NextFence
<1> QED BY InitFInv, <1>1, PTL DEF Spec

(* The types of sessions, sockets and the queue.                           *)
THEOREM FenceTypes == Spec => []TypeOK
<1>1. FInv => TypeOK
  BY DEF FInv
<1> QED BY FInvHolds, <1>1, PTL

(* Player.version fences what it should: a frame whose version is still    *)
(* that of its sender was sent in the stay, or the absence, that lasts.    *)
THEOREM TightSafe == Spec => []FenceIsTight
<1>1. FInv => FenceIsTight
  <2> SUFFICES ASSUME FInv PROVE FenceIsTight
    OBVIOUS
  <2>1. TypeOK /\ due \in Seq(Delayed) /\ delayed \in Seq(Delayed)
    BY DEF FInv, TypeOK
  <2>2. ASSUME NEW i \in DOMAIN Queue PROVE Tight(Queue[i])
    <3> DEFINE f == Queue[i]
               p == conns[f.cid].player
    <3>1. f \in Delayed /\ SinceSent(f)
      BY <2>1, FrameConn DEF FInv, Aged
    <3> HIDE DEF f
    <3>2. ASSUME Speaks(f.cid), players[p].version = f.version PROVE f.stay = StayOf(p)
      <4>1. f.stay.moves = moves[p] /\ f.stay.inside = (players[p].room # None)
        BY <3>1, <3>2 DEF SinceSent, Since
      <4>2. f.stay = [moves |-> f.stay.moves, inside |-> f.stay.inside]
        BY <3>1 DEF Delayed, Stay
      <4> QED BY <4>1, <4>2 DEF StayOf
    <3>3. Tight(f)
      BY <3>2 DEF Tight
    <3> QED BY <3>3 DEF f
  <2>3. /\ \A i \in DOMAIN due : i \in DOMAIN Queue /\ Queue[i] = due[i]
        /\ \A i \in DOMAIN delayed : /\ Len(due) + i \in DOMAIN Queue
                                     /\ Queue[Len(due) + i] = delayed[i]
    BY <2>1 DEF Queue
  <2> QED BY <2>2, <2>3 DEF FenceIsTight
<1> QED BY FInvHolds, <1>1, PTL

(* Connection.pending, which receive() compares with the limit, is what    *)
(* the session has waiting.                                                *)
THEOREM PendingSafe == Spec => []PendingExact
<1>1. FInv => PendingExact
  BY DEF FInv
<1> QED BY FInvHolds, <1>1, PTL

(* Session by session the queue is a Mailbox: sweep() acts upon frames in  *)
(* the order they came, none twice, and on one that is for a room only in  *)
(* the stay it was sent in; it discards no other, as long as the session   *)
(* lasts.                                                                  *)
THEOREM MailboxImplemented == Spec => ImplementsMailbox
<1>1. Init => Abstract!Init
  <2> SUFFICES ASSUME Init PROVE Abstract!Init
    OBVIOUS
  <2>1. TypeOK
    BY InitFInv DEF FInv
  <2>2. Stays \in [Conn -> Abstract!Stay]
    BY <2>1, StayType
  <2>3. Boxes = [c \in Conn |-> <<>>]
    BY DEF Init, Boxes, Letters, Speaks, NoConn
  <2>4. heard = <<>>
    BY DEF Init
  <2> QED BY <2>2, <2>3, <2>4 DEF Abstract!Init
<1>2. FInv /\ [Next]_vars => [Abstract!Next]_(Abstract!mail)
  BY NextFence
<1> QED BY <1>1, <1>2, FInvHolds, PTL DEF Spec, ImplementsMailbox, Abstract!Spec
=============================================================================
