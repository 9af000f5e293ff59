---------------------------- MODULE AdmissionProof ----------------------------
(***************************************************************************)
(* Admission: the counters agree with the connection tasks, the tracker    *)
(* keeps its bound and the admissions of any minute keep theirs, for every *)
(* number of addresses and every limit.                                    *)
(***************************************************************************)
EXTENDS Admission, FiniteSetTheorems, WellFoundedInduction, TLAPS

Kept ==
  /\ permits \subseteq Permit /\ IsFiniteSet(permits)
  /\ DOMAIN active \subseteq Ip /\ active \in [DOMAIN active -> Nat]
  /\ IsFiniteSet(DOMAIN attempts)

AInv == Kept /\ PermitsCounted /\ TasksLimited /\ TrackerBounded

LEMMA Limits ==
  /\ MaxConnections \in Nat /\ MaxConnections > 0
  /\ MaxConnectionsPerIp \in Nat /\ MaxConnectionsPerIp > 0
  /\ MaxConnections * TrackerFactor \in Nat /\ MaxConnections * TrackerFactor > 0
<1>1. MaxConnections \in Nat \ {0} /\ TrackerFactor \in Nat \ {0}
      /\ MaxConnectionsPerIp \in Nat \ {0}
  BY AdmissionAssumption
<1>2. \A m, n \in Nat \ {0} : m * n \in Nat /\ m * n > 0
  OBVIOUS
<1> QED BY <1>1, <1>2

LEMMA InitHolds == Init => AInv
<1> SUFFICES ASSUME Init PROVE AInv
  OBVIOUS
<1>1. IsFiniteSet({}) /\ Cardinality({}) = 0
  BY FS_EmptySet
<1>2. DOMAIN active = {} /\ DOMAIN attempts = {} /\ permits = {} /\ total = 0
  BY DEF Init
<1>3. \A ip \in Ip : Of(ip) = {} /\ Count(ip) = 0
  BY <1>2 DEF Of, Count
<1>4. active \in [DOMAIN active -> Nat]
  <2>1. [ip \in {} |-> 0] \in [{} -> Nat]
    OBVIOUS
  <2> QED BY <2>1, <1>2 DEF Init
<1>5. Kept
  BY <1>1, <1>2, <1>4 DEF Kept
<1>6. PermitsCounted
  BY <1>1, <1>2, <1>3 DEF PermitsCounted
<1>7. TasksLimited
  <2>1. Cardinality(permits) = 0 /\ \A ip \in Ip : Cardinality(Of(ip)) = 0
    BY <1>1, <1>2, <1>3
  <2>2. MaxConnections >= 0 /\ MaxConnectionsPerIp >= 0
    BY Limits
  <2> QED BY <2>1, <2>2 DEF TasksLimited
<1>8. TrackerBounded
  <2>1. Cardinality(DOMAIN attempts) = 0
    BY <1>1, <1>2
  <2> QED BY <2>1, Limits DEF TrackerBounded
<1> QED BY <1>5, <1>6, <1>7, <1>8 DEF AInv

\* What SetActive does to the counters.
LEMMA SetActiveFacts ==
  ASSUME Kept, NEW ip \in Ip, NEW n \in Nat
  PROVE  /\ DOMAIN SetActive(ip, n) \subseteq Ip
         /\ SetActive(ip, n) \in [DOMAIN SetActive(ip, n) -> Nat]
         /\ \A i \in Ip :
              (IF i \in DOMAIN SetActive(ip, n) THEN SetActive(ip, n)[i] ELSE 0)
                = IF i = ip THEN n ELSE Count(i)
         /\ (\A i \in DOMAIN active : active[i] > 0)
              => \A i \in DOMAIN SetActive(ip, n) : SetActive(ip, n)[i] > 0
<1> DEFINE f == SetActive(ip, n)
<1> DEFINE D == (DOMAIN active \cup {ip}) \ (IF n = 0 THEN {ip} ELSE {})
<1>1. f = [i \in D |-> IF i = ip THEN n ELSE active[i]]
  BY DEF SetActive
<1>2. DOMAIN f = D /\ \A i \in D : f[i] = IF i = ip THEN n ELSE active[i]
  BY <1>1
<1>3. \A i \in D : i \in Ip /\ (i # ip => i \in DOMAIN active)
  BY DEF Kept
<1>4. \A i \in DOMAIN active : active[i] \in Nat
  BY DEF Kept
<1>5. f \in [D -> Nat]
  BY <1>1, <1>3, <1>4
<1>6. \A i \in Ip : (IF i \in D THEN f[i] ELSE 0) = IF i = ip THEN n ELSE Count(i)
  BY <1>2 DEF Count
<1>7. (\A i \in DOMAIN active : active[i] > 0) => \A i \in D : f[i] > 0
  BY <1>2, <1>3
<1> QED BY <1>2, <1>3, <1>5, <1>6, <1>7

\* The tracker after a refusal or an attempt.
LEMMA TrackerFacts ==
  ASSUME Kept, TrackerBounded, NEW ip \in Ip
  PROVE  /\ IsFiniteSet(Fresh)
         /\ Cardinality(Fresh) <= MaxConnections * TrackerFactor
         /\ IsFiniteSet(Fresh \cup {ip})
         /\ ~TrackerFull(ip) =>
              Cardinality(Fresh \cup {ip}) <= MaxConnections * TrackerFactor
<1>1. Fresh \in SUBSET (DOMAIN attempts) /\ IsFiniteSet(DOMAIN attempts)
  BY DEF Fresh, Kept
<1>2. IsFiniteSet(Fresh) /\ Cardinality(Fresh) <= Cardinality(DOMAIN attempts)
  BY <1>1, FS_Subset
<1>3. Cardinality(Fresh) \in Nat /\ Cardinality(DOMAIN attempts) \in Nat
  BY <1>1, <1>2, FS_CardinalityType
<1>4. Cardinality(Fresh) <= MaxConnections * TrackerFactor
  BY <1>2, <1>3, Limits DEF TrackerBounded
<1>5. /\ IsFiniteSet(Fresh \cup {ip})
      /\ Cardinality(Fresh \cup {ip}) =
           IF ip \in Fresh THEN Cardinality(Fresh) ELSE Cardinality(Fresh) + 1
  BY <1>2, FS_AddElement
<1>6. ~TrackerFull(ip) => ip \in Fresh \/ Cardinality(Fresh) < MaxConnections * TrackerFactor
  BY <1>3, Limits DEF TrackerFull
<1> QED BY <1>2, <1>3, <1>4, <1>5, <1>6, Limits

LEMMA Refused ==
  ASSUME AInv, NEW ip \in Ip, RefuseUnknown(ip) \/ RefuseTracked(ip)
  PROVE  AInv'
<1> USE DEF AInv
<1>1. UNCHANGED <<total, active, permits>>
  BY DEF RefuseUnknown, RefuseTracked
<1>2. PermitsCounted' /\ TasksLimited'
  BY <1>1 DEF PermitsCounted, TasksLimited, Of, Count
<1>3. DOMAIN attempts' = Fresh \/ (~TrackerFull(ip) /\ DOMAIN attempts' = Fresh \cup {ip})
  BY DEF RefuseUnknown, RefuseTracked, Tracked
<1>4. IsFiniteSet(DOMAIN attempts') /\ TrackerBounded'
  BY <1>3, TrackerFacts DEF TrackerBounded
<1>5. Kept'
  BY <1>1, <1>4 DEF Kept
<1> QED BY <1>2, <1>4, <1>5

\* The permits of an address are finitely many.
LEMMA OfFinite ==
  ASSUME IsFiniteSet(permits), NEW ip
  PROVE  IsFiniteSet(Of(ip)) /\ Cardinality(Of(ip)) \in Nat
<1>1. Of(ip) \in SUBSET permits
  BY DEF Of
<1> QED BY <1>1, FS_Subset, FS_CardinalityType

LEMMA Acquired ==
  ASSUME AInv, NEW ip \in Ip, NEW cid \in Cid, Acquire(ip, cid)
  PROVE  AInv'
<1> USE DEF AInv
<1> DEFINE p == [cid |-> cid, ip |-> ip]
<1> DEFINE n == Count(ip) + 1
<1>1. p \in Permit /\ p \notin permits /\ p.ip = ip
  BY DEF Acquire, Permit
<1>2. permits' = permits \cup {p} /\ total' = total + 1 /\ active' = SetActive(ip, n)
  BY DEF Acquire
<1>3. Count(ip) \in Nat /\ total \in Nat /\ Cardinality(permits) \in Nat
  BY OfFinite, FS_CardinalityType DEF PermitsCounted, Kept
<1>4. total < MaxConnections /\ Count(ip) < MaxConnectionsPerIp
  BY <1>3, Limits DEF Acquire, Refuses
<1> HIDE DEF p, n
<1>5. /\ IsFiniteSet(permits')
      /\ Cardinality(permits') = Cardinality(permits) + 1
  BY <1>1, <1>2, FS_AddElement DEF Kept
<1>6. Of(ip)' = Of(ip) \cup {p} /\ p \notin Of(ip)
  BY <1>1, <1>2 DEF Of
<1>7. Cardinality(Of(ip)') = n
  BY <1>6, OfFinite, FS_AddElement DEF PermitsCounted, Kept, n
<1>8. \A i \in Ip : i # ip => Of(i)' = Of(i)
  BY <1>1, <1>2 DEF Of
<1>9. /\ DOMAIN active' \subseteq Ip /\ active' \in [DOMAIN active' -> Nat]
      /\ \A i \in Ip : Count(i)' = IF i = ip THEN n ELSE Count(i)
      /\ \A i \in DOMAIN active' : active'[i] > 0
  <2>1. n \in Nat
    BY <1>3 DEF n
  <2> QED BY <2>1, <1>2, SetActiveFacts DEF PermitsCounted, Count
<1>10. PermitsCounted'
  BY <1>2, <1>3, <1>5, <1>7, <1>8, <1>9 DEF PermitsCounted
<1>11. TasksLimited'
  BY <1>3, <1>4, <1>5, <1>7, <1>8, Limits DEF PermitsCounted, TasksLimited, n
<1>12. IsFiniteSet(DOMAIN attempts') /\ TrackerBounded'
  <2>1. ~TrackerFull(ip) /\ DOMAIN attempts' = Fresh \cup {ip}
    BY DEF Acquire, Tracked
  <2> QED BY <2>1, TrackerFacts DEF TrackerBounded
<1>13. Kept'
  BY <1>1, <1>2, <1>5, <1>9, <1>12 DEF Kept
<1> QED BY <1>10, <1>11, <1>12, <1>13

LEMMA Dropped ==
  ASSUME AInv, NEW p \in permits, Drop(p)
  PROVE  AInv'
<1> USE DEF AInv
<1> DEFINE ip == p.ip
<1>1. ip \in Ip
  BY DEF Kept, Permit
<1>2. permits' = permits \ {p} /\ total' = total - 1 /\ attempts' = attempts
  BY DEF Drop
<1>3. p \in Of(ip)
  BY DEF Of
<1> HIDE DEF ip
<1>4. /\ IsFiniteSet(permits')
      /\ Cardinality(permits') = Cardinality(permits) - 1
  BY <1>2, FS_RemoveElement DEF Kept
<1>5. Of(ip)' = Of(ip) \ {p}
  BY <1>2 DEF Of
<1>6. Cardinality(Of(ip)') = Cardinality(Of(ip)) - 1
  BY <1>3, <1>5, OfFinite, FS_RemoveElement DEF Kept
<1>7. \A i \in Ip : i # ip => Of(i)' = Of(i)
  BY <1>2 DEF Of, ip
<1>8. Cardinality(Of(ip)) \in Nat /\ Cardinality(Of(ip)') \in Nat
      /\ Cardinality(permits) \in Nat
  <2>1. IsFiniteSet(Of(ip)) /\ IsFiniteSet(Of(ip) \ {p})
    BY OfFinite, FS_RemoveElement DEF Kept
  <2> QED BY <2>1, <1>5, FS_CardinalityType DEF Kept
<1>9. Count(ip) = Cardinality(Of(ip)) /\ Count(ip) > 0
  BY <1>1, <1>6, <1>8 DEF PermitsCounted
<1>10. ip \in DOMAIN active /\ Count(ip) = active[ip]
  BY <1>9 DEF Count
<1> DEFINE n == active[ip] - 1
<1>11. n \in Nat /\ n = Count(ip) - 1
  BY <1>8, <1>9, <1>10
<1>12. active' = SetActive(ip, n)
  BY <1>10 DEF Drop, ip
<1> HIDE DEF n
<1>13. /\ DOMAIN active' \subseteq Ip /\ active' \in [DOMAIN active' -> Nat]
       /\ \A i \in Ip : Count(i)' = IF i = ip THEN n ELSE Count(i)
       /\ \A i \in DOMAIN active' : active'[i] > 0
  BY <1>1, <1>11, <1>12, SetActiveFacts DEF PermitsCounted, Count
<1>14. PermitsCounted'
  BY <1>2, <1>4, <1>6, <1>7, <1>9, <1>11, <1>13 DEF PermitsCounted
<1>15. TasksLimited'
  BY <1>4, <1>6, <1>7, <1>8, Limits DEF TasksLimited
<1>16. TrackerBounded'
  BY <1>2 DEF TrackerBounded
<1>17. Kept'
  BY <1>2, <1>4, <1>13 DEF Kept
<1> QED BY <1>14, <1>15, <1>16, <1>17

LEMMA Ticked ==
  ASSUME AInv, Tick \/ UNCHANGED vars
  PROVE  AInv'
<1>1. UNCHANGED <<total, active, permits>> /\ DOMAIN attempts' = DOMAIN attempts
  BY DEF Tick, vars
<1> QED BY <1>1 DEF AInv, Kept, PermitsCounted, TasksLimited, TrackerBounded, Of, Count

\* The three invariants, with the finiteness and the types they need, hold:
\* admission.rs keeps its counters equal to the tasks, its limits and its bound.
THEOREM AInvHolds == Spec => []AInv
<1>1. AInv /\ [Next]_vars => AInv'
  <2> SUFFICES ASSUME AInv, [Next]_vars PROVE AInv'
    OBVIOUS
  <2>1. ASSUME NEW ip \in Ip, RefuseUnknown(ip) \/ RefuseTracked(ip) PROVE AInv'
    BY <2>1, Refused
  <2>2. ASSUME NEW ip \in Ip, NEW cid \in Cid, Acquire(ip, cid) PROVE AInv'
    BY <2>2, Acquired
  <2>3. ASSUME NEW p \in permits, Drop(p) PROVE AInv'
    BY <2>3, Dropped
  <2>4. CASE Tick \/ UNCHANGED vars
    BY <2>4, Ticked
  <2> QED BY <2>1, <2>2, <2>3, <2>4 DEF Next
<1> QED BY <1>1, InitHolds, PTL DEF Spec

\* Whatever order permits are taken and dropped in, the counters of Admission
\* are the numbers of connection tasks.
THEOREM CountersSafe == Spec => []PermitsCounted
BY AInvHolds, PTL DEF AInv

\* So acquire's checks of its counters limit the tasks of main.rs themselves.
THEOREM LimitsSafe == Spec => []TasksLimited
BY AInvHolds, PTL DEF AInv

\* No number of addresses grows the attempt map of acquire beyond its bound.
THEOREM TrackerSafe == Spec => []TrackerBounded
BY AInvHolds, PTL DEF AInv

\* The attempts that are tracked, and the history of admissions.
Recorded ==
  /\ DOMAIN attempts \subseteq Ip /\ attempts \in [DOMAIN attempts -> Attempt]
  /\ admitted \in [Ip -> [0 .. Minute - 1 -> Nat]]

LEMMA AttemptNumbers ==
  /\ Minute \in Nat /\ 0 \in 0 .. Minute - 1 /\ 0 \in 0 .. Minute
  /\ MaxConnectionsPerMinute \in Nat /\ 0 \in 0 .. MaxConnectionsPerMinute + 1
<1>1. Minute \in Nat \ {0} /\ MaxConnectionsPerMinute \in Nat \ {0}
  BY AdmissionAssumption
<1> QED BY <1>1

LEMMA TrackedTypes ==
  ASSUME Recorded, NEW ip \in Ip
  PROVE  /\ DOMAIN Tracked(ip) \subseteq Ip
         /\ Tracked(ip) \in [DOMAIN Tracked(ip) -> Attempt]
<1> DEFINE zero == [age |-> 0, n |-> 0]
           old == IF ip \in Fresh THEN attempts[ip] ELSE zero
           next == IF old.n > MaxConnectionsPerMinute THEN old.n ELSE old.n + 1
<1>1. \A i \in Fresh : i \in Ip /\ attempts[i] \in Attempt
  BY DEF Fresh, Recorded
<1>2. old \in Attempt
  <2>1. zero \in Attempt
    BY AttemptNumbers DEF Attempt
  <2> QED BY <1>1, <2>1
<1>3. Counted(ip) = [old EXCEPT !.n = next]
  BY DEF Counted
<1> HIDE DEF old
<1>4. next \in 0 .. MaxConnectionsPerMinute + 1
  BY <1>2, AttemptNumbers DEF Attempt
<1> HIDE DEF next
<1>5. Counted(ip) \in Attempt
  BY <1>2, <1>3, <1>4 DEF Attempt
<1>6. \A i \in Fresh \cup {ip} : (IF i = ip THEN Counted(ip) ELSE attempts[i]) \in Attempt
  BY <1>1, <1>5
<1> QED BY <1>1, <1>6 DEF Tracked

LEMMA RecordedKept == Recorded /\ [Next]_vars => Recorded'
<1> SUFFICES ASSUME Recorded, [Next]_vars PROVE Recorded'
  OBVIOUS
<1>1. ASSUME NEW ip \in Ip, RefuseUnknown(ip) PROVE Recorded'
  BY <1>1 DEF Recorded, RefuseUnknown, Fresh
<1>2. ASSUME NEW ip \in Ip, RefuseTracked(ip) PROVE Recorded'
  BY <1>2, TrackedTypes DEF Recorded, RefuseTracked
<1>3. ASSUME NEW ip \in Ip, NEW cid \in Cid, Acquire(ip, cid) PROVE Recorded'
  <2> DEFINE row == [admitted[ip] EXCEPT ![0] = admitted[ip][0] + 1]
  <2>1. admitted' = [admitted EXCEPT ![ip] = row] /\ attempts' = Tracked(ip)
    BY <1>3 DEF Acquire
  <2>2. admitted[ip] \in [0 .. Minute - 1 -> Nat]
    BY DEF Recorded
  <2>3. row \in [0 .. Minute - 1 -> Nat]
    BY <2>2, AttemptNumbers
  <2> HIDE DEF row
  <2>4. admitted' \in [Ip -> [0 .. Minute - 1 -> Nat]]
    BY <2>1, <2>3 DEF Recorded
  <2> QED BY <2>1, <2>4, TrackedTypes DEF Recorded
<1>4. ASSUME NEW p \in permits, Drop(p) PROVE Recorded'
  BY <1>4 DEF Recorded, Drop
<1>5. CASE Tick
  <2>1. ASSUME NEW ip \in DOMAIN attempts
        PROVE  [attempts[ip] EXCEPT !.age = IF @ < Minute THEN @ + 1 ELSE @] \in Attempt
    <3>1. attempts[ip] \in Attempt
      BY DEF Recorded
    <3> QED BY <3>1, AttemptNumbers DEF Attempt
  <2>2. attempts' = [ip \in DOMAIN attempts |->
                       [attempts[ip] EXCEPT !.age = IF @ < Minute THEN @ + 1 ELSE @]]
    BY <1>5 DEF Tick
  <2>3. DOMAIN attempts' \subseteq Ip /\ attempts' \in [DOMAIN attempts' -> Attempt]
    BY <2>1, <2>2 DEF Recorded
  <2>4. ASSUME NEW ip \in Ip, NEW a \in 0 .. Minute - 1
        PROVE  (IF a = 0 THEN 0 ELSE admitted[ip][a - 1]) \in Nat
    <3>1. a # 0 => a - 1 \in 0 .. Minute - 1
      BY AttemptNumbers
    <3> QED BY <3>1 DEF Recorded
  <2>5. admitted' \in [Ip -> [0 .. Minute - 1 -> Nat]]
    BY <1>5, <2>4 DEF Tick
  <2> QED BY <2>3, <2>5 DEF Recorded
<1>6. CASE UNCHANGED vars
  BY <1>6 DEF vars, Recorded
<1> QED BY <1>1, <1>2, <1>3, <1>4, <1>5, <1>6 DEF Next

\* The fields of Admission keep their types: no counter falls below zero.
THEOREM AdmissionTypes == Spec => []TypeOK
<1>1. Init => Recorded
  BY DEF Init, Recorded
<1>2. AInv /\ Recorded => TypeOK
  <2> SUFFICES ASSUME AInv, Recorded PROVE TypeOK
    OBVIOUS
  <2>1. total \in Nat
    BY FS_CardinalityType DEF AInv, Kept, PermitsCounted
  <2> QED BY <2>1 DEF AInv, Kept, Recorded, TypeOK
<1> QED BY <1>1, <1>2, RecordedKept, AInvHolds, PTL DEF Spec
-----------------------------------------------------------------------------
(* Sums.  BurstBounded adds up numbers in no particular order; what is      *)
(* needed of such a sum is proved by induction over the size of the set.    *)

\* Induction over the naturals, for a set in place of a predicate: the least
\* number outside of it has a predecessor inside.
LEMMA Inductive ==
  ASSUME NEW S, 0 \in S, \A n \in Nat : n \in S => n + 1 \in S
  PROVE  Nat \subseteq S
<1> DEFINE T == {n \in Nat : n \notin S}
           R == OpToRel(<, Nat)
<1> SUFFICES ASSUME T # {} PROVE FALSE
  OBVIOUS
<1>1. IsWellFoundedOn(R, Nat)
  BY NatLessThanWellFounded, Zenon
<1>2. PICK x \in T : \A y \in T : <<y, x>> \notin R
  <2>1. T \subseteq Nat
    OBVIOUS
  <2> HIDE DEF T, R
  <2> QED BY <1>1, <2>1, WFMin
<1>3. \A y \in T : ~(y < x)
  BY <1>2 DEF OpToRel
<1>4. x # 0 /\ x - 1 \in Nat
  OBVIOUS
<1> QED BY <1>3, <1>4

\* The sum of g over S, as BurstBounded has it.
SumOf(g, S) == MapThenSumSet(LAMBDA a : g[a], S)

\* What the fold unfolds to.
One(s) == CHOOSE x \in s : TRUE
Unfolded(f, g, s) == IF s = {} THEN 0 ELSE g[One(s)] + f[s \ {One(s)}]
Partial(g, U) == CHOOSE f : f = [s \in SUBSET U |-> Unfolded(f, g, s)]

LEMMA SumDef == \A g, U : SumOf(g, U) = Partial(g, U)[U]
BY DEF SumOf, MapThenSumSet, MapThenFoldSet, Partial, Unfolded, One

\* The subsets of a finite set, smaller ones first.
LEMMA Smaller ==
  ASSUME NEW U, IsFiniteSet(U), NEW s \in SUBSET U
  PROVE  /\ IsFiniteSet(s) /\ Cardinality(s) \in Nat
         /\ Cardinality(s) = 0 <=> s = {}
         /\ \A x \in s : /\ s \ {x} \in SUBSET U
                         /\ Cardinality(s \ {x}) = Cardinality(s) - 1
<1>1. IsFiniteSet(s)
  BY FS_Subset
<1>2. Cardinality(s) \in Nat /\ (Cardinality(s) = 0 <=> s = {})
  BY <1>1, FS_CardinalityType, FS_EmptySet
<1>3. \A x \in s : Cardinality(s \ {x}) = Cardinality(s) - 1
  BY <1>1, FS_RemoveElement
<1> QED BY <1>1, <1>2, <1>3

\* The recursion has a solution on the subsets of a finite set.
LEMMA PartialExists ==
  ASSUME NEW g, NEW U, IsFiniteSet(U)
  PROVE  \A s \in SUBSET U : Partial(g, U)[s] = Unfolded(Partial(g, U), g, s)
<1> DEFINE Good(f, k) == \A s \in SUBSET U : Cardinality(s) < k => f[s] = Unfolded(f, g, s)
           S == {k \in Nat : \E f : Good(f, k)}
<1>1. 0 \in S
  <2>1. \A f : Good(f, 0)
    BY Smaller
  <2> QED BY <2>1
<1>2. ASSUME NEW k \in Nat, k \in S PROVE k + 1 \in S
  <2>1. PICK f : Good(f, k)
    BY <1>2
  <2> DEFINE h == [s \in SUBSET U |-> IF Cardinality(s) < k THEN f[s] ELSE Unfolded(f, g, s)]
  <2>2. ASSUME NEW s \in SUBSET U, Cardinality(s) < k + 1
        PROVE  h[s] = Unfolded(h, g, s)
    <3>1. h[s] = Unfolded(f, g, s)
      BY <2>1
    <3>2. CASE s = {}
      BY <3>1, <3>2 DEF Unfolded
    <3>3. CASE s # {}
      <4>1. One(s) \in s
        BY <3>3 DEF One
      <4>2. s \ {One(s)} \in SUBSET U /\ Cardinality(s \ {One(s)}) < k
        BY <2>2, <4>1, Smaller
      <4>3. h[s \ {One(s)}] = f[s \ {One(s)}]
        BY <4>2
      <4> HIDE DEF h
      <4> QED BY <3>1, <3>3, <4>3 DEF Unfolded
    <3> QED BY <3>2, <3>3
  <2> HIDE DEF h
  <2>3. Good(h, k + 1)
    BY <2>2
  <2> QED BY <2>3
<1> HIDE DEF S
<1>3. \A k \in Nat : k \in S
  BY <1>1, <1>2, Inductive
<1>4. PICK f : Good(f, Cardinality(U) + 1)
  <2>1. Cardinality(U) + 1 \in Nat
    BY FS_CardinalityType
  <2> QED BY <1>3, <2>1 DEF S
<1> DEFINE h == [s \in SUBSET U |-> f[s]]
<1>5. ASSUME NEW s \in SUBSET U PROVE h[s] = Unfolded(h, g, s)
  <2>1. Cardinality(s) < Cardinality(U) + 1
    BY FS_Subset, FS_CardinalityType
  <2>2. f[s] = Unfolded(f, g, s)
    BY <1>4, <2>1
  <2>3. s # {} => h[s \ {One(s)}] = f[s \ {One(s)}]
    OBVIOUS
  <2> QED BY <2>2, <2>3 DEF Unfolded
<1>6. h = [s \in SUBSET U |-> Unfolded(h, g, s)]
  <2>1. h = [s \in SUBSET U |-> h[s]]
    OBVIOUS
  <2> HIDE DEF h
  <2> QED BY <1>5, <2>1
<1> HIDE DEF h
<1>7. Partial(g, U) = [s \in SUBSET U |-> Unfolded(Partial(g, U), g, s)]
  BY <1>6 DEF Partial
<1> DEFINE F == Partial(g, U)
<1>8. F = [s \in SUBSET U |-> Unfolded(F, g, s)]
  BY <1>7
<1> HIDE DEF F
<1>9. \A s \in SUBSET U : F[s] = Unfolded(F, g, s)
  BY <1>8
<1> QED BY <1>9 DEF F

\* It has one only: a sum does not depend on the set it is part of.
LEMMA PartialAgrees ==
  ASSUME NEW g, NEW U, NEW V, IsFiniteSet(U), IsFiniteSet(V)
  PROVE  \A s \in SUBSET (U \cap V) : Partial(g, U)[s] = Partial(g, V)[s]
<1> DEFINE S == {k \in Nat : \A s \in SUBSET (U \cap V) :
                   Cardinality(s) < k => Partial(g, U)[s] = Partial(g, V)[s]}
<1>0. IsFiniteSet(U \cap V)
  BY FS_Subset
<1>1. 0 \in S
  BY <1>0, Smaller
<1>2. ASSUME NEW k \in Nat, k \in S PROVE k + 1 \in S
  <2> SUFFICES ASSUME NEW s \in SUBSET (U \cap V), Cardinality(s) < k + 1
               PROVE  Partial(g, U)[s] = Partial(g, V)[s]
    OBVIOUS
  <2>1. Partial(g, U)[s] = Unfolded(Partial(g, U), g, s) /\ Partial(g, V)[s] = Unfolded(Partial(g, V), g, s)
    BY PartialExists
  <2>2. CASE s = {}
    BY <2>1, <2>2 DEF Unfolded
  <2>3. CASE s # {}
    <3>1. One(s) \in s
      BY <2>3 DEF One
    <3>2. s \ {One(s)} \in SUBSET (U \cap V) /\ Cardinality(s \ {One(s)}) < k
      BY <1>0, <3>1, Smaller
    <3>3. Partial(g, U)[s \ {One(s)}] = Partial(g, V)[s \ {One(s)}]
      BY <1>2, <3>2
    <3> QED BY <2>1, <2>3, <3>3 DEF Unfolded
  <2> QED BY <2>2, <2>3
<1> HIDE DEF S
<1>3. \A k \in Nat : k \in S
  BY <1>1, <1>2, Inductive
<1>4. ASSUME NEW s \in SUBSET (U \cap V) PROVE Partial(g, U)[s] = Partial(g, V)[s]
  <2>1. Cardinality(s) + 1 \in Nat /\ Cardinality(s) < Cardinality(s) + 1
    BY <1>0, Smaller
  <2> QED BY <1>3, <2>1 DEF S
<1> QED BY <1>4

LEMMA SumUnfolds ==
  ASSUME NEW g, NEW U, IsFiniteSet(U)
  PROVE  SumOf(g, U) = IF U = {} THEN 0 ELSE g[One(U)] + SumOf(g, U \ {One(U)})
<1>1. SumOf(g, U) = Unfolded(Partial(g, U), g, U)
  BY SumDef, PartialExists
<1>2. CASE U = {}
  BY <1>1, <1>2 DEF Unfolded
<1>3. CASE U # {}
  <2> DEFINE V == U \ {One(U)}
  <2>1. IsFiniteSet(V) /\ V \in SUBSET (U \cap V)
    BY FS_Subset
  <2>2. Partial(g, U)[V] = Partial(g, V)[V]
    BY <2>1, PartialAgrees
  <2> QED BY <1>1, <1>3, <2>2, SumDef DEF Unfolded
<1> QED BY <1>2, <1>3

\* Any element may be added last.
LEMMA SumFacts ==
  ASSUME NEW g, NEW U, IsFiniteSet(U), \A x \in U : g[x] \in Nat
  PROVE  /\ SumOf(g, U) \in Nat
         /\ U = {} => SumOf(g, U) = 0
         /\ \A x \in U : SumOf(g, U) = g[x] + SumOf(g, U \ {x})
<1> DEFINE Good(V) == /\ SumOf(g, V) \in Nat
                      /\ \A x \in V : /\ SumOf(g, V \ {x}) \in Nat
                                      /\ SumOf(g, V) = g[x] + SumOf(g, V \ {x})
           S == {k \in Nat : \A V \in SUBSET U : Cardinality(V) < k => Good(V)}
<1>1. 0 \in S
  BY Smaller
<1>2. ASSUME NEW k \in Nat, k \in S PROVE k + 1 \in S
  <2> SUFFICES ASSUME NEW V \in SUBSET U, Cardinality(V) < k + 1
               PROVE  Good(V)
    OBVIOUS
  <2>0. \A W \in SUBSET U : Cardinality(W) < k => Good(W)
    BY <1>2
  <2>1. IsFiniteSet(V)
    BY Smaller
  <2>2. CASE V = {}
    <3>1. SumOf(g, V) = 0
      BY <2>1, <2>2, SumUnfolds
    <3> QED BY <2>2, <3>1
  <2>3. CASE V # {}
    <3> DEFINE p == One(V)
    <3>1. p \in V
      BY <2>3 DEF One
    <3>2. SumOf(g, V) = g[p] + SumOf(g, V \ {p})
      BY <2>1, <2>3, SumUnfolds
    <3> HIDE DEF p
    <3>3. \A x \in V : V \ {x} \in SUBSET U /\ Cardinality(V \ {x}) < k
      BY Smaller
    <3>4. \A x \in V : Good(V \ {x})
      BY <2>0, <3>3
    <3>5. SumOf(g, V) \in Nat
      BY <3>1, <3>2, <3>4
    <3>6. ASSUME NEW x \in V, x # p
          PROVE  SumOf(g, V) = g[x] + SumOf(g, V \ {x})
      <4>1. SumOf(g, V \ {p}) = g[x] + SumOf(g, (V \ {p}) \ {x})
        BY <3>1, <3>4, <3>6
      <4>2. SumOf(g, V \ {x}) = g[p] + SumOf(g, (V \ {x}) \ {p})
        BY <3>1, <3>4, <3>6
      <4>3. (V \ {p}) \ {x} = (V \ {x}) \ {p}
        OBVIOUS
      <4> DEFINE t == SumOf(g, (V \ {p}) \ {x})
                 v == SumOf(g, V \ {p})
                 w == SumOf(g, V \ {x})
      <4>4. t \in Nat /\ g[x] \in Nat /\ g[p] \in Nat
        BY <3>1, <3>4, <3>6
      <4>5. v = g[x] + t /\ w = g[p] + t
        BY <4>1, <4>2, <4>3
      <4> HIDE DEF t, v, w
      <4>6. g[p] + v = g[x] + w
        BY <4>4, <4>5
      <4> QED BY <3>2, <4>6 DEF v, w
    <3> QED BY <3>2, <3>4, <3>5, <3>6
  <2> QED BY <2>2, <2>3
<1> HIDE DEF S
<1>3. \A k \in Nat : k \in S
  BY <1>1, <1>2, Inductive
<1>4. Good(U)
  <2>1. Cardinality(U) + 1 \in Nat /\ Cardinality(U) < Cardinality(U) + 1 /\ U \in SUBSET U
    BY FS_CardinalityType
  <2> QED BY <1>3, <2>1 DEF S
<1>5. U = {} => SumOf(g, U) = 0
  BY SumUnfolds
<1> QED BY <1>4, <1>5

-----------------------------------------------------------------------------
(* The admissions of an address, by age. *)

Ages == 0 .. Minute - 1

\* Those of the k youngest ages.
Since(g, k) == SumOf(g, 0 .. k - 1)

LEMMA SinceFacts ==
  ASSUME NEW g \in [Ages -> Nat]
  PROVE  /\ Since(g, 0) = 0
         /\ \A k \in 0 .. Minute : Since(g, k) \in Nat
         /\ \A k \in Ages : Since(g, k + 1) = Since(g, k) + g[k]
<1>1. ASSUME NEW k \in 0 .. Minute
      PROVE  IsFiniteSet(0 .. k - 1) /\ \A a \in 0 .. k - 1 : g[a] \in Nat
  <2>1. IsFiniteSet(0 .. k - 1)
    BY FS_Interval, AttemptNumbers
  <2> QED BY <2>1, AttemptNumbers DEF Ages
<1>2. \A k \in 0 .. Minute : Since(g, k) \in Nat
  BY <1>1, SumFacts DEF Since
<1>3. ASSUME NEW k \in Ages PROVE Since(g, k + 1) = Since(g, k) + g[k]
  <2>1. k + 1 \in 0 .. Minute /\ k \in 0 .. Minute /\ k \in 0 .. (k + 1) - 1
    BY AttemptNumbers DEF Ages
  <2>2. (0 .. (k + 1) - 1) \ {k} = 0 .. k - 1
    BY AttemptNumbers DEF Ages
  <2>3. SumOf(g, 0 .. (k + 1) - 1) = g[k] + SumOf(g, 0 .. k - 1)
    BY <1>1, <2>1, <2>2, SumFacts
  <2>4. g[k] \in Nat /\ Since(g, k) \in Nat
    BY <1>2, <2>1
  <2> QED BY <2>3, <2>4 DEF Since
<1>4. Since(g, 0) = 0
  <2>1. 0 .. 0 - 1 = {} /\ IsFiniteSet({})
    BY FS_EmptySet
  <2> QED BY <2>1, SumFacts DEF Since
<1> QED BY <1>2, <1>3, <1>4

\* There are no fewer in a longer time.
LEMMA SinceGrows ==
  ASSUME NEW g \in [Ages -> Nat]
  PROVE  \A k \in 0 .. Minute : \A j \in 0 .. k : Since(g, j) <= Since(g, k)
<1> DEFINE S == {k \in Nat : k <= Minute => \A j \in 0 .. k : Since(g, j) <= Since(g, k)}
<1>1. 0 \in S
  BY SinceFacts
<1>2. ASSUME NEW k \in Nat, k \in S PROVE k + 1 \in S
  <2> SUFFICES ASSUME k + 1 <= Minute, NEW j \in 0 .. k + 1
               PROVE  Since(g, j) <= Since(g, k + 1)
    OBVIOUS
  <2>1. k \in Ages /\ k \in 0 .. Minute /\ k + 1 \in 0 .. Minute /\ j \in 0 .. Minute
    BY AttemptNumbers DEF Ages
  <2>2. Since(g, k + 1) = Since(g, k) + g[k] /\ g[k] \in Nat
    BY <2>1, SinceFacts
  <2>3. Since(g, k) \in Nat /\ Since(g, j) \in Nat
    BY <2>1, SinceFacts
  <2>4. j # k + 1 => Since(g, j) <= Since(g, k)
    BY <1>2, <2>1
  <2> QED BY <2>2, <2>3, <2>4
<1> HIDE DEF S
<1>3. \A k \in Nat : k \in S
  BY <1>1, <1>2, Inductive
<1> QED BY <1>3, AttemptNumbers DEF S

\* A tick, and another admission.
Aged(g) == [a \in Ages |-> IF a = 0 THEN 0 ELSE g[a - 1]]
Again(g) == [g EXCEPT ![0] = @ + 1]

LEMMA AgedFacts ==
  ASSUME NEW g \in [Ages -> Nat]
  PROVE  /\ Aged(g) \in [Ages -> Nat] /\ Aged(g)[0] = 0
         /\ \A k \in Ages : Since(Aged(g), k + 1) = Since(g, k)
<1>1. Aged(g) \in [Ages -> Nat] /\ Aged(g)[0] = 0
  BY AttemptNumbers DEF Aged, Ages
<1> DEFINE S == {k \in Nat : k \in Ages => Since(Aged(g), k + 1) = Since(g, k)}
<1>2. 0 \in S
  <2>1. 0 \in Ages /\ Since(Aged(g), 0 + 1) = Since(Aged(g), 0) + Aged(g)[0]
    BY <1>1, SinceFacts, AttemptNumbers DEF Ages
  <2> QED BY <1>1, <2>1, SinceFacts
<1>3. ASSUME NEW k \in Nat, k \in S PROVE k + 1 \in S
  <2> SUFFICES ASSUME k + 1 \in Ages
               PROVE  Since(Aged(g), (k + 1) + 1) = Since(g, k + 1)
    OBVIOUS
  <2>1. k \in Ages
    BY AttemptNumbers DEF Ages
  <2>2. Since(Aged(g), (k + 1) + 1) = Since(Aged(g), k + 1) + Aged(g)[k + 1]
    BY <1>1, SinceFacts
  <2>3. Aged(g)[k + 1] = g[k]
    BY DEF Aged
  <2>4. Since(g, k + 1) = Since(g, k) + g[k]
    BY <2>1, SinceFacts
  <2> QED BY <1>3, <2>1, <2>2, <2>3, <2>4
<1> HIDE DEF S
<1>4. \A k \in Nat : k \in S
  BY <1>2, <1>3, Inductive
<1>5. \A k \in Ages : k \in Nat
  BY DEF Ages
<1> QED BY <1>1, <1>4, <1>5 DEF S

LEMMA AgainFacts ==
  ASSUME NEW g \in [Ages -> Nat]
  PROVE  /\ Again(g) \in [Ages -> Nat]
         /\ \A k \in Ages : Since(Again(g), k + 1) = Since(g, k + 1) + 1
<1>0. 0 \in Ages
  BY AttemptNumbers DEF Ages
<1>1. Again(g) \in [Ages -> Nat] /\ Again(g)[0] = g[0] + 1
      /\ \A a \in Ages : a # 0 => Again(g)[a] = g[a]
  BY <1>0 DEF Again
<1> DEFINE S == {k \in Nat : k \in Ages => Since(Again(g), k + 1) = Since(g, k + 1) + 1}
<1>2. 0 \in S
  <2>1. /\ Since(Again(g), 0 + 1) = Since(Again(g), 0) + Again(g)[0]
        /\ Since(g, 0 + 1) = Since(g, 0) + g[0]
    BY <1>0, <1>1, SinceFacts
  <2>2. Since(Again(g), 0) = 0 /\ Since(g, 0) = 0 /\ g[0] \in Nat
    BY <1>0, <1>1, SinceFacts
  <2> QED BY <1>1, <2>1, <2>2
<1>3. ASSUME NEW k \in Nat, k \in S PROVE k + 1 \in S
  <2> SUFFICES ASSUME k + 1 \in Ages
               PROVE  Since(Again(g), (k + 1) + 1) = Since(g, (k + 1) + 1) + 1
    OBVIOUS
  <2>1. k \in Ages /\ k + 1 \in 0 .. Minute
    BY AttemptNumbers DEF Ages
  <2>2. /\ Since(Again(g), (k + 1) + 1) = Since(Again(g), k + 1) + Again(g)[k + 1]
        /\ Since(g, (k + 1) + 1) = Since(g, k + 1) + g[k + 1]
    BY <1>1, SinceFacts
  <2>3. Again(g)[k + 1] = g[k + 1] /\ g[k + 1] \in Nat /\ Since(g, k + 1) \in Nat
    BY <1>1, <2>1, SinceFacts
  <2> QED BY <1>3, <2>1, <2>2, <2>3
<1> HIDE DEF S
<1>4. \A k \in Nat : k \in S
  BY <1>2, <1>3, Inductive
<1>5. \A k \in Ages : k \in Nat
  BY DEF Ages
<1> QED BY <1>1, <1>4, <1>5 DEF S

-----------------------------------------------------------------------------
(* Bursts. *)

\* How many of n attempts may have been admitted.
Admissible(n) == IF n > MaxConnectionsPerMinute THEN MaxConnectionsPerMinute ELSE n

\* An address with the window `entry`: of its attempts, the first of which is
\* as old as the window, so many were admitted; before the window there are
\* only those of the one before, which lacks its first.
InWindow(g, entry) ==
  /\ entry.age \in Ages /\ entry.n >= 1
  /\ Since(g, entry.age + 1) <= Admissible(entry.n)
  /\ Since(g, entry.age) <= Admissible(entry.n) - 1
  /\ Since(g, Minute) - Since(g, entry.age + 1) <= MaxConnectionsPerMinute - 1

\* An address without a window: its last one began more than a minute ago.
NoWindow(g) == g[0] = 0 /\ Since(g, Minute) <= MaxConnectionsPerMinute - 1

Windows ==
  \A ip \in Ip : IF ip \in Fresh THEN InWindow(admitted[ip], attempts[ip])
                 ELSE NoWindow(admitted[ip])

BInv == Recorded /\ Windows

LEMMA Rows == Recorded => \A ip \in Ip : admitted[ip] \in [Ages -> Nat]
BY DEF Recorded, Ages

\* A window grows older with its admissions; when it is over, its first
\* attempt is more than a minute ago.
LEMMA WindowAges ==
  ASSUME NEW g \in [Ages -> Nat], NEW entry \in Attempt, InWindow(g, entry)
  PROVE  IF entry.age + 1 < Minute
         THEN InWindow(Aged(g), [entry EXCEPT !.age = entry.age + 1])
         ELSE NoWindow(Aged(g))
<1> DEFINE w == entry.age
           L == MaxConnectionsPerMinute
           n == Admissible(entry.n)
<1>1. w \in Ages /\ Minute \in Nat /\ w + 1 \in 0 .. Minute /\ w \in 0 .. Minute
      /\ Minute - 1 \in Ages /\ Minute \in 0 .. Minute /\ Minute - 1 \in 0 .. Minute
  BY AttemptNumbers DEF InWindow, Ages
<1>2. L \in Nat /\ entry.n \in Nat /\ n \in Nat /\ n <= L
  BY AttemptNumbers DEF Attempt, Admissible
<1>3. /\ Since(g, w) \in Nat /\ Since(g, w + 1) \in Nat /\ Since(g, Minute) \in Nat
      /\ Since(g, Minute - 1) \in Nat /\ Since(g, Minute - 1) <= Since(g, Minute)
  BY <1>1, SinceFacts, SinceGrows
<1>4. /\ Since(Aged(g), w + 1) = Since(g, w)
      /\ Since(Aged(g), Minute) = Since(g, Minute - 1)
  <2>1. Since(Aged(g), (Minute - 1) + 1) = Since(g, Minute - 1)
    BY <1>1, AgedFacts
  <2>2. (Minute - 1) + 1 = Minute
    BY <1>1
  <2> QED BY <1>1, <2>1, <2>2, AgedFacts
<1>5. CASE w + 1 < Minute
  <2>1. w + 1 \in Ages
    BY <1>1, <1>5 DEF Ages
  <2>2. Since(Aged(g), (w + 1) + 1) = Since(g, w + 1)
    BY <2>1, AgedFacts
  <2>3. [entry EXCEPT !.age = w + 1].age = w + 1 /\ [entry EXCEPT !.age = w + 1].n = entry.n
    BY DEF Attempt
  <2>4. /\ entry.n >= 1 /\ Since(g, w + 1) <= n /\ Since(g, w) <= n - 1
        /\ Since(g, Minute) - Since(g, w + 1) <= L - 1
    BY DEF InWindow
  <2>5. Since(Aged(g), Minute) - Since(Aged(g), (w + 1) + 1) <= L - 1
    BY <1>2, <1>3, <1>4, <2>2, <2>4
  <2> QED BY <1>4, <1>5, <2>1, <2>2, <2>3, <2>4, <2>5 DEF InWindow
<1>6. CASE ~(w + 1 < Minute)
  <2>1. w = Minute - 1
    BY <1>1, <1>6 DEF Ages
  <2>2. Since(g, w) <= n - 1
    BY DEF InWindow
  <2>3. Since(Aged(g), Minute) <= L - 1
    BY <1>2, <1>3, <1>4, <2>1, <2>2
  <2> QED BY <1>6, <2>3, AgedFacts DEF NoWindow
<1> QED BY <1>5, <1>6

LEMMA NoWindowAges ==
  ASSUME NEW g \in [Ages -> Nat], NoWindow(g)
  PROVE  NoWindow(Aged(g))
<1>1. Minute \in Nat /\ Minute - 1 \in Ages /\ Minute \in 0 .. Minute
      /\ Minute - 1 \in 0 .. Minute /\ (Minute - 1) + 1 = Minute
  BY AttemptNumbers DEF Ages
<1>2. Since(Aged(g), (Minute - 1) + 1) = Since(g, Minute - 1)
  BY <1>1, AgedFacts
<1>3. /\ Since(g, Minute) \in Nat /\ Since(g, Minute - 1) \in Nat
      /\ Since(g, Minute - 1) <= Since(g, Minute)
  BY <1>1, SinceFacts, SinceGrows
<1> QED BY <1>1, <1>2, <1>3, AgedFacts, AttemptNumbers DEF NoWindow

\* An attempt is counted in the window it finds or opens, and so is its
\* admission.
LEMMA AttemptWindow ==
  ASSUME BInv, NEW ip \in Ip
  PROVE  /\ InWindow(admitted[ip], Counted(ip))
         /\ Counted(ip).n <= MaxConnectionsPerMinute =>
              InWindow(Again(admitted[ip]), Counted(ip))
<1> DEFINE g == admitted[ip]
           L == MaxConnectionsPerMinute
           w == Counted(ip).age
           n == Counted(ip).n
<1>1. g \in [Ages -> Nat]
  BY Rows DEF BInv
<1>2. L \in Nat /\ L >= 1 /\ Minute \in Nat /\ 0 \in Ages /\ Minute \in 0 .. Minute
      /\ Minute - 1 \in Ages /\ (Minute - 1) + 1 = Minute
  BY AttemptNumbers, AdmissionAssumption DEF Ages
<1>3. CASE ip \in Fresh
  <2> DEFINE m == attempts[ip].n
  <2>1. attempts[ip] \in Attempt /\ InWindow(g, attempts[ip])
    BY <1>3 DEF Fresh, BInv, Recorded, Windows
  <2>2. w = attempts[ip].age /\ n = IF m > L THEN m ELSE m + 1
    BY <1>3, <2>1 DEF Counted, Attempt
  <2>3. m \in Nat /\ w \in Ages /\ m >= 1
    BY <2>1, <2>2 DEF Attempt, InWindow
  <2>4. /\ Since(g, w + 1) <= Admissible(m) /\ Since(g, w) <= Admissible(m) - 1
        /\ Since(g, Minute) - Since(g, w + 1) <= L - 1
    BY <2>1, <2>2 DEF InWindow
  <2>5. w \in 0 .. Minute /\ w + 1 \in 0 .. Minute
    BY <1>2, <2>3 DEF Ages
  <2>6. Since(g, w) \in Nat /\ Since(g, w + 1) \in Nat /\ Since(g, Minute) \in Nat
    BY <1>1, <1>2, <2>5, SinceFacts
  <2> HIDE DEF w, n, m, g
  <2>7. Admissible(m) \in Nat /\ Admissible(n) \in Nat /\ Admissible(m) <= Admissible(n)
        /\ n >= 1 /\ (n <= L => Admissible(n) = Admissible(m) + 1)
    BY <1>2, <2>2, <2>3 DEF Admissible
  <2>8. InWindow(g, Counted(ip))
    <3>1. Since(g, w + 1) <= Admissible(n) /\ Since(g, w) <= Admissible(n) - 1
      BY <2>4, <2>6, <2>7
    <3> QED BY <2>3, <2>4, <2>7, <3>1 DEF InWindow, w, n
  <2>9. ASSUME n <= L PROVE InWindow(Again(g), Counted(ip))
    <3>1. Since(Again(g), w + 1) = Since(g, w + 1) + 1
      BY <1>1, <2>3, AgainFacts
    <3>2. Since(Again(g), Minute) = Since(g, Minute) + 1
      <4>1. Since(Again(g), (Minute - 1) + 1) = Since(g, (Minute - 1) + 1) + 1
        BY <1>1, <1>2, AgainFacts
      <4> QED BY <1>2, <4>1
    <3>3. Since(Again(g), w) <= Since(g, w) + 1 /\ (w = 0 => Since(Again(g), w) = 0)
          /\ Since(Again(g), w) \in Nat
      <4>1. CASE w = 0
        BY <1>1, <2>6, <4>1, AgainFacts, SinceFacts
      <4>2. CASE w # 0
        <5>1. w - 1 \in Ages /\ (w - 1) + 1 = w
          BY <1>2, <2>3, <4>2 DEF Ages
        <5>2. Since(Again(g), (w - 1) + 1) = Since(g, (w - 1) + 1) + 1
          BY <1>1, <5>1, AgainFacts
        <5> QED BY <2>6, <4>2, <5>1, <5>2
      <4> QED BY <4>1, <4>2
    <3>4. Since(Again(g), w + 1) <= Admissible(n)
      BY <2>4, <2>6, <2>7, <2>9, <3>1
    <3>5. Since(Again(g), w) <= Admissible(n) - 1
      BY <2>4, <2>6, <2>7, <2>9, <3>3
    <3>6. Since(Again(g), Minute) - Since(Again(g), w + 1) <= L - 1
      BY <1>2, <2>4, <2>6, <3>1, <3>2
    <3> QED BY <2>3, <2>7, <3>4, <3>5, <3>6 DEF InWindow, w, n
  <2> QED BY <2>8, <2>9 DEF g, n
<1>4. CASE ip \notin Fresh
  <2>1. w = 0 /\ n = 1
    BY <1>2, <1>4 DEF Counted
  <2>2. g[0] = 0 /\ Since(g, Minute) <= L - 1
    BY <1>4 DEF BInv, Windows, NoWindow
  <2>3. Since(g, 0) = 0 /\ Since(g, 0 + 1) = 0 /\ Since(g, Minute) \in Nat
    BY <1>1, <1>2, <2>2, SinceFacts
  <2> HIDE DEF w, n, g
  <2>4. /\ Since(Again(g), 0) = 0 /\ Since(Again(g), 0 + 1) = 1
        /\ Since(Again(g), Minute) = Since(g, Minute) + 1
    <3>1. Again(g) \in [Ages -> Nat] /\ Since(Again(g), 0 + 1) = Since(g, 0 + 1) + 1
          /\ Since(Again(g), (Minute - 1) + 1) = Since(g, (Minute - 1) + 1) + 1
      BY <1>1, <1>2, AgainFacts
    <3> QED BY <1>2, <2>3, <3>1, SinceFacts
  <2>5. Admissible(1) = 1
    BY <1>2 DEF Admissible
  <2>6. InWindow(g, Counted(ip))
    BY <1>2, <2>1, <2>2, <2>3, <2>5 DEF InWindow, w, n
  <2>7. Since(Again(g), Minute) - Since(Again(g), 0 + 1) <= L - 1
    BY <1>2, <2>2, <2>3, <2>4
  <2>8. InWindow(Again(g), Counted(ip))
    BY <1>2, <2>1, <2>4, <2>5, <2>7 DEF InWindow, w, n
  <2> QED BY <2>6, <2>8 DEF g
<1> QED BY <1>3, <1>4

\* Every attempt leaves the windows of the other addresses alone.
LEMMA TrackedWindows ==
  ASSUME BInv, NEW ip \in Ip, attempts' = Tracked(ip),
         \/ admitted' = admitted
         \/ /\ Counted(ip).n <= MaxConnectionsPerMinute
            /\ admitted' = [admitted EXCEPT ![ip][0] = @ + 1]
  PROVE  Windows'
<1>1. ASSUME NEW i \in Ip, i # ip
      PROVE  /\ admitted'[i] = admitted[i]
             /\ i \in Fresh' <=> i \in Fresh
             /\ i \in Fresh => attempts'[i] = attempts[i]
  BY <1>1 DEF BInv, Recorded, Tracked, Fresh
<1>2. attempts'[ip] = Counted(ip) /\ ip \in DOMAIN attempts'
  BY DEF Tracked
<1>3. InWindow(admitted'[ip], Counted(ip))
  <2>1. CASE admitted' = admitted
    BY <2>1, AttemptWindow
  <2>2. CASE /\ Counted(ip).n <= MaxConnectionsPerMinute
             /\ admitted' = [admitted EXCEPT ![ip][0] = @ + 1]
    <3>1. admitted'[ip] = Again(admitted[ip])
      BY <2>2 DEF BInv, Recorded, Again
    <3> QED BY <2>2, <3>1, AttemptWindow
  <2> QED BY <2>1, <2>2
<1>4. ip \in Fresh'
  BY <1>2, <1>3, AttemptNumbers DEF InWindow, Fresh, Ages
<1> QED BY <1>1, <1>2, <1>3, <1>4 DEF BInv, Windows

LEMMA WindowsKept == BInv /\ [Next]_vars => Windows'
<1> SUFFICES ASSUME BInv, [Next]_vars PROVE Windows'
  OBVIOUS
<1>1. ASSUME NEW ip \in Ip, RefuseUnknown(ip) PROVE Windows'
  <2>1. admitted' = admitted /\ attempts' = [i \in Fresh |-> attempts[i]]
    BY <1>1 DEF RefuseUnknown
  <2>2. Fresh' = Fresh /\ \A i \in Fresh : attempts'[i] = attempts[i]
    BY <2>1 DEF Fresh
  <2> QED BY <2>1, <2>2 DEF BInv, Windows
<1>2. ASSUME NEW ip \in Ip, RefuseTracked(ip) PROVE Windows'
  BY <1>2, TrackedWindows DEF RefuseTracked
<1>3. ASSUME NEW ip \in Ip, NEW cid \in Cid, Acquire(ip, cid) PROVE Windows'
  <2>1. Counted(ip) \in Attempt
    BY TrackedTypes DEF BInv, Tracked
  <2>2. Counted(ip).n <= MaxConnectionsPerMinute
    BY <1>3, <2>1, AttemptNumbers DEF Acquire, Refuses, Attempt
  <2> QED BY <1>3, <2>2, TrackedWindows DEF Acquire
<1>4. ASSUME NEW p \in permits, Drop(p) PROVE Windows'
  BY <1>4 DEF Drop, BInv, Windows, Fresh
<1>5. CASE Tick
  <2> SUFFICES ASSUME NEW ip \in Ip
               PROVE  IF ip \in Fresh' THEN InWindow(admitted'[ip], attempts'[ip])
                      ELSE NoWindow(admitted'[ip])
    BY DEF Windows
  <2>1. admitted[ip] \in [Ages -> Nat] /\ admitted'[ip] = Aged(admitted[ip])
    BY <1>5, Rows DEF Tick, BInv, Aged, Ages
  <2>2. DOMAIN attempts' = DOMAIN attempts
        /\ \A i \in DOMAIN attempts :
             /\ attempts[i] \in Attempt
             /\ attempts'[i] = [attempts[i] EXCEPT !.age = IF @ < Minute THEN @ + 1 ELSE @]
    BY <1>5 DEF Tick, BInv, Recorded
  <2>3. CASE ip \in Fresh
    <3> DEFINE entry == attempts[ip]
    <3>1. ip \in DOMAIN attempts /\ entry \in Attempt /\ entry.age < Minute
          /\ InWindow(admitted[ip], entry)
      BY <2>2, <2>3 DEF Fresh, BInv, Windows
    <3>2. attempts'[ip] = [entry EXCEPT !.age = entry.age + 1]
          /\ attempts'[ip].age = entry.age + 1
      BY <2>2, <3>1 DEF Attempt
    <3>3. ip \in Fresh' <=> entry.age + 1 < Minute
      BY <2>2, <3>1, <3>2 DEF Fresh
    <3> HIDE DEF entry
    <3> QED BY <2>1, <3>1, <3>2, <3>3, WindowAges
  <2>4. CASE ip \notin Fresh
    <3>1. ip \notin Fresh'
      <4>1. ip \in DOMAIN attempts => attempts[ip].age \in 0 .. Minute /\ ~(attempts[ip].age < Minute)
        BY <2>2, <2>4 DEF Fresh, Attempt
      <4>2. ip \in DOMAIN attempts => attempts'[ip].age = attempts[ip].age
        BY <2>2, <4>1 DEF Attempt
      <4> QED BY <2>2, <4>1, <4>2 DEF Fresh
    <3> QED BY <2>1, <2>4, <3>1, NoWindowAges DEF BInv, Windows
  <2> QED BY <2>3, <2>4
<1>6. CASE UNCHANGED vars
  BY <1>6 DEF vars, BInv, Windows, Fresh
<1> QED BY <1>1, <1>2, <1>3, <1>4, <1>5, <1>6 DEF Next

LEMMA BInvHolds == Spec => []BInv
<1>1. Init => BInv
  <2> SUFFICES ASSUME Init PROVE BInv
    OBVIOUS
  <2> DEFINE zero == [a \in Ages |-> 0]
  <2>1. Recorded
    BY DEF Init, Recorded
  <2>2. Fresh = {} /\ \A ip \in Ip : admitted[ip] = zero
    BY DEF Init, Fresh, Ages
  <2>3. zero \in [Ages -> Nat] /\ zero[0] = 0
    BY AttemptNumbers DEF Ages
  <2>4. Since(zero, Minute) = 0
    <3>1. Aged(zero) = zero
      BY AttemptNumbers DEF Aged, Ages
    <3> DEFINE S == {k \in Nat : k <= Minute => Since(zero, k) = 0}
    <3>2. 0 \in S
      BY <2>3, SinceFacts
    <3>3. ASSUME NEW k \in Nat, k \in S PROVE k + 1 \in S
      <4> SUFFICES ASSUME k + 1 <= Minute PROVE Since(zero, k + 1) = 0
        OBVIOUS
      <4>1. k \in Ages
        BY AttemptNumbers DEF Ages
      <4>2. Since(zero, k + 1) = Since(zero, k)
        BY <2>3, <3>1, <4>1, AgedFacts
      <4> QED BY <3>3, <4>1, <4>2, AttemptNumbers DEF Ages
    <3> HIDE DEF S
    <3>4. Minute \in S
      BY <3>2, <3>3, Inductive, AttemptNumbers
    <3> QED BY <3>4, AttemptNumbers DEF S
  <2> HIDE DEF zero
  <2>5. NoWindow(zero)
    BY <2>3, <2>4, AdmissionAssumption DEF NoWindow
  <2> QED BY <2>1, <2>2, <2>5 DEF BInv, Windows
<1> QED BY <1>1, WindowsKept, RecordedKept, PTL DEF Spec, BInv

\* In no minute is an address admitted more often than twice the limit of
\* acquire, less one, whatever it attempts and however its windows lie.
THEOREM BurstSafe == Spec => []BurstBounded
<1>1. BInv => BurstBounded
  <2> SUFFICES ASSUME BInv, NEW ip \in Ip
               PROVE  Since(admitted[ip], Minute) <= 2 * MaxConnectionsPerMinute - 1
    BY DEF BurstBounded, Since, SumOf
  <2> DEFINE g == admitted[ip]
             L == MaxConnectionsPerMinute
  <2>1. g \in [Ages -> Nat] /\ L \in Nat /\ L >= 1 /\ Minute \in 0 .. Minute
    BY Rows, AttemptNumbers, AdmissionAssumption DEF BInv
  <2>2. Since(g, Minute) \in Nat
    BY <2>1, SinceFacts
  <2>3. CASE ip \in Fresh
    <3> DEFINE entry == attempts[ip]
    <3>1. InWindow(g, entry) /\ entry \in Attempt
      BY <2>3 DEF BInv, Windows, Recorded, Fresh
    <3>2. entry.age + 1 \in 0 .. Minute
      BY <3>1, AttemptNumbers DEF InWindow, Ages
    <3>3. Since(g, entry.age + 1) \in Nat /\ Admissible(entry.n) <= L
          /\ Admissible(entry.n) \in Nat
      BY <2>1, <3>1, <3>2, SinceFacts DEF Admissible, Attempt
    <3>4. /\ Since(g, entry.age + 1) <= Admissible(entry.n)
          /\ Since(g, Minute) - Since(g, entry.age + 1) <= L - 1
      BY <3>1 DEF InWindow
    <3> HIDE DEF g, entry, L
    <3> QED BY <2>1, <2>2, <3>3, <3>4 DEF g, L
  <2>4. CASE ip \notin Fresh
    <3>1. Since(g, Minute) <= L - 1
      BY <2>4 DEF BInv, Windows, NoWindow
    <3> QED BY <2>1, <2>2, <3>1
  <2> QED BY <2>3, <2>4
<1> QED BY <1>1, BInvHolds, PTL
=============================================================================
