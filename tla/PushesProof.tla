----------------------------- MODULE PushesProof -----------------------------
(***************************************************************************)
(* Proofs about Pushes: its types, that the counter of pushes in flight is *)
(* exact, and that late answers spare new registrations.                   *)
(***************************************************************************)
EXTENDS Pushes, SequenceTheorems, TLAPS

PInv == TypeOK /\ InFlightExact

LEMMA InitPInv == Init => PInv
<1> SUFFICES ASSUME Init PROVE PInv
  OBVIOUS
<1>1. <<>> \in Seq(Push) /\ Len(<<>>) = 0
  OBVIOUS
<1>2. TypeOK
  BY <1>1 DEF Init, TypeOK
<1>3. InFlightExact
  BY <1>1, PushesAssumption DEF Init, InFlightExact
<1>4. QED BY <1>2, <1>3 DEF PInv

-----------------------------------------------------------------------------
\* Lists of pushes.

\* One push per chosen device.
LEMMA ChosenFacts ==
  ASSUME TypeOK, NEW chosen \in Choices,
         \A i \in DOMAIN chosen : devices[chosen[i][1]][chosen[i][2]] # None
  PROVE  LET new == [i \in DOMAIN chosen |-> Pushed(chosen[i][1], chosen[i][2])]
         IN  Len(chosen) \in Nat /\ new \in Seq(Push) /\ Len(new) = Len(chosen)
<1>1. PICK n \in 0 .. Limit : chosen \in [1 .. n -> Account \X Device]
  BY DEF Choices
<1>2. n \in Nat /\ DOMAIN chosen = 1 .. n /\ Len(chosen) = n
  BY <1>1, PushesAssumption
<1>3. ASSUME NEW i \in 1 .. n PROVE Pushed(chosen[i][1], chosen[i][2]) \in Push
  <2>1. chosen[i][1] \in Account /\ chosen[i][2] \in Device
    BY <1>1
  <2>2. devices[chosen[i][1]][chosen[i][2]] \in Token
    BY <1>2, <2>1 DEF TypeOK
  <2>3. QED BY <2>1, <2>2 DEF Pushed, Push
<1>4. [i \in 1 .. n |-> Pushed(chosen[i][1], chosen[i][2])] \in [1 .. n -> Push]
  BY <1>3
<1>5. QED BY <1>2, <1>4

\* The list without its i-th element.
LEMMA WithoutFacts ==
  ASSUME NEW s \in Seq(Push), NEW i \in DOMAIN s
  PROVE  LET rest == [j \in 1 .. Len(s) - 1 |-> IF j < i THEN s[j] ELSE s[j + 1]]
         IN  Len(s) > 0 /\ rest \in Seq(Push) /\ Len(rest) = Len(s) - 1
<1>1. Len(s) \in Nat /\ i \in 1 .. Len(s) /\ Len(s) - 1 \in Nat
  OBVIOUS
<1>2. ASSUME NEW j \in 1 .. Len(s) - 1
      PROVE  (IF j < i THEN s[j] ELSE s[j + 1]) \in Push
  <2>1. j \in 1 .. Len(s) /\ j + 1 \in 1 .. Len(s)
    BY <1>1
  <2>2. QED BY <2>1
<1>3. [j \in 1 .. Len(s) - 1 |-> IF j < i THEN s[j] ELSE s[j + 1]]
        \in [1 .. Len(s) - 1 -> Push]
  BY <1>2
<1>4. QED BY <1>1, <1>3

-----------------------------------------------------------------------------
\* The steps.

\* A registration changes devices only.
LEMMA DevicesStep ==
  ASSUME PInv, UNCHANGED <<queue, inFlight, permit, task, batch>>,
         devices' \in [Account -> [Device -> Token \cup {None}]]
  PROVE  PInv'
  BY DEF PInv, TypeOK, InFlightExact

LEMMA SetPushDeviceStep ==
  ASSUME PInv, NEW a \in Account, NEW d \in Device, NEW k \in Token, SetPushDevice(a, d, k)
  PROVE  PInv'
<1> DEFINE rest == Without(k, a, d)
           Row(gone) == [x \in Device |-> IF x = d THEN k ELSE IF x \in gone THEN None
                                         ELSE rest[a][x]]
<1>1. rest \in [Account -> [Device -> Token \cup {None}]]
  BY DEF PInv, TypeOK, Without
<1>2. PICK gone : devices' = [rest EXCEPT ![a] = Row(gone)]
  BY <1>1 DEF SetPushDevice
<1>3. Row(gone) \in [Device -> Token \cup {None}]
  BY <1>1
<1> HIDE DEF rest, Row
<1>4. devices' \in [Account -> [Device -> Token \cup {None}]]
  BY <1>1, <1>2, <1>3
<1>5. QED BY <1>4, DevicesStep DEF SetPushDevice

LEMMA NotifyPlayersStep ==
  ASSUME PInv, NEW p \in Account, NEW chosen \in Choices, NotifyPlayers(p, chosen)
  PROVE  PInv'
<1> DEFINE new == [i \in DOMAIN chosen |-> Pushed(chosen[i][1], chosen[i][2])]
           n == Len(chosen)
<1>1. n \in Nat /\ new \in Seq(Push) /\ Len(new) = n
  BY ChosenFacts DEF PInv, NotifyPlayers
<1>2. /\ queue' = queue \o new /\ inFlight' = inFlight + n /\ inFlight + n <= Limit
      /\ permit' = TRUE /\ UNCHANGED <<devices, task, batch>>
  BY DEF NotifyPlayers, Fits, Notified
<1> HIDE DEF new, n
<1>3. queue \in Seq(Push)
  BY DEF PInv, TypeOK
<1>4. queue' \in Seq(Push) /\ Len(queue') = Len(queue) + n
  <2>1. queue \o new \in Seq(Push) /\ Len(queue \o new) = Len(queue) + Len(new)
    BY <1>1, <1>3, ConcatProperties
  <2>2. QED BY <1>1, <1>2, <2>1
<1>5. Len(queue) \in Nat /\ Len(batch) \in Nat
  BY DEF PInv, TypeOK
<1>6. QED BY <1>1, <1>2, <1>4, <1>5 DEF PInv, TypeOK, InFlightExact

LEMMA AnswerStep ==
  ASSUME PInv, NEW i \in DOMAIN batch, NEW answer \in {"ok", "invalid", "error"},
         Answer(i, answer)
  PROVE  PInv'
<1>0. batch \in Seq(Push) /\ batch[i] \in Push
  BY DEF PInv, TypeOK
<1>1. batch \in Seq(Push) /\ [batch[i] EXCEPT !.answer = answer] \in Push
  BY <1>0 DEF Push
<1>2. batch' = [batch EXCEPT ![i] = [batch[i] EXCEPT !.answer = answer]]
  BY DEF Answer
<1>3. batch' \in Seq(Push) /\ Len(batch') = Len(batch)
  BY <1>1, <1>2
<1>4. task = "sending"
  BY <1>1 DEF PInv, InFlightExact
<1>5. QED BY <1>3, <1>4 DEF Answer, PInv, TypeOK, InFlightExact

LEMMA RecordStep ==
  ASSUME PInv, NEW i \in DOMAIN batch, Record(i)
  PROVE  PInv'
<1> DEFINE rest == [j \in 1 .. Len(batch) - 1 |-> IF j < i THEN batch[j] ELSE batch[j + 1]]
<1>1. batch \in Seq(Push) /\ batch[i] \in Push
  BY DEF PInv, TypeOK
<1>2. Len(batch) > 0 /\ rest \in Seq(Push) /\ Len(rest) = Len(batch) - 1
  BY <1>1, WithoutFacts
<1>3. devices' \in [Account -> [Device -> Token \cup {None}]]
  BY <1>1 DEF Record, PInv, TypeOK, Push
<1>4. batch' = rest /\ UNCHANGED <<queue, permit, task>>
      /\ inFlight' = IF inFlight > 0 THEN inFlight - 1 ELSE 0
  BY DEF Record
<1> HIDE DEF rest
<1>5. task = "sending"
  BY <1>1, <1>2 DEF PInv, InFlightExact
<1>6. Len(queue) \in Nat /\ Len(batch) \in Nat
  BY DEF PInv, TypeOK
<1>7. QED BY <1>2, <1>3, <1>4, <1>5, <1>6, PushesAssumption DEF PInv, TypeOK, InFlightExact

LEMMA TakeStep ==
  ASSUME PInv, Take
  PROVE  PInv'
<1>1. Len(queue) \in Nat /\ batch = <<>>
  BY DEF PInv, TypeOK, InFlightExact, Take
<1>2. Len(batch) = 0 /\ Len(<<>>) = 0
  BY <1>1
<1>3. QED BY <1>1, <1>2 DEF Take, PInv, TypeOK, InFlightExact

\* Every step keeps the invariant.
LEMMA NextPInv ==
  ASSUME PInv, [Next]_vars
  PROVE  PInv'
<1>1. ASSUME NEW a \in Account, NEW d \in Device, DropDevice(a, d) PROVE PInv'
  <2>1. devices' \in [Account -> [Device -> Token \cup {None}]]
    BY <1>1 DEF DropDevice, PInv, TypeOK
  <2>2. QED BY <1>1, <2>1, DevicesStep DEF DropDevice
<1>2. ASSUME NEW a \in Account, Expire(a) PROVE PInv'
  <2>1. devices' \in [Account -> [Device -> Token \cup {None}]]
    BY <1>2 DEF Expire, PInv, TypeOK
  <2>2. QED BY <1>2, <2>1, DevicesStep DEF Expire
<1>3. CASE Wake
  BY <1>3 DEF Wake, PInv, TypeOK, InFlightExact
<1>4. CASE Finish
  BY <1>4 DEF Finish, PInv, TypeOK, InFlightExact
<1>5. CASE UNCHANGED vars
  BY <1>5 DEF vars, PInv, TypeOK, InFlightExact
<1>6. QED
  BY <1>1, <1>2, <1>3, <1>4, <1>5, SetPushDeviceStep, NotifyPlayersStep, AnswerStep,
     RecordStep, TakeStep DEF Next

\* The invariant of Pushes, for every number of accounts, devices and places.
THEOREM PInvHolds == Spec => []PInv
<1>1. PInv /\ [Next]_vars => PInv'
  BY NextPInv
<1>2. QED BY InitPInv, <1>1, PTL DEF Spec

\* Every variable of Pushes keeps its type.
THEOREM PushTypes == Spec => []TypeOK
<1>1. PInv => TypeOK
  BY DEF PInv
<1>2. QED BY <1>1, PInvHolds, PTL

\* notifyPlayers and deliver_legacy agree on the places that are taken.
THEOREM InFlightSafe == Spec => []InFlightExact
<1>1. PInv => InFlightExact
  BY DEF PInv
<1>2. QED BY <1>1, PInvHolds, PTL

\* deliver_legacy removes a device only for the token it has now.
THEOREM AnswersSafe == Spec => AnswersFitTokens
<1> DEFINE A == \A i \in DOMAIN batch :
                  Record(i) => \A a \in Account, d \in Device :
                    devices'[a][d] # devices[a][d] =>
                      batch[i].answer = "invalid" /\ batch[i].token = devices[a][d]
<1>1. PInv => A
  <2> SUFFICES ASSUME PInv, NEW i \in DOMAIN batch, Record(i),
                      NEW a \in Account, NEW d \in Device, devices'[a][d] # devices[a][d]
               PROVE  batch[i].answer = "invalid" /\ batch[i].token = devices[a][d]
    OBVIOUS
  <2>1. batch[i] \in Push
    BY DEF PInv, TypeOK
  <2> DEFINE p == batch[i].player
             x == batch[i].device
  <2>2. p \in Account /\ x \in Device
    BY <2>1 DEF Push
  <2>3. Invalid(batch[i]) /\ devices' = [devices EXCEPT ![p][x] = None]
    BY DEF Record
  <2> HIDE DEF p, x
  <2>4. a = p /\ d = x
    BY <2>2, <2>3 DEF PInv, TypeOK
  <2>5. QED BY <2>3, <2>4 DEF Invalid, p, x
<1>2. PInv /\ [Next]_vars => [A]_vars
  BY <1>1
<1>3. QED BY <1>2, PInvHolds, PTL DEF Spec, AnswersFitTokens
=============================================================================
