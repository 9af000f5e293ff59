-------------------------------- MODULE Pushes --------------------------------
(***************************************************************************)
(* Legacy pushes: notifyPlayers queues one job for every device it is for  *)
(* and counts it (rust/server.rs), a task of its own is woken by a Notify, *)
(* takes the whole queue, sends all of it at once and gives the places     *)
(* back one by one (rust/push.rs deliver_legacy); meanwhile setPushDevice  *)
(* changes the devices.                                                    *)
(*                                                                         *)
(* Abstracted: the room that asks (its owner, roster, event ids and the 30 *)
(* seconds between two requests only make requests fail); which devices    *)
(* show the game in the foreground; the age of devices; texts.  Accounts   *)
(* live in memory only.                                                    *)
(***************************************************************************)
EXTENDS Integers, FiniteSets, Sequences

CONSTANTS
  Account,     \* accounts in RAM
  Device,      \* device ids
  Token,       \* push tokens
  None,        \* Rust's Option::None
  MaxDevices,  \* devices of an account (4 in the code)
  Limit        \* pushes in flight (32 in the code)

ASSUME PushesAssumption == MaxDevices \in Nat \ {0} /\ Limit \in Nat \ {0}

VARIABLES
  devices,    \* Player.devices: the token of each registered device
  queue,      \* Server.legacy_pushes
  inFlight,   \* Server.pushes_in_flight
  permit,     \* Server.legacy_wake: a permit of the Notify is there
  task,       \* where legacy_task is
  batch       \* the jobs it has taken and not answered for

vars == <<devices, queue, inFlight, permit, task, batch>>

\* A LegacyPush and how far it is: the provider's answer is "ok", "invalid"
\* (the token is no longer registered) or "error" (a timeout counts as one).
Push == [player : Account, device : Device, token : Token,
         answer : {"none", "ok", "invalid", "error"}]

TypeOK ==
  /\ devices \in [Account -> [Device -> Token \cup {None}]]
  /\ queue \in Seq(Push) /\ batch \in Seq(Push)
  /\ inFlight \in Nat
  /\ permit \in BOOLEAN
  /\ task \in {"waiting", "woken", "sending"}

Init ==
  /\ devices = [a \in Account |-> [d \in Device |-> None]]
  /\ queue = <<>> /\ batch = <<>> /\ inFlight = 0
  /\ permit = FALSE /\ task = "waiting"

-----------------------------------------------------------------------------
\* The worker

\* Everybody's devices without token k, except for a's device d.
Without(k, a, d) ==
  [b \in Account |-> [x \in Device |->
     IF devices[b][x] = k /\ <<b, x>> # <<a, d>> THEN None ELSE devices[b][x]]]

\* Those of ds that make room for device d: the oldest, if there are too many.
Evicted(ds, d) ==
  IF d \notin ds /\ Cardinality(ds) >= MaxDevices THEN {{x} : x \in ds} ELSE {{}}

\* setPushDevice with a token: it is taken from every other device.
SetPushDevice(a, d, k) ==
  LET rest == Without(k, a, d)
      registered == {x \in Device : rest[a][x] # None}
  IN /\ \E gone \in Evicted(registered, d) :
          devices' = [rest EXCEPT ![a] = [x \in Device |->
                        IF x = d THEN k ELSE IF x \in gone THEN None ELSE @[x]]]
     /\ UNCHANGED <<queue, inFlight, permit, task, batch>>

\* setPushDevice with a null token.
DropDevice(a, d) ==
  /\ devices[a][d] # None
  /\ devices' = [devices EXCEPT ![a][d] = None]
  /\ UNCHANGED <<queue, inFlight, permit, task, batch>>

\* The account leaves RAM, and its devices with it.
Expire(a) ==
  /\ devices' = [devices EXCEPT ![a] = [d \in Device |-> None]]
  /\ UNCHANGED <<queue, inFlight, permit, task, batch>>

\* Mutant of Fits: whether there is a place is asked once per request.
FitsFirst(n) == inFlight < Limit

\* A device gets a push only if there is a place left.
Fits(n) == inFlight + n <= Limit

Pushed(a, d) ==
  [player |-> a, device |-> d, token |-> devices[a][d], answer |-> "none"]

\* Mutant of Notified: the permit is for a task that waits.
NotifiedIfWaiting == permit \/ task = "waiting"

\* notify_one() leaves a permit, for now or for when the task asks again.
Notified == TRUE

\* notifyPlayers by p: a push for each of the chosen <<account, device>>, as
\* far as there are places for them.  Which are chosen is open: that stands
\* for those that are named, not in the foreground, and early enough in line.
NotifyPlayers(p, chosen) ==
  /\ inFlight < Limit /\ Fits(Len(chosen))
  /\ \A i \in DOMAIN chosen : chosen[i][1] # p /\ devices[chosen[i][1]][chosen[i][2]] # None
  /\ queue' = queue \o [i \in DOMAIN chosen |-> Pushed(chosen[i][1], chosen[i][2])]
  /\ inFlight' = inFlight + Len(chosen)
  /\ permit' = Notified
  /\ UNCHANGED <<devices, task, batch>>

-----------------------------------------------------------------------------
\* The task

\* notified() takes the permit.
Wake ==
  /\ task = "waiting" /\ permit
  /\ task' = "woken" /\ permit' = FALSE
  /\ UNCHANGED <<devices, queue, inFlight, batch>>

\* deliver_legacy() takes the queue.
Take ==
  /\ task = "woken"
  /\ task' = "sending" /\ batch' = queue /\ queue' = <<>>
  /\ UNCHANGED <<devices, inFlight, permit>>

\* The provider answers, or the request times out.
Answer(i, answer) ==
  /\ batch[i].answer = "none"
  /\ batch' = [batch EXCEPT ![i].answer = answer]
  /\ UNCHANGED <<devices, queue, inFlight, permit, task>>

\* Mutant of Invalid: the device goes, whatever its token is by now.
InvalidDevice(push) == push.answer = "invalid"

\* The device still has the token the provider does not know any more.
Invalid(push) ==
  push.answer = "invalid" /\ devices[push.player][push.device] = push.token

\* The answer reaches the worker.
Record(i) ==
  LET push == batch[i] IN
  /\ push.answer # "none"
  /\ inFlight' = IF inFlight > 0 THEN inFlight - 1 ELSE 0
  /\ devices' = IF Invalid(push) THEN [devices EXCEPT ![push.player][push.device] = None]
                ELSE devices
  /\ batch' = [j \in 1 .. Len(batch) - 1 |-> IF j < i THEN batch[j] ELSE batch[j + 1]]
  /\ UNCHANGED <<queue, permit, task>>

\* All of the batch is done: back to waiting.
Finish ==
  /\ task = "sending" /\ batch = <<>>
  /\ task' = "waiting"
  /\ UNCHANGED <<devices, queue, inFlight, permit, batch>>

-----------------------------------------------------------------------------
\* What a request can name: distinct devices, no more than there are places.
Choices == UNION {[1 .. n -> Account \X Device] : n \in 0 .. Limit}
Distinct(s) == \A i, j \in DOMAIN s : s[i] = s[j] => i = j

Next ==
  \/ \E a \in Account, d \in Device, k \in Token : SetPushDevice(a, d, k)
  \/ \E a \in Account, d \in Device : DropDevice(a, d)
  \/ \E a \in Account : Expire(a)
  \/ \E p \in Account, s \in Choices : Distinct(s) /\ NotifyPlayers(p, s)
  \/ Wake \/ Take \/ Finish
  \/ \E i \in DOMAIN batch, answer \in {"ok", "invalid", "error"} : Answer(i, answer)
  \/ \E i \in DOMAIN batch : Record(i)

Spec == Init /\ [][Next]_vars

\* The task and the worker go on, and a request ends within its timeout.
Fairness ==
  /\ WF_vars(Wake) /\ WF_vars(Take) /\ WF_vars(Finish)
  /\ WF_vars(\E i \in DOMAIN batch, answer \in {"ok", "invalid", "error"} : Answer(i, answer))
  /\ WF_vars(\E i \in DOMAIN batch : Record(i))

FairSpec == Spec /\ Fairness

-----------------------------------------------------------------------------
\* Properties

\* The counter is the pushes there are, waiting or sent, and never more than
\* the limit: no place is lost and none is given back twice, though jobs are
\* queued by the worker and settled by another task in any order.
InFlightExact ==
  /\ inFlight = Len(queue) + Len(batch)
  /\ inFlight <= Limit
  /\ task # "sending" => batch = <<>>

\* A registration ends by its owner's doing, or by an answer about the token
\* that it has now, never by a late one about a token it used to have.
AnswersFitTokens ==
  [][\A i \in DOMAIN batch :
       Record(i) => \A a \in Account, d \in Device :
         devices'[a][d] # devices[a][d] =>
           batch[i].answer = "invalid" /\ batch[i].token = devices[a][d]]_vars

\* When all places are taken, one comes free: the task is woken for whatever
\* is queued, also while it is busy with an earlier batch.
SlotsComeBack == inFlight = Limit ~> inFlight < Limit
=============================================================================
