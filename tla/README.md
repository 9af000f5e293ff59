# TLA+ project for the relay server

A verification project for the WebSocket relay in `rust/`: TLA+ modules for the
parts of the server that keep state, TLC runs that check them on small
instances, and theorems about them with proofs checked by TLAPS. Paths are
relative to the repository.

## 1. The system

One process. Tokio tasks read and write sockets, answer UDP, send pushes and
fire timers; every change of the server's state is a closure sent through a
bounded FIFO channel to one worker thread (`rust/state.rs`), which runs it to
the end before it takes the next. The *handlers* are therefore atomic, and the
concurrency is in the order in which they arrive: a socket's disconnect, for
instance, is a handler of its own that may run long after the account has moved
to another socket.

| component | state | operations | where it is hard |
|---|---|---|---|
| Accounts (`server.rs` auth, expire; `store.rs`) | `players`; account files | register, reconnect, reload from file, rename, expire | replacement of a live socket; disconnect of the replaced one afterwards; lookup in RAM and on disk |
| Sockets (`server.rs` connected, close, disconnect; `main.rs` connection) | `connections` | connect, receive, mark closing, disconnect | marking and disconnecting are two steps |
| Rooms (`server.rs` enter, leave, room_message) | `rooms`: active list, host, roster, reservations | create, enter, leave, update, start | who may come back; who is host next; a game that ends for everybody |
| Persistent games (`server.rs` session, upload, keep; `store.rs`) | committed state, revision, upload; room files | begin, chunk, commit, keep, load, prune, stop | uploads across changes of host; failing disk; crash |
| Notices (`store.rs` commit, set_jobs; `push.rs` deliver) | jobs per game, on disk | schedule, deliver, retry, forget | written ahead of the commit; delivery awaits while the game goes on |
| Legacy pushes (`push.rs` deliver_legacy) | a queue, a counter of pushes in flight | enqueue, deliver, drop dead tokens | the counter must come back down |
| Delayed frames (`server.rs` receive, sweep) | `delayed`, `Player.version` | queue, dispatch, discard | a frame must not cross a change of room or login |
| Output queues (`server.rs` raw; `main.rs` connection) | bytes queued per socket, abort flag | send, write, overflow, close | two threads, one count |
| UDP relay (`udp.rs`) | session keys, challenges, replay window, rates | open, bind, relay, expire | reordering, duplicates, source changes |
| Admission (`admission.rs`) | permits and attempts per address | acquire, release | bounded map |
| Diagnostics, telemetry | bounded record queues | record, flush | what is dropped is counted |
| Protocol, config | none | validate | pure functions |

What makes them correct: account, socket and room tables agree; one live
socket per account; the host is the longest present member; a started game
seats only its starters; limits hold; a departed or closed member goes
eventually; a commit is one complete upload of the present host; an
acknowledged state survives what it should survive; notices are delivered at
least once and not after they were replaced; frames stay in the room and
session they were sent in; counters of queues and permits return to zero.
`PROJECT.json` lists the hazards one by one, at their lines.

## 2. Plan

| module | what | state |
|---|---|---|
| `Rooms`, `RoomsProof` | accounts, sockets, rooms; its safety proved | done |
| `Sessions`, `World`, `SessionsProof` | a persistent game; the promise it implements; the refinement proved | done |
| `Udp`, `UdpProof` | the datagram relay: keys, replay window, bindings, rates; its safety proved | done |
| `Admission`, `AdmissionProof` | permits and attempts per address; its safety proved | done |
| `Outbox`, `OutboxProof` | a connection task, its output queue and its commands to the worker; its safety proved | done |
| `Fence`, `Mailbox`, `FenceProof` | delayed frames and `Player.version`; the mailbox per session they implement; safety and refinement proved | done |
| `Notices`, `NoticesProof` | jobs on disk, delivery with awaits, retry, crashes; its safety proved | done |
| `Pushes`, `PushesProof` | legacy pushes in flight, wake-ups, dead tokens; its safety proved | done |
| several games | the order of eviction; of another game's save `stop()` knows here only whether it fails first (`fault`) | open |
| `Sockets` | `Outbox` as an implementation of the sockets of Rooms (`Connect`, `CloseSocket`, `Disconnect`) | open |

Abstract specifications: `World`, which `Sessions` implements, and `Mailbox`,
which `Fence` implements. At-least-once delivery is stated of `Notices` itself,
as a liveness property beside `NothingForgotten`.

## 3. Modules and their correspondence with the code

**`IndexSet`**: `indexmap::IndexSet` as a sequence without repetition, with
`shift_remove`. What they preserve, for elements of any set, is proved in front
of `RoomsProof` and of `SessionsProof`. (`SwapRemove` is the other removal that
crate offers, which the server must not use here; a mutant of `RoomAfter` does.)

**`Rooms`**: one action per handler. `players`, `conns`, `rooms` are the three
maps of `Server`, total functions whose "absent" entries stand for missing
keys; `files` is the set of accounts with a file. `status` is
`Player.connection`/`offline` read together: `online`, offline for less than
`accountTtlMs` (`recent`), offline for longer (`due`). `Age` is the passing of
the TTL.

| action | code |
|---|---|
| `Connect`, `CloseSocket`, `Disconnect` | `connected`; `close` from rate limits and queue overflows; `disconnect` |
| `Register`, `Reconnect`, `Reload`, `AuthRefused` | the branches of `auth`, each with the `expire()` it starts with (`KeptPlayers`, `KeptRooms`) and the `save_account` it ends with, which may fail |
| `CreateRoom`, `EnterRoom`, `LeaveRoom` | `handle` createRoom (with the `enter` it calls), `enter`, `leave(p, false)` |
| `UpdateRoom`, `StartGame` | `room_message` |
| `SaveAccount` | changeName, setPushDevice |
| `Sweep`, `Restart` | the maintenance tick; the end and new start of the process |

`LeftPlayers`/`LeftRooms`/`RoomAfter` are `leave()`, shared by `LeaveRoom`,
`Disconnect` and `Reconnect` as in the code. Requests that the code refuses
change nothing and are not actions. `eligible` is a history variable: the
members at the start of a game, less those who left a game without a fixed
roster on request. Room ids are reused after deletion (`CreateRoom` starts from
`NoRoom`, so nothing of the old room remains).

**`Sessions`**: one game from `startGame {persistent}` on. `ram` is its `Room`,
`disk` its file. `fault` says whose files cannot be written: nobody's, this
game's (`here`), or another's that `stop()` comes to first (`ahead`), which
`keep()` of this one does not notice. A state is a sequence of
chunks, each named by the upload it came with (`Extended`), so that a state put together
from two uploads, or from half of one, is visible. `Keep` is `keep()` with the
`prune()` it calls; `Game` is what `enter()` finds, loaded from the file if
need be; `EnterRefused` is the refusal that drops an empty game from RAM.
`acked` is a history variable: what the last `commitSession` acknowledged (or
the start), reset to the file by a crash and to nothing by the quota. A shutdown
resets nothing, whether or not its writes work. `Prune`
is another game's `keep()`. A write is atomic (`Store::atomic` writes a
temporary file and renames it), so a crash inside a handler looks like a crash
before or after it.

**`World`**: the promise. `current` is what the next reader sees, `saved` the copy
on disk; its roster is fixed and all its hosts are of the roster. A step is a start,
a change of host with a new generation, a commit of a complete snapshot, a save, a
loss of what was not saved, or an eviction. `Sessions` gives the refinement mapping
(`Abstract`).

**`Udp`**: the datagram relay beside the sockets. `udp[c]` is the `Session` of the
client's present connection, `Replay` its window as a highest number and a set
of distances (the bits). A datagram of the client with number `s` from address
`a` is one of `Probe`, `Confirm`, `Relay` (kinds 0, 1, 2 of `datagram_at`) or
`OverRate`; it can arrive whenever its number is `Fresh`, which includes every
order, repetition and loss. One that `datagram_at` drops before it changes
anything is not a step. A challenge is named by the number of its probe, so an
answer to an older one is told apart. `Sends`, `Numbered` and `Charge` are
`Rate::accept` and `Session::packet` for outgoing packets; `out` holds what the
last step sent. Rooms and sockets appear as far as they touch
`Player.version` and `Connection.udp`: `EnterRoom`, `LeaveRoom` (for one, or for
all when a game ends), `CloseSocket`, `Disconnect`, `Reconnect`. History:
`stay` counts the changes of room, which is what `Player.version` is meant to
do; `took` and `gave` count what was handled and sent in a rate window;
`accepted` and `shown` are the numbers and challenges of a key. With
`Limited = FALSE` no limit is reached and nothing is counted.

**`Admission`**: `total`, `active` and `attempts` are the fields of
`admission.rs`; `permits` are the connection tasks that exist, each holding its
`Permit`. `RefuseUnknown`, `RefuseTracked` and `Acquire` are the three ways
through `acquire`, `Drop` is the destructor, `Tick` the clock: it makes the
entries older. The number of attempts is kept up to one more than the limit
(the code saturates later, and compares with the limit only). `admitted` is
history: how many admissions of each age an address has had.

**`Outbox`**: one transport. `task` is the place of `connection()` in
`main.rs`; `posting` is the wait in `Shared::apply`, when neither abort nor
shutdown is looked at, and `answer` the wait for a ping's handler. `commands`
is the channel to the worker, as far as this task filled it, and `RunCommand`
the worker. `QueueFrame` and `Overflow` are `raw()`, which any handler may call
while the worker knows the socket; they run beside the task, so they interleave
with every step of it. The branches of the `select!` are `SeeAbort`,
`SeeShutdown`, `TakeFrame`, and `Incoming` or `PeerEnds`; it is `biased`, so each
is guarded by the absence of the earlier ones (`Idle`). `Written`, `WriteFails`
and `WriteInterrupted` are the ends of a write, `Drained` the end of the drain
after a Close, `Kill` the `abort_all` of shutdown. A write and the subtraction
after it are one step: between the two a handler sees too high a count, which is
what it sees if it runs before the write. `wire` is what the peer can read;
number 0 is the Close of `SeeShutdown`, which does not pass the queue.

**`Fence`**: frames that wait for `sendDelayMs`. `delayed` is the queue,
`due` what the running sweep has taken from it and not yet looked at: a sweep is
one handler, so nothing but closing sockets happens between its steps
(`Ready`). `Receive` and `DelayLimit` are the end of `receive()`, `StartSweep` and
`SweepNext` the loop of `sweep()`, `Passes` its condition, `Dispatched` what a
frame does to rooms. `Moved` is every place that advances `Player.version`;
`Departs` is `leave()`, alone or with everybody (`Company`). `Forget` is an
account that expires and starts again with version 0. History: `moves` counts
an account's changes of room or session, the `stay` in a frame is the one it was
sent in, `heard` is what the last step dispatched. `Kept` is `Vec::retain` on
the queue, in `disconnect()` and in `auth()`; it is a recursive function rather
than `SelectSeq` because `FenceProof` reasons about it.

**`Mailbox`**: what README.md:389 promises of delayed frames: one box per session,
emptied from the front, a frame for a room acted upon exactly in the stay it was
sent in, other frames always. `Fence` maps the queue to boxes (`Letters`).

**`Notices`**: the jobs of one game. `jobs` is `Store.jobs`, `stored` the file under
`notifications/`; a job is a record with `at`, `to`, `scheduled`, `done`, and `wait`
for `retryAt` (0, a time to come, never). `to` is a list as the host sent it
(`Notice` is what hosts send) and may repeat an account (protocol.rs:132). `Committed` is
`commit()`, which finds a job again by event and time (`JobFor`), `SetJobs` is
`set_jobs()`, `Prune` what `prune()` does to one game, each with a disk that works
or refuses. The task has a step for every stretch between two awaits of
`deliver()`: `StartRound` copies what is due, `StartJob` begins one copy and goes
through its list from the first place on (`next`, `Who`), `LookUp` reads an account,
`Check` asks whether the job is still there, `SendFails`/`SendWorks` are the
provider, `Record` and `EndJob` write down. With `ReadsFail` the file of an account
may be unreadable in `LookUp`, which then passes over the recipient, and in
`Record`, which then keeps an invalid token. The worker runs anything in between.
`Crash`, `CrashInCommit` and `CrashInPrune` are the places where a crash finds
different files. History: `settled` (who has got which notice, or had no device for
it), `unread` (whom the task could not read since it began the job) and `away` (jobs
of the round that were off the list since it began).

**`Pushes`**: `queue` is `Server.legacy_pushes`, `inFlight` its counter, `permit` the
permit of the `Notify` between worker and task. `Take` is `mem::take` of the
whole queue; the jobs of a `batch` are answered in any order (`join_all`), and
`Finish` is when all are. `SetPushDevice`, `DropDevice` and `Expire` change the
devices beside it.

## 4. Runs

| run | instance | states | shows |
|---|---|---|---|
| `rooms` | 3 accounts, 3 sockets, 1 room, store | 540,928 | the invariants and action properties of Rooms |
| `rooms_live` | 2, 2, 2 rooms of 2, store | 166,720 | reservations across rooms; abandoned accounts expire |
| `rooms_case` | as `rooms`, ids in any letter case | | **violation** of `OneLiveSocket` |
| `sessions` | 3 accounts, 2 uploads of 2 chunks, 2 commits, failing disk, quota | 324,450 | `UploadIsCurrent`, `LossHasCause`; `Sessions` implements `World`; the retry of a failed save; the end of a stalled upload |
| `sessions_lost` | failing disk, no quota | | **violation** of `LostOnlyWithProcess` |
| `udp` | 1 client, 2 addresses, window 3, 5 numbers, limits of 2 and 1, counter ends at 2 | 195,800 | `WindowIsExact`, `EndpointAnswered`, `QuotasHold`, `NumbersAreFresh` |
| `udp_rooms` | 2 clients, 2 rooms, no limits | 568,337 | `DataStaysInRoom` |
| `admission` | 3 addresses, 3 ids, limits 2 (all), 1 (address), 2 (minute of 3 ticks), tracker of 2 | 596,011 | `PermitsCounted`, `TasksLimited`, `BurstBounded`, `ThrottleEnds` |
| `outbox` | frames of 1 and 2, 4 frames, buffer of 4, 2 commands | 5,272 | `QueuedExact`, `WholeStream`, `NoGhost`, `FramesMeetConnection`, `ClosingEnds`, `FramesGoOut` |
| `fence` | 2 accounts, 2 sockets, 1 room, 2 frames waiting, versions to 2 | 905,486 | `FenceIsTight`, `PendingExact`; `Fence` implements `Mailbox` |
| `notices` | 2 accounts, 1 event, at time 0 to `<<p, p>>` and at time 1 to `<<p, q>>`, 1 token, any number of crashes | 292,604 | `SurvivesRestart`, `RetriesOnlyFailed`, `NothingForgotten`, `AtLeastOnce` |
| `pushes` | 3 accounts, 2 devices of at most 1 each, 2 tokens, 2 in flight | 218,670 | `InFlightExact`, `AnswersFitTokens`, `SlotsComeBack` |

**Bounds.** Three accounts are host, heir and a third who is ahead of nobody: the
least with which removal can reorder the survivors. Three sockets allow a live one,
the one it replaced and one that has not authenticated. Room sizes 2 and 3 make a
room full with and without everybody. One room suffices for membership, a second is
needed only for reservations left behind elsewhere (`rooms_live`). `MaxGeneration`
stops entries (never departures) once every present member has had one change of
host; it bounds how often a host can come and go, not what may happen between. In
Sessions two uploads and two chunks per upload are the least with which chunks can
be mixed, missing or too many. In Udp three numbers are a probe, an answer and data,
and the server uses three for a challenge, its confirmation and data; five numbers
and a window of three allow jumps shorter and longer than the window. `MaxVersion`
of Udp stops entries into rooms (an old key in a second stay needs 4), `MaxSeq` is
how many numbers a client uses under one key; the server's counter really ends at
`MaxOutgoing`. In Admission one address more than the tracker holds, one id more
than there are permits and a minute of three ticks, so that windows of one address
may start at different ages; nothing else is bounded. In Outbox `MaxFrames` is how
many frames handlers produce: enough to fill the buffer and to overflow it, also
behind a write. What the peer sends is not bounded. In Fence the bound `MaxVersion`
is on logins and on frames received, not on what the frames then do; two frames are
the least with which order and a stale frame behind a move exist, two accounts a
host and the one it takes along. In Notices one event has every fate (immediate,
scheduled, replaced by one for another time, put back, retried, gone), since nothing
in the code relates the jobs of two events; two accounts are one that fails or
cannot be read and one that does not, and one list names both, the other one of them
twice. In Pushes a limit of 2 is reached by one request or by two, with an account
that asks, one that is asked and one to which a device moves. `Symmetry` is used
only in runs without liveness and without the `CHOOSE`-dependent refinement.

**Fairness.** `rooms_live` assumes that time passes and that the maintenance timer
fires; nothing of sockets or clients. `sessions` assumes the timer only, and
`RetryWorks` is conditional on a disk that eventually works. `admission` assumes
that time passes. `outbox` assumes that the worker runs what it is sent, that the
executor runs a task that is ready and that writes and drains end, which their
timeouts see to; each branch of the select is weakly fair by itself, so the liveness
of output rests on the order of the branches. A task waiting for room in the command
channel gets it: tokio's channel serves those who wait in turn. Nothing is assumed
of peers, of other handlers or of the stop signal. `notices` assumes that the task
goes on (it is woken by a timer, and a request ends), that time passes, and that
neither the provider nor the disk refuses an account for ever: strong fairness of
`SendWorks` and of a `LookUp` that finds the account, since the task comes back to
either only every 30 s; `AtLeastOnce` is conditional on a process that does not die
again and again. Nothing is assumed of commits, of the quota or of the
writing of jobs, which the disk may refuse every time. `pushes` assumes that task
and worker go on and that a request ends, with any answer. The request to the
provider has a timeout of 10 s (push.rs); the fetch of an access token in front of
it (push.rs:88) has none of its own, so that it ends is assumed of the library that
makes it.

## 5. What is proved

`RoomsProof` proves, for every number of accounts, sockets and rooms, every
limit and with or without a store, that `IInv` is an invariant of
`Rooms!Spec` (theorem `IInvHolds`) and from it `TypeOK`, `MembershipAgrees`,
`HostIsSenior`, `OneLiveSocket`, `OfflineHoldsNothing`, `StartersOnly` and
`SeatsAreHeld`, and the action properties `SeniorityKept`, `HostForLife` and
`ReplacementKeepsRoom`. The only assumption besides `RoomsAssumption` is `~AnyCase`:
with ids in any letter case the statement is false, which is what `rooms_case`
shows.

None of the properties is inductive alone. `IInv` joins them and adds what
they rest on: a room that is not live has no members and is not started; a
room that is not started has no reservations and no roster, one without a
fixed roster has no `players`; seats and reservations are `eligible`; the
accounts they name are in RAM. Its parts (`Core`, `Online`, `Bound`) are
operators on tables, not on the variables, because `auth` applies `expire()`,
`leave()` and the new binding one after the other: `ExpireFacts`, `LeaveFacts`
and `BindFacts` carry `Core` and `Online` through these three, and
`ReplaceFacts` establishes `Bound` at the end. `DepartFacts` is `leave()` in
one room; it rests on `ShiftRemoveFacts`. Steps that change one room
(`CreateRoom`, `EnterRoom`, `UpdateRoom`, `StartGame`) share `OneRoomStep`. The
action properties come from `Follows`, which says what any step does to any room
(`NextFollows`), down to `ShiftRemoveOrder` about the list of members; that
nobody is left in a game which ended is `IInv` after the step; and only
`Reconnect` gives an account another socket (`Replacement`).

`SessionsProof` proves, for every number of accounts, uploads and chunks, with or
without a failing disk and a quota, `TypeOK`, `UploadIsCurrent` and that `Sessions`
implements `World` (theorem `Implementation`); and, where the disk takes every write
(`~DiskFails`), `AckedSurvive`. Without that assumption the last one is false; what
is then true for every disk is `LossHasCause` (`LossSafe`). The inductive invariant
is `SInv`, a conjunction of what is true of a room (`GoodRoom`), of its file
(`GoodFile`) and of the upload (`GoodUpload`): the chunks of an upload all bear its
id, which is why a complete one is a `Whole` snapshot, and the host is of the
roster, in the room and in its file, which is why what is saved and loaded again is
a world with a host. Each action has a lemma that it preserves `SInv` and one that
maps it to a step of `World` or to none (`EnterStep`, `LeaveStep`, `CommitStep`,
`KeepStep`, `RestartStep`, ...); departures go through `LeaveFacts`, which names the
room that remains. `LossHasCause` goes action by action (`AckedStep`): a game leaves
RAM only once it is written, and a crash and the quota set what is acknowledged to
what the next reader gets; only the refusal in `enter()` takes the state from RAM
while the file is older, and only `stop()` ends the process without an excuse. On a
disk that takes every write a game in RAM always has members (`Attended`), so nobody
who is refused can drop it, every shutdown saves, and `AckedSurvive` follows.

`UdpProof` proves `WindowIsExact` for windows, limits and counters of any size.
`UInv` says that a session's window holds its highest number and, of the last
`Window` numbers, exactly the accepted ones (`Exact`); `AdvancedFacts` carries
that over a jump, where the set of distances is shifted, and over a late
number; `AcceptsFacts` draws the conclusion. The rest is that no other handler
touches the window. The other properties of Udp follow from three more parts.
`HInv`: the numbers of the challenges sent are among the accepted ones, so the
number of a new probe, which the window has just found to be new, names one
challenge and one address; hence who answers is where the challenge went
(`EndpointAnswered`), and since a key's version and stay move together, a usable
key is one of the present stay (`DataStaysInRoom`). `RInv`: the counters are what
was done (`QuotasHold`). `SentFacts`: every packet of a step has the next number of
its recipient's key (`NumbersAreFresh`).

`AdmissionProof` proves `PermitsCounted`, `TasksLimited` and `TrackerBounded`
for any set of addresses and any positive limits. They are inductive together
with finiteness (`Kept`): the limits bind the tasks because the counters which
`acquire` compares are the tasks' number; `SetActiveFacts` says what changing
one address's counter does to the others, `TrackerFacts` that the addresses kept
fit, with one more unless the tracker is full. `BurstBounded` bounds a sum, and no
bound on the whole minute is inductive: `Windows` divides the admissions of the
last minute at the age of the present window. Since that
window opened at most as many were admitted as it has attempts, and never more
than the limit, the first of them being as old as the window; before it, at most
one less than the limit, since the first attempt of the window before is already
more than a minute old. An address without a window has at most that many in the
whole minute. `WindowAges` and `NoWindowAges` carry this over a tick,
where a window may end, `AttemptWindow` over an attempt, admitted or refused.

`OutboxProof` proves `WholeStream`, `NoGhost` and `FramesMeetConnection` for
buffers, command channels and frames of any size, and in `TypeOK` that the bytes
which wait never exceed `maxBufferedBytes`. `OInv` says where the frames are:
while the task writes, `wire`, `hand` and `channel` one after the other are the
frames in their order, all that were produced unless the socket is closing, and
a Close is the last of them (`Stream`). Of the commands it says that none is
behind a `disconnect`, that a task which returned sent one last, and that
`connected` is still in front while the worker does not know the socket
(`Talk`); until the task has sent that, worker and queue are untouched
(`Unheard`). All the ways out of the task share `LeavesStep`. `QueuedExact` follows
from `OInv` with one more part (`QInv`: nothing is counted before the upgrade) by
what `Bytes` does at the two ends of a queue (`BytesAppend`, `BytesTail`): the
worker adds at one, the task subtracts at the other, and `Subtracted` never cuts
off at zero, since the frame in hand is still counted.

`FenceProof` proves `FenceIsTight`, `PendingExact` and that `Fence` implements
`Mailbox` (`MailboxImplemented`) for any accounts, sockets, rooms, limit and bound
on versions. `FenceIsTight` is not inductive: that a frame with an old version was
sent in an old stay must hold for frames which the fence stops, too. `Since`
relates what a waiting frame recorded to its sender now: version and moves have
not gone back; the same number of moves is the same room; the same version is the
same number of moves; and an older version, for one who was in a room, is an
older stay. The last is why what the sweep discards may be discarded: leaving
without a room advances the version alone. `FInv` adds that a session and its
socket name each other (`Linked`), that frames come from authenticated sockets
(`Owned`) and that `PendingExact` starts from zero (`Unused`). All steps but
`Receive` and an effective `SweepNext` are `Quiet`: every session that speaks
afterwards either lasts, with what it had waiting (`Goes`), or begins with nothing
(`Begins`). One lemma makes the invariant of that (`CalmInv`) and another the
step `End` of `Mailbox` (`QuietEnds`); `Receive` is `Put`, a frame that passes is
`Act`, one that does not `Discard`. What this needs of the queue is `KeptTail`
(the first frame of the queue is the first of its session), `KeptAppend` and
`KeptTwice` (dropping one session's frames leaves the others' as they were).

Sums, folds and recursive functions are reasoned about by induction over a set in
place of a predicate: a set that holds 0 and with every number the next one
contains all (`Inductive`, from the well-foundedness of `<` on the naturals).
With it each of the three modules proves that the recursion has a solution
(`PartialExists`, `LookedExists`), that it has one only, whatever surrounds the
part that is summed or looked at (`PartialAgrees`, `LookedAgrees`), and from these
the equations one would write down as the definition (`SumFacts`, `BytesAppend`,
`KeptAppend`). `Queues` is the same induction over queues, frame by frame.

`PushesProof` proves `InFlightExact` and `AnswersFitTokens` for any accounts,
devices, tokens and limit; `PInv` is the counter with the types, and that a batch
exists only while the task sends.

`NoticesProof` proves the three safety properties of Notices for any accounts,
events, times and lists of recipients, any number of crashes, and accounts that may be
unreadable, and assumes nothing of what hosts commit. `NInv` joins to
`SurvivesRestart` that marks are true (`MarksAreTrue`: who is marked on the list, in
a copy or in the task's job has been reached) and that copies are up to date
(`CopiesKnow`: what the list has marked, the copies of the round know as well,
except for those whom the task itself has reached; and these it has before it only
if they are named twice, `Single`). The last is why the code may look at the `done`
of its copy, taken before all awaits, without sending a notice again to anybody who
is named once: only the task marks, one job at a time, and a commit either keeps a
job with its marks or lists a new one, which has none. `RetriesOnlyFailed` follows
(`RetrySafe`). `NothingForgotten` needs `RoundTrue`: as long as no commit took a
job off the list since the round began, the job on the list has the recipients of
the copy, and everybody the task is done with has the notice, could not be read, or
is to be tried again. So a notice that the round ends has reached those it is for,
or the round is one of the two of `PassedOver` (`ForgettingSafe`).

The type invariants `TypeOK` of all these modules are theorems and therefore not in
the runs.

Every invariant, action property and refinement that a passing run checks is
also a theorem. Only model-checked is liveness (`ClosingEnds`, `FramesGoOut`,
`ThrottleEnds`, ...), which rests on fairness and `ENABLED` and is out of the
prover's reach.

## 6. Disagreements between code and documentation

* `rooms_case`: `auth()` compares the id in RAM exactly and on disk in lower
  case. A client that reconnects with its id in upper case is read from disk
  beside its own live account: two live sockets, and a room that lists an
  account which is in no room. README.md:239 promises one live socket.
* `sessions_lost`: `enter()` drops an empty persistent game from RAM when it
  refuses an entry (server.rs:458), also when RAM holds the only copy because
  the disk would not take it. README.md:25 names a process crash as what loses
  changes since the last save, README.md:22 says persistent rooms survive an
  empty roster, and `tests/cases/sessions.rs:133` tests that a disk failure
  retains the game.

Five more have a property of their own and a configuration beside the runs, which
TLC refutes within seconds (`tlc -config MCRoomsClosing.cfg MCRooms.tla` and so on);
the passing runs check what is true instead.

* `ClosingReleased` (`MCRoomsClosing.cfg`). README.md:393 says that room membership
  is released "by the next maintenance tick if the socket is still closing".
  `sweep()` (server.rs:1366) closes sockets and expires offline accounts; it never
  looks at a socket that is closing already. The member stays, as host of his room
  perhaps, until the connection task has written the Close or given up after
  `idleTimeoutMs`. That it does is `ClosingEnds` of Outbox.
* `StopSaves` (`MCSessionsStop.cfg`). README.md:24 says that a graceful shutdown
  saves active rooms, docs/deployment.md:179 that it flushes active worlds. `stop()`
  returns at the first game that cannot be written (server.rs:1415), and those behind
  it are lost although their own files could be. `LossHasCause` names this step.
* `NobodyTwice` (`MCNoticesTwice.cfg`). README.md:243 says that recipient arrays are
  unique IDs; protocol.rs:132 lets a notice repeat them. `deliver()` goes over the
  list and asks the copy it began with who is done (push.rs:151), so a device which
  has just been marked is sent the notice again for the second place in the list.
  `RetriesOnlyFailed` excepts those who are named twice, and nobody else.
* `EndsDelivered` (`MCNoticesAgain.cfg`). README.md:58 promises delivery at least
  once. A notice that a commit took off the list and a later one put back under the
  same event and time is a new job, but a round that still holds the first copy takes
  it for its own (push.rs:238): whom it passed over while the notice was off the list
  is not reached, and the job ends as delivered.
* `EndsDelivered` (`MCNoticesUnread.cfg`). A recipient who is not in RAM and whose
  file cannot be read (push.rs:140, `.ok().flatten()`) is passed over like one
  without devices; `failed` is not set, and the job ends as delivered.
  `NothingForgotten` excepts these two ways (`PassedOver`), and no other.

Others met while modelling, which no configuration shows because they lie outside
what is modelled or the documents leave room:

* docs/push.md:36 says that clients must register again after a restart; with
  a session directory `save_account` keeps devices (store.rs:92).
* A token is taken from other devices only of accounts in RAM (server.rs:1031);
  the file of one that is not keeps it.
* `maxAccounts` is not compared when an account is read back (server.rs:353).
* A crash inside `prune()` leaves notices of a game that is gone; they are
  delivered, and no quota counts them.

## 7. Not modelled

Message relays change no table and are left out of Rooms. Several games: the
order in which the quota evicts them; `stop()` is modelled for one game behind
others, of which one may fail (`fault`). Of notices and pushes: the limits of event
ids and of recipients and the 30 seconds between two requests, which refuse a
request and touch nothing else; several devices of one account, which `deliver()`
treats like several recipients, except that it reads them together.
Diagnostics and telemetry: bounded queues of records that nothing in the game
depends on.
In Udp the listener's global budget, its send timeout and its errors are lost
datagrams; keys and signatures are taken to work.
Passwords, names, metadata and message texts are abstracted: a request with
the wrong ones is refused and changes nothing. Protocol validation and
configuration are pure functions of one input. Tools, scripts and the browser
demo are not part of the server. The wall clock is not modelled: timeouts may
happen at any time.
