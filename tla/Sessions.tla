------------------------------ MODULE Sessions ------------------------------
(***************************************************************************)
(* One persistent game, from its start on: its members, the host's upload, *)
(* its file, and a disk that may stop accepting writes.  The game is the   *)
(* `Room` of rust/model.rs with started = fixed = migration = persistent   *)
(* = TRUE; the handlers run one at a time (rust/state.rs).                 *)
(*                                                                         *)
(* Abstracted: the accounts and their sockets (Rooms.tla), so a departure  *)
(* is Leave whatever its cause; notices, which no host commits here; the   *)
(* bytes of a state, which are the upload ids they arrived under; other    *)
(* games, which exist only as the reason why the quota evicts this one.    *)
(***************************************************************************)
EXTENDS Integers, FiniteSets, IndexSet

CONSTANTS
  Account,        \* account ids
  Request,        \* upload ids; each stands for one snapshot of a client
  None,           \* Rust's Option::None
  Parts,          \* the size of every snapshot, in chunks
  MaxRevision,    \* bound: commits per game
  MaxGeneration,  \* bound: changes of host per game
  DiskFails,      \* writes to the disk may fail for a while
  QuotaBinds      \* room files may exceed sessionMaxBytes

\* The chunks a state is made of, each named by the upload it came with.
Bytes == {s \in Seq(Request) : Len(s) <= Parts}
Whole(u) == [i \in 1 .. Parts |-> u]

\* The contents of the file.
Image == [players : SUBSET Account, owner : Account, generation : Nat,
          revision : Nat, state : Bytes]

ASSUME SessionsAssumption ==
  /\ None \notin Account \cup Request \cup Image
  /\ Parts \in Nat /\ MaxRevision \in Nat /\ MaxGeneration \in Nat
  /\ DiskFails \in BOOLEAN /\ QuotaBinds \in BOOLEAN

VARIABLES
  ram,     \* the game in Server.rooms
  disk,    \* its file under rooms/
  fault,   \* whose files cannot be written at the moment
  acked    \* history: the last acknowledged state that no crash or quota took

vars == <<ram, disk, fault, acked>>

\* This game's, or another's which stop() comes to before this one's: a disk
\* may be too full for one game and not for the next.
Fault == {"none", "ahead", "here"}

Upload == [id : Request, owner : Account, generation : Nat, revision : Nat,
           bytes : Bytes, stalled : BOOLEAN]
RoomState == [live : BOOLEAN, players : SUBSET Account, owner : Account \cup {None},
              generation : Nat, revision : Nat, state : Bytes,
              active : Seq(Account), upload : Upload \cup {None}]

NoRoom == [live |-> FALSE, players |-> {}, owner |-> None, generation |-> 0,
           revision |-> 0, state |-> <<>>, active |-> <<>>, upload |-> None]

TypeOK ==
  /\ ram \in RoomState
  /\ disk \in Image \cup {None}
  /\ fault \in Fault
  /\ acked \in [revision : Nat, state : Bytes] \cup {None}

Init == ram = NoRoom /\ disk = None /\ fault = "none" /\ acked = None

-----------------------------------------------------------------------------
\* The file: the header and the state, nothing of the members or the upload.

ImageOf(R) == [players |-> R.players, owner |-> R.owner,
               generation |-> R.generation, revision |-> R.revision,
               state |-> R.state]

Loaded(file) ==
  [NoRoom EXCEPT !.live = TRUE, !.players = file.players, !.owner = file.owner,
                 !.generation = file.generation, !.revision = file.revision,
                 !.state = file.state]

Ack(R) == [revision |-> R.revision, state |-> R.state]
OnDisk(file) == IF file = None THEN None ELSE Ack(file)

\* What prune() may do to a game that is not in RAM.
Evicts == IF QuotaBinds THEN BOOLEAN ELSE {FALSE}

\* keep(): an empty game is written, then dropped from RAM, and prune() may
\* remove it at once; one that cannot be written stays in RAM.
Keep(R, evicted) ==
  IF fault = "here"
  THEN ram' = R /\ UNCHANGED <<disk, acked>>
  ELSE /\ ram' = NoRoom
       /\ disk' = IF evicted THEN None ELSE ImageOf(R)
       /\ acked' = IF evicted THEN None ELSE acked

Member(p) == ram.live /\ p \in Members(ram.active)
Retained == ram.live /\ ram.active = <<>>

-----------------------------------------------------------------------------
\* Members

\* startGame {fixedRoster, hostMigration, persistent} by the first of a
\* room's members; the room may have changed hosts before.
StartGame(active, generation) ==
  /\ ~ram.live /\ disk = None
  /\ generation + Len(active) <= MaxGeneration
  /\ ram' = [NoRoom EXCEPT !.live = TRUE, !.players = Members(active),
                           !.owner = active[1], !.active = active,
                           !.generation = generation]
  /\ acked' = [revision |-> 0, state |-> <<>>]
  /\ UNCHANGED <<disk, fault>>

\* The game p can enter: in RAM, or read from its file.
Game == IF ram.live THEN ram ELSE Loaded(disk)

\* enter(): whoever finds the game empty is its host, with a new generation;
\* the roster always has room (its size is at most maxPlayers).
Enter(p) ==
  /\ ram.live \/ disk # None
  /\ ~Member(p) /\ p \in Game.players
  /\ Game.generation + Len(Game.active) < MaxGeneration
  /\ ram' = IF Game.active = <<>>
            THEN [Game EXCEPT !.owner = p, !.generation = @ + 1, !.upload = None,
                              !.active = <<p>>]
            ELSE [Game EXCEPT !.active = Append(@, p)]
  /\ UNCHANGED <<disk, fault, acked>>

\* enter() refuses an account outside the roster, and drops the game it found
\* empty from RAM.
EnterRefused(p) ==
  /\ p \notin ram.players
  /\ Retained
  /\ ram' = NoRoom
  /\ UNCHANGED <<disk, fault, acked>>

\* Mutant of Leave: the host's upload outlives his stay.
LeaveUploading(p, evicted) ==
  LET rest == ShiftRemove(ram.active, p)
      R == [ram EXCEPT
              !.active = rest,
              !.owner = IF rest # <<>> /\ @ = p THEN rest[1] ELSE @,
              !.generation = IF rest # <<>> /\ ram.owner = p THEN @ + 1 ELSE @]
  IN
  /\ Member(p)
  /\ IF rest = <<>> THEN Keep(R, evicted)
     ELSE ram' = R /\ UNCHANGED <<disk, acked>>
  /\ UNCHANGED fault

\* leave(): a request, a lost socket or another login.
Leave(p, evicted) ==
  LET rest == ShiftRemove(ram.active, p)
      R == [ram EXCEPT
              !.active = rest,
              !.upload = IF @ # None /\ @.owner = p THEN None ELSE @,
              !.owner = IF rest # <<>> /\ @ = p THEN rest[1] ELSE @,
              !.generation = IF rest # <<>> /\ ram.owner = p THEN @ + 1 ELSE @]
  IN
  /\ Member(p)
  /\ IF rest = <<>> THEN Keep(R, evicted)
     ELSE ram' = R /\ UNCHANGED <<disk, acked>>
  /\ UNCHANGED fault

-----------------------------------------------------------------------------
\* The host's upload

\* The revision and generation of the request are the game's own; another
\* request changes nothing.
BeginSession(p, u) ==
  /\ Member(p) /\ ram.owner = p
  /\ ram' = [ram EXCEPT !.upload =
               [id |-> u, owner |-> p, generation |-> ram.generation,
                revision |-> ram.revision, bytes |-> <<>>, stalled |-> FALSE]]
  /\ UNCHANGED <<disk, fault, acked>>

\* Mutant of Fits: another upload's chunk is taken.
FitsAnyId(p, u, offset, n) ==
  /\ ram.upload.owner = p /\ ram.owner = p
  /\ ram.upload.generation = ram.generation
  /\ offset = Len(ram.upload.bytes)
  /\ offset + n <= Parts

\* upload(): the conditions on a chunk of n parts.
Fits(p, u, offset, n) ==
  /\ ram.upload.id = u
  /\ ram.upload.owner = p /\ ram.owner = p
  /\ ram.upload.generation = ram.generation
  /\ offset = Len(ram.upload.bytes)
  /\ offset + n <= Parts

Extended(upload, u, n) ==
  [upload EXCEPT !.bytes = @ \o [i \in 1 .. n |-> u], !.stalled = FALSE]

\* A chunk extends the upload or, if it does not fit, ends it; any member may
\* send one.
UploadChunk(p, u, offset, n) ==
  /\ Member(p) /\ ram.upload # None
  /\ ram' = [ram EXCEPT !.upload =
               IF Fits(p, u, offset, n)
               THEN Extended(@, u, n)
               ELSE None]
  /\ UNCHANGED <<disk, fault, acked>>

\* A complete upload becomes the state, in RAM; a refused commit changes
\* nothing.
CommitSession(p, u) ==
  /\ Member(p) /\ ram.owner = p /\ ram.upload # None
  /\ ram.upload.id = u /\ ram.upload.owner = p
  /\ ram.upload.generation = ram.generation /\ ram.upload.revision = ram.revision
  /\ Len(ram.upload.bytes) = Parts
  /\ ram.revision < MaxRevision
  /\ ram' = [ram EXCEPT !.state = ram.upload.bytes, !.revision = @ + 1, !.upload = None]
  /\ acked' = [revision |-> ram.revision + 1, state |-> ram.upload.bytes]
  /\ UNCHANGED <<disk, fault>>

-----------------------------------------------------------------------------
\* Time, maintenance, the disk and the process

\* 30 seconds pass without a chunk.
Stall ==
  /\ ram.upload # None /\ ~ram.upload.stalled
  /\ ram' = [ram EXCEPT !.upload.stalled = TRUE]
  /\ UNCHANGED <<disk, fault, acked>>

\* Mutants of Sweep: no second attempt to write; uploads never expire.
SweepWithoutRetry(evicted) ==
  /\ ram.live
  /\ ram' = [ram EXCEPT !.upload = IF @ # None /\ @.stalled THEN None ELSE @]
  /\ UNCHANGED <<disk, fault, acked>>
SweepWithoutExpiry(evicted) ==
  /\ ram.live
  /\ IF ram.active = <<>> THEN Keep(ram, evicted)
     ELSE UNCHANGED <<ram, disk, acked>>
  /\ UNCHANGED fault

\* The maintenance tick ends a stalled upload and tries again to write a game
\* that is still in RAM without members.
Sweep(evicted) ==
  LET R == [ram EXCEPT !.upload = IF @ # None /\ @.stalled THEN None ELSE @] IN
  /\ ram.live
  /\ IF ram.active = <<>> THEN Keep(R, evicted)
     ELSE ram' = R /\ UNCHANGED <<disk, acked>>
  /\ UNCHANGED fault

\* Another game is kept, and the quota takes this one, which is asleep.
Prune ==
  /\ QuotaBinds /\ ~ram.live /\ disk # None
  /\ disk' = None /\ acked' = None
  /\ UNCHANGED <<ram, fault>>

DiskBreaks ==
  /\ DiskFails /\ fault = "none"
  /\ fault' \in {"ahead", "here"}
  /\ UNCHANGED <<ram, disk, acked>>
DiskWorks == fault # "none" /\ fault' = "none" /\ UNCHANGED <<ram, disk, acked>>

\* The process starts again and finds `file`, which prune() may remove; what
\* was acknowledged is `kept` at most.
Restarted(file, kept, evicted) ==
  /\ ram' = NoRoom
  /\ disk' = IF evicted THEN None ELSE file
  /\ acked' = IF evicted THEN None ELSE kept
  /\ UNCHANGED fault

Crash(evicted) == Restarted(disk, OnDisk(disk), evicted)

\* Mutant of Shutdown: only games without members are written.
ShutdownIdleOnly(evicted) ==
  Restarted(IF Retained /\ fault = "none" THEN ImageOf(ram) ELSE disk, acked, evicted)

\* stop() writes the games in RAM, with or without members, up to the first
\* that the disk refuses.
Shutdown(evicted) ==
  Restarted(IF ram.live /\ fault = "none" THEN ImageOf(ram) ELSE disk, acked, evicted)

SomeSweep == \E evicted \in Evicts : Sweep(evicted)

Next ==
  \/ \E n \in 1 .. Cardinality(Account) : \E active \in [1 .. n -> Account] :
       Distinct(active) /\ \E generation \in 0 .. 1 : StartGame(active, generation)
  \/ \E p \in Account :
       \/ Enter(p)
       \/ EnterRefused(p)
       \/ \E evicted \in Evicts : Leave(p, evicted)
       \/ \E u \in Request :
            \/ BeginSession(p, u)
            \/ \E offset \in 0 .. Parts, n \in 1 .. Parts : UploadChunk(p, u, offset, n)
            \/ CommitSession(p, u)
  \/ Stall
  \/ SomeSweep
  \/ Prune
  \/ DiskBreaks
  \/ DiskWorks
  \/ \E evicted \in Evicts : Crash(evicted) \/ Shutdown(evicted)

Spec == Init /\ [][Next]_vars

\* The maintenance timer fires.
FairSpec == Spec /\ WF_vars(SomeSweep)

-----------------------------------------------------------------------------
\* Properties

\* The upload in progress is always the present host's, at the present
\* generation and revision: departures, changes of host, commits, restarts
\* and returns leave no upload behind that a later commit could pick up.
UploadIsCurrent ==
  ram.upload # None =>
    /\ Member(ram.upload.owner)
    /\ ram.upload.owner = ram.owner
    /\ ram.upload.generation = ram.generation
    /\ ram.upload.revision = ram.revision

\* What commitSession acknowledged is what the next reader gets, through
\* departures, changes of host, saving, loading and shutdowns, unless a crash
\* or the quota took it.
AckedSurvive == acked = IF ram.live THEN Ack(ram) ELSE OnDisk(disk)

Stops == \E evicted \in Evicts : Shutdown(evicted)

\* Only two steps part the next reader from what was acknowledged: a refused
\* entry that drops a game the disk would not take (enter), and a shutdown
\* while the disk does not take every game (stop).  Departures, retries, a disk
\* that fails and recovers, and a shutdown on a disk that works never do.
LossHasCause ==
  [][AckedSurvive => \/ AckedSurvive'
                     \/ \E p \in Account : EnterRefused(p)
                     \/ fault # "none" /\ Stops]_vars

\* README.md:25: only the end of the process loses what was acknowledged since
\* the last save.  A game that could not be saved stays in RAM (keep).
LostOnlyWithProcess == [][AckedSurvive => AckedSurvive' \/ Stops]_vars

\* README.md:24: a graceful shutdown saves active rooms, at least those whose
\* own files can be written.  stop() returns at the first that cannot, and
\* MCSessionsStop.cfg refutes this.
StopSaves == [][AckedSurvive /\ fault # "here" /\ Stops => AckedSurvive']_vars

\* The game as World.tla sees it: in RAM if it is there, otherwise its file.
Abstract == INSTANCE World WITH
  Snapshot <- {Whole(u) : u \in Request}, Empty <- <<>>, Gone <- None,
  current <- IF ram.live THEN ImageOf(ram) ELSE disk, saved <- disk

\* The server implements World: only complete uploads become the state, one
\* revision at a time; every change of host has its own generation; RAM is
\* left only for a copy that is saved.
ImplementsWorld == Abstract!Spec

\* A game the disk would not take is written once the disk takes writes
\* again: the retry of every maintenance tick.
RetryWorks == <>[](fault # "here") => (Retained ~> ~Retained)

\* An upload nobody continues does not stay: the tick ends it after 30 s.
StalledUploadEnds ==
  ram.upload # None /\ ram.upload.stalled ~>
    ~(ram.upload # None /\ ram.upload.stalled)
=============================================================================
