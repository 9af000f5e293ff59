------------------------------- MODULE Outbox -------------------------------
(***************************************************************************)
(* One transport: its task (rust/main.rs, connection), the queue of frames *)
(* the worker thread fills and the task empties (rust/server.rs, raw), and *)
(* the channel of commands from the task to the worker (rust/state.rs).    *)
(*                                                                         *)
(* A handler may queue frames for the transport at any time; the task runs *)
(* beside it on other threads.  Frames are numbered in the order in which  *)
(* handlers produce them.  A timeout may end at any time.  What frames say *)
(* and what a handler does with one is Rooms, Sessions and the rest.       *)
(***************************************************************************)
EXTENDS Integers, Sequences, SequencesExt

CONSTANTS
  None,
  Sizes,        \* sizes of frames, headers included
  MaxBuffered,  \* maxBufferedBytes
  Capacity,     \* of the command channel (256)
  MaxFrames     \* bound: frames the handlers produce

Frame == [no : 0 .. MaxFrames, size : Sizes, close : BOOLEAN]
Command == {"connected", "frame", "ping", "disconnect"}
Post == [command : Command, then : {"open", "answer", "drain", "gone"}]

ASSUME OutboxAssumption ==
  /\ MaxBuffered \in Nat /\ Capacity \in Nat \ {0} /\ MaxFrames \in Nat
  /\ Sizes \subseteq 1 .. MaxBuffered      \* Server::fits
  /\ None \notin Frame \cup Post

VARIABLES
  task,       \* where the task is
  post,       \* the command it waits to send, and what it does then
  commands,   \* commands of the task the worker has not run
  known,      \* the worker has a Connection
  closing,    \* Connection.closing
  aborted,    \* the watch Connection.abort
  queued,     \* Connection.queued, shared by worker and task
  channel,    \* Connection.tx
  hand,       \* the frame being written
  stopping,   \* the watch of main, set once
  produced,   \* number of the last frame produced
  wire        \* what the peer can read

server == <<known, closing, aborted, produced>>
vars == <<task, post, commands, server, queued, channel, hand, stopping, wire>>

Over == {"gone", "killed"}

TypeOK ==
  /\ task \in {"handshake", "posting", "open", "answer", "writing", "drain"} \cup Over
  /\ post \in Post \cup {None} /\ (task = "posting" => post # None)
  /\ commands \in Seq(Command) /\ Len(commands) <= Capacity
  /\ known \in BOOLEAN /\ closing \in BOOLEAN /\ aborted \in BOOLEAN
  /\ queued \in 0 .. MaxBuffered
  /\ channel \in Seq(Frame) /\ hand \in Frame \cup {None}
  /\ stopping \in BOOLEAN /\ produced \in 0 .. MaxFrames
  /\ wire \in Seq([no : 0 .. MaxFrames, close : BOOLEAN])

Init ==
  /\ task = "handshake" /\ post = None /\ commands = <<>>
  /\ known = FALSE /\ closing = FALSE /\ aborted = FALSE
  /\ queued = 0 /\ channel = <<>> /\ hand = None
  /\ stopping = FALSE /\ produced = 0 /\ wire = <<>>

-----------------------------------------------------------------------------
(* The worker: Server::raw, called by any handler for a socket it knows.   *)
(* A socket that is closing gets nothing, which is not a step.             *)

Produce == known /\ ~closing /\ produced < MaxFrames /\ produced' = produced + 1

QueueFrame(size, close) ==
  /\ Produce
  /\ queued + size <= MaxBuffered
  /\ closing' = close
  /\ IF task \in Over                 \* the receiver is dropped: send fails
     THEN UNCHANGED <<queued, channel>>
     ELSE /\ queued' = queued + size
          /\ channel' = Append(channel, [no |-> produced', size |-> size, close |-> close])
  /\ UNCHANGED <<task, post, commands, known, aborted, hand, stopping, wire>>

\* Mutant: a frame that does not fit is skipped.
OverflowSkipping(size) ==
  /\ Produce
  /\ queued + size > MaxBuffered
  /\ UNCHANGED <<task, post, commands, known, closing, aborted, queued, channel,
                 hand, stopping, wire>>

Overflow(size) ==
  /\ Produce
  /\ queued + size > MaxBuffered
  /\ closing' = TRUE /\ aborted' = TRUE
  /\ UNCHANGED <<task, post, commands, known, queued, channel, hand, stopping, wire>>

(* The worker: the commands of this task, in turn.  Frames which receive   *)
(* finds for a closing socket are dropped there.                           *)

RunCommand ==
  /\ commands # <<>>
  /\ commands' = Tail(commands)
  /\ known' = CASE Head(commands) = "connected" -> TRUE
                [] Head(commands) = "disconnect" -> FALSE
                [] OTHER -> known
  /\ UNCHANGED <<task, post, closing, aborted, produced, queued, channel, hand,
                 stopping, wire>>

-----------------------------------------------------------------------------
(* The task. *)

Waits(command, then) ==
  task' = "posting" /\ post' = [command |-> command, then |-> then]

\* Out of the loop: disconnect, then return.
Leaves == Waits("disconnect", "gone") /\ hand' = None

\* TCP and HTTP are read, the upgrade is accepted.
Upgrade ==
  /\ task = "handshake" /\ Waits("connected", "open")
  /\ UNCHANGED <<commands, server, queued, channel, hand, stopping, wire>>

\* A health check, a refused or malformed upgrade, authTimeoutMs.
NoUpgrade ==
  /\ task = "handshake" /\ task' = "gone"
  /\ UNCHANGED <<post, commands, server, queued, channel, hand, stopping, wire>>

\* Shared::apply has found room in the command channel.
Posted ==
  /\ task = "posting" /\ Len(commands) < Capacity
  /\ commands' = Append(commands, post.command)
  /\ task' = post.then /\ post' = None
  /\ channel' = IF post.then = "gone" THEN <<>> ELSE channel
  /\ UNCHANGED <<server, queued, hand, stopping, wire>>

\* The branches of the select, which is biased: each is guarded by the
\* absence of those before it.
SeeAbort ==
  /\ task = "open" /\ aborted
  /\ Leaves
  /\ UNCHANGED <<commands, server, queued, channel, stopping, wire>>

SeeShutdown(written) ==
  /\ task = "open" /\ ~aborted /\ stopping
  /\ Leaves
  /\ wire' = IF written THEN Append(wire, [no |-> 0, close |-> TRUE]) ELSE wire
  /\ UNCHANGED <<commands, server, queued, channel, stopping>>

TakeFrame ==
  /\ task = "open" /\ ~aborted /\ ~stopping /\ channel # <<>>
  /\ task' = "writing" /\ hand' = Head(channel) /\ channel' = Tail(channel)
  /\ UNCHANGED <<post, commands, server, queued, stopping, wire>>

\* Mutant: the select reads input before it looks at abort and output.
IdleUnbiased == task = "open"

Idle == task = "open" /\ ~aborted /\ ~stopping /\ channel = <<>>

\* A data frame is posted; a ping's handler is waited for as well.
Incoming ==
  /\ Idle
  /\ Waits("frame", "open") \/ Waits("ping", "answer")
  /\ UNCHANGED <<commands, server, queued, channel, hand, stopping, wire>>

Answered ==
  /\ task = "answer" /\ ~Contains(commands, "ping")
  /\ task' = "open"
  /\ UNCHANGED <<post, commands, server, queued, channel, hand, stopping, wire>>

\* The end of the stream, an error on it or the peer's Close.
PeerEnds ==
  /\ Idle
  /\ Leaves
  /\ UNCHANGED <<commands, server, queued, channel, stopping, wire>>

\* Mutant: the header of a frame is added but not subtracted.
SubtractedPayload == queued - (hand.size - 1)

Subtracted == IF queued > hand.size THEN queued - hand.size ELSE 0

\* Mutant: the task goes on after a Close.
WrittenGoingOn ==
  /\ task = "writing"
  /\ wire' = Append(wire, [no |-> hand.no, close |-> hand.close])
  /\ queued' = Subtracted /\ hand' = None
  /\ IF hand.close THEN Waits("disconnect", "open")
                   ELSE task' = "open" /\ post' = post
  /\ UNCHANGED <<commands, server, channel, stopping>>

Written ==
  /\ task = "writing"
  /\ wire' = Append(wire, [no |-> hand.no, close |-> hand.close])
  /\ queued' = Subtracted /\ hand' = None
  /\ IF hand.close THEN Waits("disconnect", "drain")
                   ELSE task' = "open" /\ post' = post
  /\ UNCHANGED <<commands, server, channel, stopping>>

\* An error, or idleTimeoutMs.
\* Mutants: a failed write returns from the task at once; it is ignored.
WriteFailsReturning ==
  /\ task = "writing"
  /\ queued' = Subtracted /\ hand' = None
  /\ task' = "gone" /\ channel' = <<>>
  /\ UNCHANGED <<post, commands, server, stopping, wire>>

WriteFailsGoingOn ==
  /\ task = "writing"
  /\ queued' = Subtracted /\ hand' = None
  /\ task' = "open"
  /\ UNCHANGED <<post, commands, server, channel, stopping, wire>>

WriteFails ==
  /\ task = "writing"
  /\ queued' = Subtracted
  /\ Leaves
  /\ UNCHANGED <<commands, server, channel, stopping, wire>>

WriteInterrupted ==
  /\ task = "writing" /\ (aborted \/ stopping)
  /\ Leaves
  /\ UNCHANGED <<commands, server, queued, channel, stopping, wire>>

\* The peer has closed its side, or shutdownTimeoutMs.
Drained ==
  /\ task = "drain"
  /\ Leaves
  /\ UNCHANGED <<commands, server, queued, channel, stopping, wire>>

-----------------------------------------------------------------------------
(* main: the stop signal, and abort_all once the tasks had their time. *)

Stop ==
  /\ ~stopping /\ stopping' = TRUE
  /\ UNCHANGED <<task, post, commands, server, queued, channel, hand, wire>>

Kill ==
  /\ stopping /\ task \notin Over
  /\ task' = "killed" /\ post' = None /\ channel' = <<>> /\ hand' = None
  /\ UNCHANGED <<commands, server, queued, stopping, wire>>

-----------------------------------------------------------------------------
Writes == Written \/ WriteFails \/ WriteInterrupted
Closes == SeeAbort \/ \E written \in BOOLEAN : SeeShutdown(written)

Next ==
  \/ \E size \in Sizes, close \in BOOLEAN : QueueFrame(size, close)
  \/ \E size \in Sizes : Overflow(size)
  \/ RunCommand
  \/ Upgrade \/ NoUpgrade \/ Posted \/ Closes \/ TakeFrame \/ Incoming
  \/ Answered \/ PeerEnds \/ Writes \/ Drained
  \/ Stop \/ Kill

Spec == Init /\ [][Next]_vars

\* The worker and the executor run what is ready, a write and a drain have a
\* timeout.  Nothing is assumed of the peer, of the handlers or of main.
FairSpec ==
  /\ Spec
  /\ WF_vars(RunCommand) /\ WF_vars(Posted) /\ WF_vars(Closes)
  /\ WF_vars(TakeFrame) /\ WF_vars(Answered) /\ WF_vars(Writes) /\ WF_vars(Drained)

-----------------------------------------------------------------------------
\* The task still writes what it is given.
Serving ==
  \/ task \in {"open", "answer", "writing"}
  \/ task = "posting" /\ post.then \in {"open", "answer"}

Bytes(frames) == FoldLeft(LAMBDA sum, f : sum + f.size, 0, frames)

(* Two threads add to and subtract from the count, and on four paths a     *)
(* frame fails; still it is the bytes which wait, and these are bounded    *)
(* (the bound itself is in TypeOK).                                        *)
QueuedExact ==
  Serving => queued = Bytes(channel) + (IF hand = None THEN 0 ELSE hand.size)

(* A peer reads the frames in order with none missing and nothing behind a *)
(* Close: a frame that does not fit ends the transport, it is not skipped. *)
WholeStream ==
  \A i \in DOMAIN wire :
    /\ wire[i].no \in {i, 0}
    /\ wire[i].close => i = Len(wire)

(* No socket stays behind in the worker: a task that returned has told it, *)
(* whichever way it left, also when `connected` has not yet been run.      *)
NoGhost ==
  task = "gone" /\ (known \/ Contains(commands, "connected"))
    => commands # <<>> /\ Last(commands) = "disconnect"

(* The worker is given frames of a transport only while it knows it:       *)
(* behind its `connected` and never behind its `disconnect`.               *)
FramesMeetConnection ==
  \A i \in DOMAIN commands : commands[i] \in {"frame", "ping"} =>
    /\ known \/ commands[1] = "connected"
    /\ \A j \in 1 .. i : commands[j] # "disconnect"

(* A socket marked closing is disconnected (until then its account cannot  *)
(* be expired), whatever its peer sends or leaves unread meanwhile.        *)
ClosingEnds == closing ~> (~known \/ task = "killed")

(* A frame is written, or the transport ends: a peer that keeps sending    *)
(* does not hold up what it is to read.                                    *)
FramesGoOut ==
  \A n \in 1 .. MaxFrames : (produced >= n) ~> (Len(wire) >= n \/ task \in Over)
=============================================================================
