----------------------------- MODULE OutboxProof -----------------------------
(***************************************************************************)
(* Proofs about Outbox: its types, that the peer reads a whole stream,     *)
(* that the worker is told of a transport in the right order, and that the *)
(* count of the bytes which wait is exact.                                 *)
(***************************************************************************)
EXTENDS Outbox, WellFoundedInduction, TLAPS

\* Before the worker has heard of the transport.
Connecting == task = "handshake" \/ (task = "posting" /\ post.command = "connected")
Unheard ==
  ~known /\ ~closing /\ produced = 0 /\ commands = <<>> /\ channel = <<>> /\ wire = <<>>

\* What a task waits for, and when it holds a frame.
Shape ==
  /\ task = "posting" <=> post # None
  /\ task = "writing" <=> hand # None
  /\ task = "posting" =>
       /\ post.command \in {"connected", "frame"} => post.then = "open"
       /\ post.command = "ping" => post.then = "answer"
       /\ post.command = "disconnect" => post.then \in {"drain", "gone"}
  /\ Connecting => Unheard

\* As long as the task writes, wire, hand and channel together are the frames
\* in their order; a Close is the last of them.
Held == IF hand = None THEN 0 ELSE 1
Stream ==
  Serving =>
    /\ \A i \in DOMAIN wire : wire[i].no = i /\ ~wire[i].close
    /\ hand # None => hand.no = Len(wire) + 1 /\ (hand.close => channel = <<>>)
    /\ \A i \in DOMAIN channel :
         channel[i].no = Len(wire) + Held + i /\ (channel[i].close => i = Len(channel))
    /\ ~closing =>
         /\ produced = Len(wire) + Held + Len(channel)
         /\ hand # None => ~hand.close
         /\ \A i \in DOMAIN channel : ~channel[i].close

\* What the worker is told: nothing behind a disconnect, and that at the end.
Talk ==
  /\ Serving => \A i \in DOMAIN commands : commands[i] # "disconnect"
  /\ Serving /\ ~Connecting => known \/ (commands # <<>> /\ commands[1] = "connected")
  /\ task = "gone" => IF commands = <<>> THEN ~known
                      ELSE commands[Len(commands)] = "disconnect"

OInv == TypeOK /\ Shape /\ WholeStream /\ Stream /\ FramesMeetConnection /\ Talk

-----------------------------------------------------------------------------
LEMMA InitOInv == Init => OInv
<1> SUFFICES ASSUME Init PROVE OInv
  OBVIOUS
<1>1. TypeOK
  <2>1. 0 \in 0 .. MaxBuffered /\ 0 \in 0 .. MaxFrames /\ 0 <= Capacity
    BY OutboxAssumption
  <2>2. (\A S : <<>> \in Seq(S)) /\ Len(<<>>) = 0
    OBVIOUS
  <2>3. task \in {"handshake", "posting", "open", "answer", "writing", "drain"} \cup Over
        /\ post \in Post \cup {None} /\ task # "posting"
    BY DEF Init
  <2>4. commands \in Seq(Command) /\ Len(commands) <= Capacity
    BY <2>1, <2>2 DEF Init
  <2>5. /\ known \in BOOLEAN /\ closing \in BOOLEAN /\ aborted \in BOOLEAN
        /\ stopping \in BOOLEAN /\ hand \in Frame \cup {None}
        /\ channel \in Seq(Frame) /\ wire \in Seq([no : 0 .. MaxFrames, close : BOOLEAN])
    BY <2>2 DEF Init
  <2>6. queued \in 0 .. MaxBuffered /\ produced \in 0 .. MaxFrames
    BY <2>1 DEF Init
  <2>7. QED BY <2>3, <2>4, <2>5, <2>6 DEF TypeOK
<1>2. QED
  BY <1>1 DEF Init, OInv, Shape, Connecting, Unheard, WholeStream, Stream, Serving,
              FramesMeetConnection, Talk

\* Steps of the worker.
LEMMA QueueFrameStep ==
  ASSUME OInv, NEW size \in Sizes, NEW close \in BOOLEAN, QueueFrame(size, close)
  PROVE  OInv'
<1> DEFINE f == [no |-> produced', size |-> size, close |-> close]
<1>1. /\ known /\ ~closing /\ produced < MaxFrames /\ produced' = produced + 1
      /\ closing' = close /\ queued + size <= MaxBuffered
      /\ UNCHANGED <<task, post, commands, known, aborted, hand, stopping, wire>>
  BY DEF QueueFrame, Produce
<1>2. produced' \in 0 .. MaxFrames /\ f \in Frame
  BY <1>1, OutboxAssumption DEF OInv, TypeOK, Frame
<1>3. /\ queued' \in 0 .. MaxBuffered /\ channel' \in Seq(Frame)
      /\ channel' = channel \/ channel' = Append(channel, f)
      /\ task \notin Over => channel' = Append(channel, f)
  <2>1. CASE task \in Over
    BY <2>1 DEF QueueFrame, OInv, TypeOK
  <2>2. CASE task \notin Over
    <3>1. channel' = Append(channel, f) /\ queued' = queued + size
      BY <2>2 DEF QueueFrame
    <3> HIDE DEF f
    <3>2. queued' \in 0 .. MaxBuffered
      BY <1>1, <3>1, OutboxAssumption DEF OInv, TypeOK
    <3>3. QED BY <1>2, <3>1, <3>2 DEF OInv, TypeOK
  <2>3. QED BY <2>1, <2>2
<1>4. TypeOK'
  BY <1>1, <1>2, <1>3 DEF OInv, TypeOK
<1>5. Shape'
  BY <1>1 DEF OInv, Shape, Connecting, Unheard
<1>6. WholeStream' /\ FramesMeetConnection' /\ Talk'
  BY <1>1 DEF OInv, WholeStream, FramesMeetConnection, Talk, Serving, Connecting
<1>7. ASSUME Serving PROVE Stream'
  <2>1. channel' = Append(channel, f) /\ channel \in Seq(Frame) /\ produced \in Nat
    BY <1>3, <1>7 DEF OInv, TypeOK, Serving, Over
  <2>2. f.no = Len(wire) + Held + Len(channel) + 1 /\ f.close = close
    BY <1>1, <1>7 DEF OInv, Stream
  <2> HIDE DEF f
  <2>3. /\ Len(channel') = Len(channel) + 1 /\ channel'[Len(channel) + 1] = f
        /\ \A i \in 1 .. Len(channel) : channel'[i] = channel[i]
        /\ DOMAIN channel' = 1 .. Len(channel) + 1 /\ DOMAIN channel = 1 .. Len(channel)
    BY <1>2, <2>1
  <2>4. Held' = Held /\ Len(wire') = Len(wire) /\ Held \in {0, 1} /\ Len(wire) \in Nat
    BY <1>1 DEF Held, OInv, TypeOK
  <2>5. /\ \A i \in DOMAIN wire : wire[i].no = i /\ ~wire[i].close
        /\ hand # None => hand.no = Len(wire) + 1 /\ ~hand.close
        /\ \A i \in DOMAIN channel : channel[i].no = Len(wire) + Held + i /\ ~channel[i].close
        /\ produced = Len(wire) + Held + Len(channel)
    BY <1>1, <1>7 DEF OInv, Stream
  <2>6. ASSUME NEW i \in DOMAIN channel'
        PROVE  /\ channel'[i].no = Len(wire) + Held + i
               /\ channel'[i].close => i = Len(channel')
               /\ ~close => ~channel'[i].close
    <3>1. CASE i \in DOMAIN channel
      BY <2>3, <2>5, <3>1
    <3>2. CASE i = Len(channel) + 1
      BY <2>1, <2>2, <2>3, <2>4, <3>2
    <3>3. QED BY <2>1, <2>3, <3>1, <3>2
  <2>7. QED BY <1>1, <2>1, <2>3, <2>4, <2>5, <2>6 DEF Stream
<1>8. QED BY <1>1, <1>4, <1>5, <1>6, <1>7 DEF OInv, Stream, Serving

LEMMA OverflowStep ==
  ASSUME OInv, NEW size \in Sizes, Overflow(size)
  PROVE  OInv'
<1>1. /\ known /\ produced < MaxFrames /\ produced' = produced + 1 /\ closing' = TRUE
      /\ aborted' = TRUE
      /\ UNCHANGED <<task, post, commands, known, queued, channel, hand, stopping, wire>>
  BY DEF Overflow, Produce
<1>2. TypeOK'
  <2>1. produced' \in 0 .. MaxFrames
    BY <1>1, OutboxAssumption DEF OInv, TypeOK
  <2>2. QED BY <1>1, <2>1 DEF OInv, TypeOK
<1>3. Shape'
  BY <1>1 DEF OInv, Shape, Connecting, Unheard
<1>4. WholeStream' /\ FramesMeetConnection' /\ Talk'
  BY <1>1 DEF OInv, WholeStream, FramesMeetConnection, Talk, Serving, Connecting
<1>5. Stream'
  BY <1>1 DEF OInv, Stream, Serving, Held
<1>6. QED BY <1>2, <1>3, <1>4, <1>5 DEF OInv

LEMMA RunCommandStep ==
  ASSUME OInv, RunCommand
  PROVE  OInv'
<1> DEFINE n == Len(commands)
<1>1. /\ commands # <<>> /\ commands' = Tail(commands)
      /\ known' = CASE commands[1] = "connected" -> TRUE
                    [] commands[1] = "disconnect" -> FALSE
                    [] OTHER -> known
      /\ UNCHANGED <<task, post, closing, aborted, produced, queued, channel, hand, stopping, wire>>
  BY DEF RunCommand
<1>2. commands \in Seq(Command) /\ n \in Nat /\ n <= Capacity /\ Capacity \in Nat
  BY OutboxAssumption DEF OInv, TypeOK
<1>3. /\ n > 0 /\ commands' \in Seq(Command) /\ Len(commands') = n - 1
      /\ \A i \in 1 .. n - 1 : commands'[i] = commands[i + 1]
      /\ DOMAIN commands' = 1 .. n - 1 /\ DOMAIN commands = 1 .. n
  BY <1>1, <1>2
<1>4. TypeOK'
  <2>1. known' \in BOOLEAN
    BY <1>1 DEF OInv, TypeOK
  <2>2. Len(commands') <= Capacity
    BY <1>2, <1>3
  <2>3. QED BY <1>1, <1>3, <2>1, <2>2 DEF OInv, TypeOK
<1>5. ~Connecting
  BY <1>1 DEF OInv, Shape, Unheard
<1>6. Shape'
  BY <1>1, <1>5 DEF OInv, Shape, Connecting
<1>7. WholeStream' /\ Stream'
  BY <1>1 DEF OInv, WholeStream, Stream, Serving, Held
<1>8. FramesMeetConnection'
  <2> SUFFICES ASSUME NEW i \in 1 .. n - 1, commands'[i] \in {"frame", "ping"}
               PROVE  known' /\ \A j \in 1 .. i : commands'[j] # "disconnect"
    BY <1>3 DEF FramesMeetConnection
  <2>1. i + 1 \in DOMAIN commands /\ commands[i + 1] \in {"frame", "ping"}
    BY <1>2, <1>3
  <2>2. /\ known \/ commands[1] = "connected"
        /\ \A j \in 1 .. i + 1 : commands[j] # "disconnect"
    BY <2>1 DEF OInv, FramesMeetConnection
  <2>3. known'
    BY <1>1, <1>2, <2>2
  <2>4. ASSUME NEW j \in 1 .. i PROVE commands'[j] # "disconnect"
    BY <1>2, <1>3, <2>2
  <2>5. QED BY <2>3, <2>4
<1>9. Talk'
  <2>1. Serving' = Serving /\ Connecting' = Connecting
    BY <1>1 DEF Serving, Connecting
  <2>2. ASSUME Serving
        PROVE  known' /\ \A j \in 1 .. n - 1 : commands'[j] # "disconnect"
    <3>1. \A j \in 1 .. n : commands[j] # "disconnect"
      BY <1>3, <2>2 DEF OInv, Talk
    <3>2. known \/ commands[1] = "connected"
      BY <1>5, <2>2 DEF OInv, Talk
    <3>3. commands[1] # "disconnect"
      BY <1>2, <1>3, <3>1
    <3>4. known'
      BY <1>1, <3>2, <3>3
    <3>5. ASSUME NEW j \in 1 .. n - 1 PROVE commands'[j] # "disconnect"
      BY <1>2, <1>3, <3>1
    <3>6. QED BY <3>4, <3>5
  <2>3. ASSUME task = "gone"
        PROVE  IF commands' = <<>> THEN ~known' ELSE commands'[Len(commands')] = "disconnect"
    <3>1. commands[n] = "disconnect"
      BY <1>1, <2>3 DEF OInv, Talk
    <3>2. CASE n = 1
      BY <1>1, <1>3, <3>1, <3>2
    <3>3. CASE n > 1
      <4>1. n - 1 \in 1 .. n - 1 /\ commands'[n - 1] = commands[n]
        BY <1>2, <1>3, <3>3
      <4>2. QED BY <1>3, <3>1, <3>3, <4>1
    <3>4. QED BY <1>2, <1>3, <3>2, <3>3
  <2>4. QED BY <1>1, <1>3, <2>1, <2>2, <2>3 DEF Talk
<1>10. QED BY <1>4, <1>6, <1>7, <1>8, <1>9 DEF OInv

-----------------------------------------------------------------------------
\* Steps of the task.

LEMMA PostedStep ==
  ASSUME OInv, Posted
  PROVE  OInv'
<1> DEFINE n == Len(commands)
<1>1. /\ task = "posting" /\ n < Capacity /\ commands' = Append(commands, post.command)
      /\ task' = post.then /\ post' = None
      /\ channel' = IF post.then = "gone" THEN <<>> ELSE channel
      /\ UNCHANGED <<known, closing, aborted, produced, queued, hand, stopping, wire>>
  BY DEF Posted, server
<1>2. /\ post \in Post /\ commands \in Seq(Command) /\ n \in Nat
      /\ post.command \in Command /\ post.then \in {"open", "answer", "drain", "gone"}
  BY <1>1 DEF OInv, TypeOK, Post
<1>3. /\ commands' \in Seq(Command) /\ Len(commands') = n + 1
      /\ commands'[n + 1] = post.command /\ \A i \in 1 .. n : commands'[i] = commands[i]
      /\ DOMAIN commands' = 1 .. n + 1 /\ DOMAIN commands = 1 .. n
  BY <1>1, <1>2
<1>4. /\ post.command \in {"connected", "frame"} => post.then = "open"
      /\ post.command = "ping" => post.then = "answer"
      /\ post.command = "disconnect" => post.then \in {"drain", "gone"}
      /\ hand = None
  BY <1>1 DEF OInv, Shape
<1>5. TypeOK'
  <2>1. Len(commands') <= Capacity
    BY <1>1, <1>2, <1>3, OutboxAssumption
  <2>2. channel' \in Seq(Frame)
    BY <1>1 DEF OInv, TypeOK
  <2>3. task' \in {"handshake", "posting", "open", "answer", "writing", "drain"} \cup Over
        /\ task' # "posting"
    BY <1>1, <1>2 DEF Over
  <2>4. QED BY <1>1, <1>3, <2>1, <2>2, <2>3 DEF OInv, TypeOK
<1>6. Shape'
  BY <1>1, <1>2, <1>4 DEF Shape, Connecting
<1>7. Serving' => Serving /\ channel' = channel
  BY <1>1, <1>2 DEF Serving
<1>8. WholeStream' /\ Stream'
  BY <1>1, <1>7 DEF OInv, WholeStream, Stream, Held
<1>9. post.command \in {"frame", "ping"} =>
        /\ \A i \in 1 .. n : commands[i] # "disconnect"
        /\ known \/ (n > 0 /\ commands[1] = "connected")
  <2> SUFFICES ASSUME post.command \in {"frame", "ping"}
               PROVE  /\ \A i \in 1 .. n : commands[i] # "disconnect"
                      /\ known \/ (n > 0 /\ commands[1] = "connected")
    OBVIOUS
  <2>1. Serving /\ ~Connecting
    BY <1>1, <1>4 DEF Serving, Connecting
  <2>2. QED BY <1>2, <1>3, <2>1 DEF OInv, Talk
<1>10. FramesMeetConnection'
  <2> SUFFICES ASSUME NEW i \in 1 .. n + 1, commands'[i] \in {"frame", "ping"}
               PROVE  /\ known \/ commands'[1] = "connected"
                      /\ \A j \in 1 .. i : commands'[j] # "disconnect"
    BY <1>1, <1>3 DEF FramesMeetConnection
  <2>1. CASE i \in 1 .. n
    <3>1. /\ known \/ commands[1] = "connected"
          /\ \A j \in 1 .. i : commands[j] # "disconnect"
      BY <1>3, <2>1 DEF OInv, FramesMeetConnection
    <3>2. 1 \in 1 .. n /\ \A j \in 1 .. i : j \in 1 .. n
      BY <1>2, <2>1
    <3>3. QED BY <1>3, <3>1, <3>2
  <2>2. CASE i = n + 1
    <3>1. post.command \in {"frame", "ping"}
      BY <1>3, <2>2
    <3>2. known \/ commands'[1] = "connected"
      BY <1>2, <1>3, <1>9, <3>1
    <3>3. ASSUME NEW j \in 1 .. i PROVE commands'[j] # "disconnect"
      <4>1. j \in 1 .. n \/ j = n + 1
        BY <1>2, <2>2
      <4>2. QED BY <1>3, <1>9, <3>1, <4>1
    <3>4. QED BY <3>2, <3>3
  <2>3. QED BY <1>2, <2>1, <2>2
<1>11. Talk'
  <2>1. CASE task' = "gone"
    <3>1. post.command = "disconnect"
      BY <1>1, <1>2, <1>4, <2>1 DEF Command
    <3>2. commands' # <<>> /\ commands'[Len(commands')] = "disconnect"
      BY <1>2, <1>3, <3>1
    <3>3. QED BY <2>1, <3>2 DEF Talk, Serving
  <2>2. CASE task' = "drain"
    BY <2>2 DEF Talk, Serving
  <2>3. CASE task' \in {"open", "answer"}
    <3>1. post.command \in {"connected", "frame", "ping"}
      BY <1>1, <1>2, <1>4, <2>3 DEF Command
    <3>2. CASE post.command = "connected"
      <4>1. commands = <<>>
        BY <1>1, <3>2 DEF OInv, Shape, Connecting, Unheard
      <4>2. n = 0 /\ commands' # <<>> /\ commands'[1] = "connected"
        <5>1. n = 0
          BY <4>1
        <5>2. Len(commands') = 1 /\ commands'[1] = "connected"
          BY <1>3, <3>2, <5>1
        <5>3. QED BY <5>1, <5>2
      <4>3. \A i \in DOMAIN commands' : commands'[i] = "connected"
        BY <1>3, <4>2
      <4>4. QED BY <2>3, <4>2, <4>3 DEF Talk
    <3>3. CASE post.command \in {"frame", "ping"}
      <4>1. \A j \in 1 .. n + 1 : commands'[j] # "disconnect"
        BY <1>2, <1>3, <1>9, <3>3
      <4>2. commands' # <<>> /\ (known \/ commands'[1] = "connected")
        BY <1>2, <1>3, <1>9, <3>3
      <4>3. QED BY <1>1, <1>3, <2>3, <4>1, <4>2 DEF Talk
    <3>4. QED BY <3>1, <3>2, <3>3
  <2>4. QED BY <1>1, <1>2, <2>1, <2>2, <2>3
<1>12. QED BY <1>5, <1>6, <1>8, <1>10, <1>11 DEF OInv

\* The task leaves the loop; what it has written it leaves behind.
LEMMA LeavesStep ==
  ASSUME OInv, Leaves, task \notin Over, task # "posting", ~Connecting,
         UNCHANGED <<commands, server, channel, stopping>>,
         queued' \in 0 .. MaxBuffered,
         wire' \in Seq([no : 0 .. MaxFrames, close : BOOLEAN]), WholeStream'
  PROVE  OInv'
<1>1. /\ task' = "posting" /\ post' = [command |-> "disconnect", then |-> "gone"] /\ hand' = None
      /\ UNCHANGED <<known, closing, aborted, produced>>
  BY DEF Leaves, Waits, server
<1>2. post' \in Post /\ post' # None
  BY <1>1, OutboxAssumption DEF Post, Command
<1>3. TypeOK'
  BY <1>1, <1>2 DEF OInv, TypeOK
<1>4. Shape' /\ Stream' /\ Talk'
  BY <1>1, <1>2 DEF Shape, Stream, Talk, Serving, Connecting
<1>5. FramesMeetConnection'
  BY <1>1 DEF OInv, FramesMeetConnection
<1>6. QED BY <1>3, <1>4, <1>5 DEF OInv

LEMMA SubtractedFits ==
  ASSUME OInv, task = "writing"
  PROVE  Subtracted \in 0 .. MaxBuffered /\ hand \in Frame
<1>1. hand \in Frame
  BY DEF OInv, TypeOK, Shape
<1>2. hand.size \in Nat
  <2>1. hand.size \in Sizes
    BY <1>1 DEF Frame
  <2>2. \A size \in 1 .. MaxBuffered : size \in Nat
    BY OutboxAssumption
  <2>3. Sizes \subseteq 1 .. MaxBuffered
    BY OutboxAssumption
  <2>4. QED BY <2>1, <2>2, <2>3
<1>3. queued \in 0 .. MaxBuffered /\ MaxBuffered \in Nat
  BY OutboxAssumption DEF OInv, TypeOK
<1>4. QED BY <1>1, <1>2, <1>3 DEF Subtracted

\* One more frame can be read: the next, or the Close of main's stop.
LEMMA WireGrows ==
  ASSUME OInv, Serving, NEW no \in 0 .. MaxFrames, NEW close \in BOOLEAN,
         no \in {0, Len(wire) + 1}, wire' = Append(wire, [no |-> no, close |-> close])
  PROVE  /\ wire' \in Seq([no : 0 .. MaxFrames, close : BOOLEAN]) /\ WholeStream'
         /\ Len(wire') = Len(wire) + 1
         /\ wire'[Len(wire) + 1].no = no /\ wire'[Len(wire) + 1].close = close
         /\ \A i \in 1 .. Len(wire) : wire'[i].no = i /\ ~wire'[i].close
<1> DEFINE W == [no : 0 .. MaxFrames, close : BOOLEAN]
           x == [no |-> no, close |-> close]
<1>1. wire \in Seq(W) /\ Len(wire) \in Nat /\ x \in W
  BY DEF OInv, TypeOK
<1>2. x.no = no /\ x.close = close
  OBVIOUS
<1> HIDE DEF W, x
<1>3. wire' = Append(wire, x)
  BY DEF x
<1>4. /\ wire' \in Seq(W) /\ Len(wire') = Len(wire) + 1 /\ wire'[Len(wire) + 1] = x
      /\ \A i \in 1 .. Len(wire) : wire'[i] = wire[i]
      /\ DOMAIN wire' = 1 .. Len(wire) + 1 /\ DOMAIN wire = 1 .. Len(wire)
  BY <1>1, <1>3
<1>5. \A i \in 1 .. Len(wire) : wire'[i].no = i /\ ~wire'[i].close
  BY <1>4 DEF OInv, Stream
<1>6. ASSUME NEW i \in 1 .. Len(wire) + 1
      PROVE  wire'[i].no \in {i, 0} /\ (wire'[i].close => i = Len(wire'))
  <2>1. i \in 1 .. Len(wire) \/ i = Len(wire) + 1
    BY <1>1
  <2>2. QED BY <1>2, <1>4, <1>5, <2>1
<1>7. WholeStream'
  BY <1>4, <1>6 DEF WholeStream
<1>8. QED BY <1>2, <1>4, <1>5, <1>7 DEF W

LEMMA WrittenStep ==
  ASSUME OInv, Written
  PROVE  OInv'
<1>1. /\ task = "writing" /\ wire' = Append(wire, [no |-> hand.no, close |-> hand.close])
      /\ queued' = Subtracted /\ hand' = None
      /\ UNCHANGED <<commands, known, closing, aborted, produced, channel, stopping>>
  BY DEF Written, server
<1>2. Serving /\ ~Connecting /\ hand \in Frame /\ queued' \in 0 .. MaxBuffered
  BY <1>1, SubtractedFits DEF Serving, Connecting
<1>3. hand # None /\ hand.no = Len(wire) + 1 /\ hand.no \in 0 .. MaxFrames /\ hand.close \in BOOLEAN
  BY <1>1, <1>2 DEF OInv, Shape, Stream, Frame
<1>4. /\ wire' \in Seq([no : 0 .. MaxFrames, close : BOOLEAN]) /\ WholeStream'
      /\ Len(wire') = Len(wire) + 1 /\ wire'[Len(wire) + 1].no = Len(wire) + 1
      /\ wire'[Len(wire) + 1].close = hand.close
      /\ \A i \in 1 .. Len(wire) : wire'[i].no = i /\ ~wire'[i].close
  BY <1>1, <1>2, <1>3, WireGrows
<1>5. CASE hand.close
  <2>1. /\ task' = "posting" /\ post' = [command |-> "disconnect", then |-> "drain"]
    BY <1>1, <1>5 DEF Written, Waits
  <2>2. post' \in Post /\ post' # None
    BY <2>1, OutboxAssumption DEF Post, Command
  <2>3. TypeOK'
    BY <1>1, <1>2, <1>4, <2>1, <2>2 DEF OInv, TypeOK
  <2>4. Shape' /\ Stream' /\ Talk'
    BY <1>1, <2>1, <2>2 DEF Shape, Stream, Talk, Serving, Connecting
  <2>5. FramesMeetConnection'
    BY <1>1 DEF OInv, FramesMeetConnection
  <2>6. QED BY <1>4, <2>3, <2>4, <2>5 DEF OInv
<1>6. CASE ~hand.close
  <2>1. task' = "open" /\ post' = post
    BY <1>1, <1>6 DEF Written
  <2>2. TypeOK'
    BY <1>1, <1>2, <1>4, <2>1 DEF OInv, TypeOK
  <2>3. Shape'
    BY <1>1, <2>1 DEF OInv, Shape, Connecting
  <2>4. Stream'
    <3>1. /\ \A i \in DOMAIN channel :
               channel[i].no = Len(wire) + 1 + i /\ (channel[i].close => i = Len(channel))
          /\ ~closing => /\ produced = Len(wire) + 1 + Len(channel)
                         /\ \A i \in DOMAIN channel : ~channel[i].close
      BY <1>2, <1>3 DEF OInv, Stream, Held
    <3>2. wire \in Seq([no : 0 .. MaxFrames, close : BOOLEAN])
      BY DEF OInv, TypeOK
    <3>3. Held' = 0 /\ Len(wire) \in Nat /\ DOMAIN wire' = 1 .. Len(wire) + 1
      BY <1>1, <1>4, <3>2 DEF Held
    <3>4. ASSUME NEW i \in DOMAIN wire' PROVE wire'[i].no = i /\ ~wire'[i].close
      <4>1. i \in 1 .. Len(wire) \/ i = Len(wire) + 1
        BY <3>3
      <4>2. QED BY <1>4, <1>6, <4>1
    <3>5. QED BY <1>1, <1>4, <3>1, <3>3, <3>4 DEF Stream
  <2>5. FramesMeetConnection' /\ Talk'
    BY <1>1, <1>2, <2>1 DEF OInv, FramesMeetConnection, Talk, Serving, Connecting
  <2>6. QED BY <1>4, <2>2, <2>3, <2>4, <2>5 DEF OInv
<1>7. QED BY <1>5, <1>6

LEMMA TakeFrameStep ==
  ASSUME OInv, TakeFrame
  PROVE  OInv'
<1> DEFINE m == Len(channel)
<1>1. /\ task = "open" /\ channel # <<>> /\ task' = "writing"
      /\ hand' = Head(channel) /\ channel' = Tail(channel)
      /\ UNCHANGED <<post, commands, known, closing, aborted, produced, queued, stopping, wire>>
  BY DEF TakeFrame, server
<1>2. channel \in Seq(Frame) /\ m \in Nat
  BY DEF OInv, TypeOK
<1>3. /\ m > 0 /\ hand' = channel[1] /\ hand' \in Frame /\ channel' \in Seq(Frame)
      /\ Len(channel') = m - 1 /\ DOMAIN channel' = 1 .. m - 1 /\ DOMAIN channel = 1 .. m
      /\ \A i \in 1 .. m - 1 : channel'[i] = channel[i + 1]
  BY <1>1, <1>2
<1>4. hand' # None /\ hand = None
  BY <1>1, <1>3, OutboxAssumption DEF OInv, Shape
<1>5. TypeOK'
  BY <1>1, <1>3 DEF OInv, TypeOK
<1>6. Shape'
  BY <1>1, <1>4 DEF OInv, Shape, Connecting
<1>7. Stream'
  <2>1. Serving /\ Held = 0 /\ Held' = 1
    BY <1>1, <1>4 DEF Serving, Held
  <2>2. /\ \A i \in DOMAIN wire : wire[i].no = i /\ ~wire[i].close
        /\ \A i \in 1 .. m : channel[i].no = Len(wire) + i /\ (channel[i].close => i = m)
        /\ ~closing => produced = Len(wire) + m /\ \A i \in 1 .. m : ~channel[i].close
    <3>1. Len(wire) \in Nat
      BY DEF OInv, TypeOK
    <3>2. QED BY <1>2, <1>3, <2>1, <3>1 DEF OInv, Stream
  <2>3. hand'.no = Len(wire) + 1 /\ (hand'.close => channel' = <<>>) /\ (~closing => ~hand'.close)
    <3>1. 1 \in 1 .. m
      BY <1>2, <1>3
    <3>2. m = 1 => channel' = <<>>
      BY <1>3
    <3>3. QED BY <1>3, <2>2, <3>1, <3>2
  <2>4. ASSUME NEW i \in 1 .. m - 1
        PROVE  /\ channel'[i].no = Len(wire) + 1 + i /\ (channel'[i].close => i = m - 1)
               /\ ~closing => ~channel'[i].close
    <3>1. i + 1 \in 1 .. m /\ channel'[i] = channel[i + 1]
      BY <1>2, <1>3
    <3>2. Len(wire) \in Nat
      BY DEF OInv, TypeOK
    <3>3. QED BY <1>2, <2>2, <3>1, <3>2
  <2>5. ~closing => produced = Len(wire) + 1 + (m - 1)
    <3>1. Len(wire) \in Nat
      BY DEF OInv, TypeOK
    <3>2. QED BY <1>2, <2>2, <3>1
  <2>6. QED BY <1>1, <1>3, <2>1, <2>2, <2>3, <2>4, <2>5 DEF Stream
<1>8. WholeStream' /\ FramesMeetConnection' /\ Talk'
  BY <1>1 DEF OInv, WholeStream, FramesMeetConnection, Talk, Serving, Connecting
<1>9. QED BY <1>5, <1>6, <1>7, <1>8 DEF OInv

\* Steps between places where the task goes on, and those where it ends early.
LEMMA IncomingStep ==
  ASSUME OInv, Incoming
  PROVE  OInv'
<1>1. /\ task = "open" /\ task' = "posting"
      /\ post' = [command |-> "frame", then |-> "open"]
         \/ post' = [command |-> "ping", then |-> "answer"]
      /\ UNCHANGED <<commands, known, closing, aborted, produced, queued, channel, hand, stopping, wire>>
  BY DEF Incoming, Idle, Waits, server
<1>2. post' \in Post /\ post' # None
  BY <1>1, OutboxAssumption DEF Post, Command
<1>3. TypeOK'
  BY <1>1, <1>2 DEF OInv, TypeOK
<1>4. Shape'
  BY <1>1, <1>2 DEF OInv, Shape, Connecting
<1>5. WholeStream' /\ FramesMeetConnection'
  BY <1>1 DEF OInv, WholeStream, FramesMeetConnection
<1>6. Serving /\ ~Connecting /\ Serving' /\ ~Connecting'
  BY <1>1 DEF Serving, Connecting
<1>7. Stream' /\ Talk'
  BY <1>1, <1>6 DEF OInv, Stream, Talk, Held
<1>8. QED BY <1>3, <1>4, <1>5, <1>7 DEF OInv

LEMMA AnsweredStep ==
  ASSUME OInv, Answered
  PROVE  OInv'
<1>1. /\ task = "answer" /\ task' = "open"
      /\ UNCHANGED <<post, commands, known, closing, aborted, produced, queued, channel, hand, stopping, wire>>
  BY DEF Answered, server
<1>2. TypeOK' /\ Shape'
  BY <1>1 DEF OInv, TypeOK, Shape, Connecting
<1>3. WholeStream' /\ FramesMeetConnection' /\ Stream' /\ Talk'
  BY <1>1 DEF OInv, WholeStream, FramesMeetConnection, Stream, Talk, Held, Serving, Connecting
<1>4. QED BY <1>2, <1>3 DEF OInv

LEMMA UpgradeStep ==
  ASSUME OInv, Upgrade
  PROVE  OInv'
<1>1. /\ task = "handshake" /\ task' = "posting"
      /\ post' = [command |-> "connected", then |-> "open"]
      /\ UNCHANGED <<commands, known, closing, aborted, produced, queued, channel, hand, stopping, wire>>
  BY DEF Upgrade, Waits, server
<1>2. post' \in Post /\ post' # None
  BY <1>1, OutboxAssumption DEF Post, Command
<1>3. TypeOK'
  BY <1>1, <1>2 DEF OInv, TypeOK
<1>4. Unheard /\ hand = None
  BY <1>1 DEF OInv, Shape, Connecting
<1>5. Shape'
  BY <1>1, <1>2, <1>4 DEF Shape, Connecting, Unheard
<1>6. WholeStream' /\ FramesMeetConnection' /\ Stream' /\ Talk'
  BY <1>1, <1>4 DEF WholeStream, FramesMeetConnection, Stream, Talk, Held, Serving, Connecting, Unheard
<1>7. QED BY <1>3, <1>5, <1>6 DEF OInv

LEMMA NoUpgradeStep ==
  ASSUME OInv, NoUpgrade
  PROVE  OInv'
<1>1. /\ task = "handshake" /\ task' = "gone"
      /\ UNCHANGED <<post, commands, known, closing, aborted, produced, queued, channel, hand, stopping, wire>>
  BY DEF NoUpgrade, server
<1>2. Unheard
  BY <1>1 DEF OInv, Shape, Connecting
<1>3. TypeOK' /\ Shape'
  BY <1>1 DEF OInv, TypeOK, Shape, Connecting, Over
<1>4. WholeStream' /\ FramesMeetConnection' /\ Stream' /\ Talk'
  BY <1>1, <1>2 DEF WholeStream, FramesMeetConnection, Stream, Talk, Serving, Connecting, Unheard
<1>5. QED BY <1>3, <1>4 DEF OInv

LEMMA ClosesStep ==
  ASSUME OInv, Closes
  PROVE  OInv'
<1>1. CASE SeeAbort
  <2>1. /\ task = "open" /\ Leaves
        /\ UNCHANGED <<commands, server, queued, channel, stopping, wire>>
    BY <1>1 DEF SeeAbort
  <2>2. /\ queued' \in 0 .. MaxBuffered /\ WholeStream'
        /\ wire' \in Seq([no : 0 .. MaxFrames, close : BOOLEAN])
    BY <2>1 DEF OInv, TypeOK, WholeStream
  <2>3. task \notin Over /\ task # "posting" /\ ~Connecting
    BY <2>1 DEF Over, Connecting
  <2>4. QED BY <2>1, <2>2, <2>3, LeavesStep
<1>2. ASSUME NEW written \in BOOLEAN, SeeShutdown(written)
      PROVE  OInv'
  <2>1. /\ task = "open" /\ Leaves
        /\ UNCHANGED <<commands, server, queued, channel, stopping>>
        /\ wire' = wire \/ wire' = Append(wire, [no |-> 0, close |-> TRUE])
    BY <1>2 DEF SeeShutdown
  <2>2. Serving /\ task \notin Over /\ task # "posting" /\ ~Connecting
    BY <2>1 DEF Serving, Over, Connecting
  <2>3. wire' \in Seq([no : 0 .. MaxFrames, close : BOOLEAN]) /\ WholeStream'
    <3>1. CASE wire' = wire
      BY <3>1 DEF OInv, TypeOK, WholeStream
    <3>2. CASE wire' = Append(wire, [no |-> 0, close |-> TRUE])
      <4>1. 0 \in 0 .. MaxFrames
        BY OutboxAssumption
      <4>2. QED BY <2>2, <3>2, <4>1, WireGrows
    <3>3. QED BY <2>1, <3>1, <3>2
  <2>4. queued' \in 0 .. MaxBuffered
    BY <2>1 DEF OInv, TypeOK
  <2>5. QED BY <2>1, <2>2, <2>3, <2>4, LeavesStep
<1>3. QED BY <1>1, <1>2 DEF Closes

LEMMA EndsStep ==
  ASSUME OInv, PeerEnds \/ WriteFails \/ WriteInterrupted \/ Drained
  PROVE  OInv'
<1>1. /\ task \in {"open", "writing", "drain"} /\ Leaves
      /\ UNCHANGED <<commands, server, channel, stopping, wire>>
  BY DEF PeerEnds, Idle, WriteFails, WriteInterrupted, Drained
<1>2. queued' \in 0 .. MaxBuffered
  <2>1. CASE WriteFails
    <3>1. task = "writing" /\ queued' = Subtracted
      BY <2>1 DEF WriteFails
    <3>2. QED BY <3>1, SubtractedFits
  <2>2. CASE PeerEnds \/ WriteInterrupted \/ Drained
    <3>1. queued' = queued
      BY <2>2 DEF PeerEnds, WriteInterrupted, Drained
    <3>2. QED BY <3>1 DEF OInv, TypeOK
  <2>3. QED BY <2>1, <2>2
<1>3. wire' \in Seq([no : 0 .. MaxFrames, close : BOOLEAN]) /\ WholeStream'
  BY <1>1 DEF OInv, TypeOK, WholeStream
<1>4. task \notin Over /\ task # "posting" /\ ~Connecting
  BY <1>1 DEF Over, Connecting
<1>5. QED BY <1>1, <1>2, <1>3, <1>4, LeavesStep

LEMMA KillStep ==
  ASSUME OInv, Kill
  PROVE  OInv'
<1>1. /\ task' = "killed" /\ post' = None /\ channel' = <<>> /\ hand' = None
      /\ UNCHANGED <<commands, known, closing, aborted, produced, queued, stopping, wire>>
  BY DEF Kill, server
<1>2. TypeOK'
  <2>1. channel' \in Seq(Frame)
    BY <1>1
  <2>2. QED BY <1>1, <2>1 DEF OInv, TypeOK, Over
<1>3. Shape' /\ Stream' /\ Talk'
  BY <1>1 DEF Shape, Stream, Talk, Serving, Connecting
<1>4. WholeStream' /\ FramesMeetConnection'
  BY <1>1 DEF OInv, WholeStream, FramesMeetConnection
<1>5. QED BY <1>2, <1>3, <1>4 DEF OInv

\* Steps which leave everything but the stop signal alone.
LEMMA StopStep ==
  ASSUME OInv, Stop \/ UNCHANGED vars
  PROVE  OInv'
<1>1. /\ UNCHANGED <<task, post, commands, known, closing, aborted, produced, queued,
                     channel, hand, wire>>
      /\ stopping' \in BOOLEAN
  BY DEF Stop, vars, server, OInv, TypeOK
<1>2. TypeOK' /\ Shape'
  BY <1>1 DEF OInv, TypeOK, Shape, Connecting, Unheard
<1>3. WholeStream' /\ FramesMeetConnection' /\ Stream' /\ Talk'
  BY <1>1 DEF OInv, WholeStream, FramesMeetConnection, Stream, Talk, Held, Serving, Connecting
<1>4. QED BY <1>2, <1>3 DEF OInv

LEMMA NextOInv == OInv /\ [Next]_vars => OInv'
<1> SUFFICES ASSUME OInv, [Next]_vars PROVE OInv'
  OBVIOUS
<1>1. ASSUME NEW size \in Sizes, NEW close \in BOOLEAN, QueueFrame(size, close)
      PROVE  OInv'
  BY <1>1, QueueFrameStep
<1>2. ASSUME NEW size \in Sizes, Overflow(size)
      PROVE  OInv'
  BY <1>2, OverflowStep
<1>3. CASE RunCommand
  BY <1>3, RunCommandStep
<1>4. CASE Upgrade \/ NoUpgrade \/ Posted
  BY <1>4, UpgradeStep, NoUpgradeStep, PostedStep
<1>5. CASE Closes \/ TakeFrame \/ Incoming \/ Answered
  BY <1>5, ClosesStep, TakeFrameStep, IncomingStep, AnsweredStep
<1>6. CASE PeerEnds \/ Writes \/ Drained
  BY <1>6, EndsStep, WrittenStep DEF Writes
<1>7. CASE Stop \/ Kill \/ UNCHANGED vars
  BY <1>7, StopStep, KillStep
<1>8. QED BY <1>1, <1>2, <1>3, <1>4, <1>5, <1>6, <1>7 DEF Next

-----------------------------------------------------------------------------
(* What connection() of main.rs, raw() and receive() of server.rs keep,    *)
(* however their steps interleave.                                         *)
THEOREM OInvHolds == Spec => []OInv
<1>1. QED BY InitOInv, NextOInv, PTL DEF Spec

(* The types; with them, that raw() never lets the bytes which wait for a  *)
(* transport exceed maxBufferedBytes.                                      *)
THEOREM OutboxTypes == Spec => []TypeOK
<1>1. OInv => TypeOK
  BY DEF OInv
<1>2. QED BY OInvHolds, <1>1, PTL

(* The peer reads the frames of raw() in order: none is missing before     *)
(* another, none is behind a Close.                                        *)
THEOREM StreamSafe == Spec => []WholeStream
<1>1. OInv => WholeStream
  BY DEF OInv
<1>2. QED BY OInvHolds, <1>1, PTL

(* The worker gets no data frame or ping of a socket it does not know.     *)
THEOREM ConnectionSafe == Spec => []FramesMeetConnection
<1>1. OInv => FramesMeetConnection
  BY DEF OInv
<1>2. QED BY OInvHolds, <1>1, PTL

(* Whichever way connection() returned, the worker has been told to forget *)
(* the socket, or never heard of it.                                       *)
THEOREM GhostSafe == Spec => []NoGhost
<1>1. OInv => NoGhost
  <2> SUFFICES ASSUME OInv, task = "gone", known \/ Contains(commands, "connected")
               PROVE  commands # <<>> /\ Last(commands) = "disconnect"
    BY DEF NoGhost
  <2>1. IF commands = <<>> THEN ~known ELSE commands[Len(commands)] = "disconnect"
    BY DEF OInv, Talk
  <2>2. commands # <<>>
    <3>1. ~ Contains(<<>>, "connected")
      BY DEF Contains
    <3>2. QED BY <2>1, <3>1
  <2>3. QED BY <2>1, <2>2 DEF Last
<1>2. QED BY OInvHolds, <1>1, PTL

-----------------------------------------------------------------------------
(* Bytes is a fold; what is needed of it is proved by induction over the    *)
(* number of frames.                                                       *)

\* Induction over the naturals, for a set in place of a predicate: the least
\* number outside of it has a predecessor inside.
LEMMA Inductive ==
  ASSUME NEW S, 0 \in S, \A n \in Nat : n \in S => n + 1 \in S
  PROVE  Nat \subseteq S
<1> DEFINE T == {n \in Nat : n \notin S}
           R == OpToRel(<, Nat)
<1> SUFFICES ASSUME T # {} PROVE FALSE
  OBVIOUS
<1>1. IsWellFoundedOn(R, Nat)
  BY NatLessThanWellFounded, Zenon
<1>2. PICK x \in T : \A y \in T : <<y, x>> \notin R
  <2>1. T \subseteq Nat
    OBVIOUS
  <2> HIDE DEF T, R
  <2> QED BY <1>1, <2>1, WFMin
<1>3. \A y \in T : ~(y < x)
  BY <1>2 DEF OpToRel
<1>4. x # 0 /\ x - 1 \in Nat
  OBVIOUS
<1> QED BY <1>3, <1>4

\* The fold takes the greatest index first.
LEMMA Greatest ==
  \A n \in Nat : \A s \in SUBSET (1 .. n) :
    s # {} => Max(s) \in s /\ \A i \in s : i <= Max(s)
<1> DEFINE S == {n \in Nat : \A s \in SUBSET (1 .. n) :
                   s # {} => \E m \in s : \A i \in s : m >= i}
<1>1. 0 \in S
  <2>1. ASSUME NEW s \in SUBSET (1 .. 0) PROVE s = {}
    <3>1. 1 .. 0 = {}
      OBVIOUS
    <3> QED BY <3>1
  <2> QED BY <2>1
<1>2. ASSUME NEW n \in Nat, n \in S PROVE n + 1 \in S
  <2> SUFFICES ASSUME NEW s \in SUBSET (1 .. n + 1), s # {}
               PROVE  \E m \in s : \A i \in s : m >= i
    OBVIOUS
  <2>1. \A i \in s : i \in 1 .. n + 1
    OBVIOUS
  <2>2. CASE n + 1 \in s
    BY <2>1, <2>2
  <2>3. CASE n + 1 \notin s
    <3>1. s \in SUBSET (1 .. n)
      BY <2>1, <2>3
    <3> QED BY <1>2, <3>1
  <2> QED BY <2>2, <2>3
<1> HIDE DEF S
<1>3. \A n \in Nat : n \in S
  BY <1>1, <1>2, Inductive
<1>4. ASSUME NEW n \in Nat, NEW s \in SUBSET (1 .. n), s # {}
      PROVE  Max(s) \in s /\ \A i \in s : i <= Max(s)
  <2>1. \E m \in s : \A i \in s : m >= i
    BY <1>3, <1>4 DEF S
  <2>2. Max(s) \in s /\ \A i \in s : Max(s) >= i
    BY <2>1 DEF Max
  <2> QED BY <2>2
<1> QED BY <1>4

LEMMA WithoutGreatest ==
  ASSUME NEW k \in Nat, NEW s \in SUBSET (1 .. k + 1), s # {}
  PROVE  /\ Max(s) \in s /\ Max(s) \in 1 .. k + 1
         /\ s \ {Max(s)} \in SUBSET (1 .. k)
<1> DEFINE m == Max(s)
<1>1. k + 1 \in Nat /\ \A i \in s : i \in 1 .. k + 1
  OBVIOUS
<1>2. m \in s /\ \A i \in s : i <= m
  BY <1>1, Greatest, Zenon
<1> HIDE DEF m
<1>3. ASSUME NEW i \in s, i # m PROVE i \in 1 .. k
  <2>1. i \in 1 .. k + 1 /\ m \in 1 .. k + 1 /\ i <= m
    BY <1>1, <1>2
  <2> QED BY <1>3, <2>1
<1> QED BY <1>1, <1>2, <1>3 DEF m

\* What the fold unfolds to, on the indices of a sequence.
Unfolded(f, g, s) == IF s = {} THEN 0 ELSE f[s \ {Max(s)}] + g[Max(s)].size
Partial(g, U) == CHOOSE f : f = [s \in SUBSET U |-> Unfolded(f, g, s)]

LEMMA BytesDef == \A g : Bytes(g) = Partial(g, DOMAIN g)[DOMAIN g]
BY DEF Bytes, FoldLeft, MapThenFoldSet, Partial, Unfolded

\* The recursion has a solution.
LEMMA PartialExists ==
  ASSUME NEW g, NEW n \in Nat
  PROVE  \A s \in SUBSET (1 .. n) :
           Partial(g, 1 .. n)[s] = Unfolded(Partial(g, 1 .. n), g, s)
<1> DEFINE S == {k \in Nat : \E f : \A s \in SUBSET (1 .. k) : f[s] = Unfolded(f, g, s)}
<1>1. 0 \in S
  <2> DEFINE f == [s \in SUBSET (1 .. 0) |-> 0]
  <2>1. \A s \in SUBSET (1 .. 0) : f[s] = Unfolded(f, g, s)
    BY DEF Unfolded
  <2> QED BY <2>1
<1>2. ASSUME NEW k \in Nat, k \in S PROVE k + 1 \in S
  <2>1. PICK f : \A s \in SUBSET (1 .. k) : f[s] = Unfolded(f, g, s)
    BY <1>2
  <2> DEFINE h == [s \in SUBSET (1 .. k + 1) |->
                     IF s \in SUBSET (1 .. k) THEN f[s] ELSE Unfolded(f, g, s)]
  <2>2. ASSUME NEW s \in SUBSET (1 .. k + 1) PROVE h[s] = Unfolded(h, g, s)
    <3>1. h[s] = Unfolded(f, g, s)
      BY <2>1
    <3>2. CASE s = {}
      BY <3>1, <3>2 DEF Unfolded
    <3>3. CASE s # {}
      <4>2. s \ {Max(s)} \in SUBSET (1 .. k) /\ s \ {Max(s)} \in SUBSET (1 .. k + 1)
        BY <3>3, WithoutGreatest
      <4>3. h[s \ {Max(s)}] = f[s \ {Max(s)}]
        BY <4>2
      <4> HIDE DEF h
      <4> QED BY <3>1, <3>3, <4>3 DEF Unfolded
    <3> QED BY <3>2, <3>3
  <2> HIDE DEF h
  <2> QED BY <2>2
<1> HIDE DEF S
<1>3. n \in S
  BY <1>1, <1>2, Inductive
<1>4. PICK f : \A s \in SUBSET (1 .. n) : f[s] = Unfolded(f, g, s)
  BY <1>3 DEF S
<1> DEFINE h == [s \in SUBSET (1 .. n) |-> f[s]]
<1>5. ASSUME NEW s \in SUBSET (1 .. n) PROVE h[s] = Unfolded(h, g, s)
  <2>1. f[s] = Unfolded(f, g, s)
    BY <1>4
  <2>2. s # {} => h[s \ {Max(s)}] = f[s \ {Max(s)}]
    OBVIOUS
  <2> QED BY <2>1, <2>2 DEF Unfolded
<1>6. h = [s \in SUBSET (1 .. n) |-> Unfolded(h, g, s)]
  <2>1. h = [s \in SUBSET (1 .. n) |-> h[s]]
    OBVIOUS
  <2> HIDE DEF h
  <2> QED BY <1>5, <2>1
<1> HIDE DEF h
<1> DEFINE F == Partial(g, 1 .. n)
<1>7. F = [s \in SUBSET (1 .. n) |-> Unfolded(F, g, s)]
  BY <1>6 DEF Partial
<1> HIDE DEF F
<1>8. \A s \in SUBSET (1 .. n) : F[s] = Unfolded(F, g, s)
  BY <1>7
<1> QED BY <1>8 DEF F

\* It has one only, which depends on what is folded and not on what follows.
LEMMA PartialAgrees ==
  ASSUME NEW g, NEW h, NEW m \in Nat, NEW n \in Nat, m <= n,
         \A i \in 1 .. m : g[i] = h[i]
  PROVE  Partial(g, 1 .. m)[1 .. m] = Partial(h, 1 .. n)[1 .. m]
<1> DEFINE A == Partial(g, 1 .. m)
           B == Partial(h, 1 .. n)
           S == {k \in Nat : k <= m => \A s \in SUBSET (1 .. k) : A[s] = B[s]}
<1>1. ASSUME NEW s \in SUBSET (1 .. m)
      PROVE  A[s] = Unfolded(A, g, s) /\ B[s] = Unfolded(B, h, s)
  <2>1. s \in SUBSET (1 .. n)
    OBVIOUS
  <2> QED BY <2>1, PartialExists
<1> HIDE DEF A, B
<1>2. 0 \in S
  <2>1. A[{}] = B[{}]
    BY <1>1 DEF Unfolded
  <2>2. 1 .. 0 = {}
    OBVIOUS
  <2>3. ASSUME NEW s \in SUBSET (1 .. 0) PROVE A[s] = B[s]
    BY <2>1, <2>2, <2>3
  <2> QED BY <2>3
<1> HIDE DEF S
<1>3. ASSUME NEW k \in Nat, k \in S PROVE k + 1 \in S
  <2>1. ASSUME k + 1 <= m, NEW s \in SUBSET (1 .. k + 1) PROVE A[s] = B[s]
    <3>1. s \in SUBSET (1 .. m) /\ k <= m
      BY <2>1
    <3>2. CASE s = {}
      BY <1>1, <3>1, <3>2 DEF Unfolded
    <3>3. CASE s # {}
      <4>1. s \ {Max(s)} \in SUBSET (1 .. k) /\ Max(s) \in 1 .. m
        BY <2>1, <3>1, <3>3, WithoutGreatest
      <4>2. A[s \ {Max(s)}] = B[s \ {Max(s)}] /\ g[Max(s)] = h[Max(s)]
        BY <1>3, <3>1, <4>1 DEF S
      <4> QED BY <1>1, <3>1, <3>3, <4>2 DEF Unfolded
    <3> QED BY <3>2, <3>3
  <2>2. k + 1 \in Nat
    OBVIOUS
  <2> QED BY <2>1, <2>2, Zenon DEF S
<1>4. m \in S
  BY <1>2, <1>3, Inductive
<1> QED BY <1>4 DEF S, A, B

\* Bytes of a queue to which a frame is added.
LEMMA BytesEmpty == Bytes(<<>>) = 0
<1>1. 1 .. 0 = {} /\ DOMAIN <<>> = 1 .. 0 /\ {} \in SUBSET (1 .. 0)
  OBVIOUS
<1>2. Partial(<<>>, 1 .. 0)[{}] = Unfolded(Partial(<<>>, 1 .. 0), <<>>, {})
  BY <1>1, PartialExists
<1> QED BY <1>1, <1>2, BytesDef DEF Unfolded

LEMMA BytesAppend ==
  ASSUME NEW s \in Seq(Frame), NEW f \in Frame
  PROVE  Bytes(Append(s, f)) = Bytes(s) + f.size
<1> DEFINE t == Append(s, f)
           n == Len(s)
<1>1. /\ n \in Nat /\ n + 1 \in Nat /\ DOMAIN s = 1 .. n /\ DOMAIN t = 1 .. n + 1
      /\ t[n + 1] = f /\ \A i \in 1 .. n : s[i] = t[i]
  OBVIOUS
<1> HIDE DEF t, n
<1>2. Bytes(t) = Unfolded(Partial(t, 1 .. n + 1), t, 1 .. n + 1)
  BY <1>1, BytesDef, PartialExists
<1>3. Max(1 .. n + 1) = n + 1
  <2>1. 1 .. n + 1 # {} /\ 1 .. n + 1 \in SUBSET (1 .. n + 1) /\ n + 1 \in 1 .. n + 1
    BY <1>1
  <2>2. Max(1 .. n + 1) \in 1 .. n + 1 /\ n + 1 <= Max(1 .. n + 1)
    BY <1>1, <2>1, Greatest
  <2> QED BY <1>1, <2>2
<1>4. (1 .. n + 1) \ {n + 1} = 1 .. n /\ 1 .. n + 1 # {}
  BY <1>1
<1>5. Partial(t, 1 .. n + 1)[1 .. n] = Bytes(s)
  <2>1. n <= n + 1
    BY <1>1
  <2>2. Partial(s, 1 .. n)[1 .. n] = Partial(t, 1 .. n + 1)[1 .. n]
    BY <1>1, <2>1, PartialAgrees
  <2> QED BY <1>1, <2>2, BytesDef
<1> QED BY <1>1, <1>2, <1>3, <1>4, <1>5 DEF Unfolded, t

\* A queue which is not empty is one to which a frame was added.
LEMMA FrontLast ==
  ASSUME NEW n \in Nat, NEW s \in Seq(Frame), Len(s) = n + 1
  PROVE  /\ Front(s) \in Seq(Frame) /\ Last(s) \in Frame /\ Len(Front(s)) = n
         /\ s = Append(Front(s), Last(s))
<1> DEFINE u == SubSeq(s, 1, n)
<1>1. n + 1 \in 1 .. Len(s)
  OBVIOUS
<1>2. u \in Seq(Frame) /\ Len(u) = n /\ s[n + 1] \in Frame
  BY <1>1
<1>3. s = Append(u, s[n + 1])
  BY <1>2
<1>4. Front(s) = u /\ Last(s) = s[n + 1]
  BY DEF Front, Last
<1> QED BY <1>2, <1>3, <1>4

LEMMA FrameSize == \A f \in Frame : f.size \in Nat
<1>1. \A x \in Sizes : x \in Nat
  BY OutboxAssumption
<1> QED BY <1>1 DEF Frame

LEMMA BytesType == \A s \in Seq(Frame) : Bytes(s) \in Nat
<1> DEFINE S == {n \in Nat : \A s \in Seq(Frame) : Len(s) = n => Bytes(s) \in Nat}
<1>1. 0 \in S
  <2>1. ASSUME NEW s \in Seq(Frame), Len(s) = 0 PROVE Bytes(s) \in Nat
    <3>1. s = <<>>
      BY <2>1
    <3> QED BY <3>1, BytesEmpty
  <2> QED BY <2>1
<1>2. ASSUME NEW n \in Nat, n \in S PROVE n + 1 \in S
  <2> SUFFICES ASSUME NEW s \in Seq(Frame), Len(s) = n + 1 PROVE Bytes(s) \in Nat
    OBVIOUS
  <2> DEFINE u == Front(s)
             f == Last(s)
  <2>1. u \in Seq(Frame) /\ f \in Frame /\ s = Append(u, f) /\ Len(u) = n
    BY FrontLast
  <2> HIDE DEF u, f
  <2>2. Bytes(u) \in Nat /\ f.size \in Nat
    BY <1>2, <2>1, FrameSize
  <2>3. Bytes(s) = Bytes(u) + f.size
    BY <2>1, BytesAppend
  <2> QED BY <2>2, <2>3
<1> HIDE DEF S
<1>3. \A n \in Nat : n \in S
  BY <1>1, <1>2, Inductive
<1> QED BY <1>3 DEF S

\* Taking a frame from the front takes its bytes.
LEMMA BytesTail ==
  \A s \in Seq(Frame) : s # <<>> => Bytes(s) = Head(s).size + Bytes(Tail(s))
<1> DEFINE Good(s) == s # <<>> => Bytes(s) = Head(s).size + Bytes(Tail(s))
           S == {n \in Nat : \A s \in Seq(Frame) : Len(s) = n => Good(s)}
<1>1. 0 \in S
  OBVIOUS
<1>2. ASSUME NEW n \in Nat, n \in S PROVE n + 1 \in S
  <2> SUFFICES ASSUME NEW s \in Seq(Frame), Len(s) = n + 1 PROVE Good(s)
    OBVIOUS
  <2> DEFINE u == Front(s)
             f == Last(s)
  <2>1. u \in Seq(Frame) /\ f \in Frame /\ s = Append(u, f) /\ Len(u) = n
    BY FrontLast
  <2> HIDE DEF u, f
  <2>2. Bytes(s) = Bytes(u) + f.size
    BY <2>1, BytesAppend
  <2>3. f.size \in Nat /\ Bytes(u) \in Nat
    BY <2>1, BytesType, FrameSize
  <2>4. CASE u = <<>>
    <3>1. Head(s) = f /\ Tail(s) = <<>>
      BY <2>1, <2>4
    <3>2. Bytes(u) = 0 /\ Bytes(Tail(s)) = 0
      BY <2>4, <3>1, BytesEmpty
    <3>3. Bytes(s) = Head(s).size + Bytes(Tail(s))
      BY <2>2, <2>3, <3>1, <3>2
    <3> QED BY <3>3
  <2>5. CASE u # <<>>
    <3>1. Head(s) = Head(u) /\ Tail(s) = Append(Tail(u), f)
      BY <2>1, <2>5
    <3>2. Tail(u) \in Seq(Frame) /\ Head(u) \in Frame
      BY <2>1, <2>5
    <3>3. Bytes(Tail(s)) = Bytes(Tail(u)) + f.size
      BY <2>1, <3>1, <3>2, BytesAppend
    <3>4. Bytes(u) = Head(u).size + Bytes(Tail(u))
      BY <1>2, <2>1, <2>5
    <3>5. Bytes(Tail(u)) \in Nat /\ Head(u).size \in Nat
      BY <3>2, BytesType, FrameSize
    <3>6. Bytes(s) = Head(s).size + Bytes(Tail(s))
      BY <2>2, <2>3, <3>1, <3>3, <3>4, <3>5
    <3> QED BY <3>6
  <2> QED BY <2>4, <2>5
<1> HIDE DEF S
<1>3. \A n \in Nat : n \in S
  BY <1>1, <1>2, Inductive
<1> QED BY <1>3 DEF S

-----------------------------------------------------------------------------
\* The count is exact while the task serves, and nothing is counted before.
QInv == QueuedExact /\ (task = "handshake" => queued = 0)

\* What of the count a frame in hand is.
InHand == IF hand = None THEN 0 ELSE hand.size

LEMMA Untouched ==
  ASSUME QInv, UNCHANGED <<queued, channel, hand>>, Serving' => Serving,
         task' # "handshake" \/ task = "handshake"
  PROVE  QInv'
<1>1. QueuedExact'
  BY DEF QInv, QueuedExact
<1> QED BY <1>1 DEF QInv

LEMMA Stopped ==
  ASSUME ~Serving', task' # "handshake"
  PROVE  QInv'
BY DEF QInv, QueuedExact

LEMMA LeavesStops ==
  ASSUME Leaves
  PROVE  QInv'
<1>1. task' = "posting" /\ post'.then = "gone"
  BY DEF Leaves, Waits
<1> QED BY <1>1, Stopped DEF Serving

LEMMA QueueFrameExact ==
  ASSUME OInv, QInv, NEW size \in Sizes, NEW close \in BOOLEAN, QueueFrame(size, close)
  PROVE  QInv'
<1> DEFINE f == [no |-> produced', size |-> size, close |-> close]
<1>1. /\ known /\ UNCHANGED <<task, post, hand>>
      /\ produced < MaxFrames /\ produced' = produced + 1
  BY DEF QueueFrame, Produce
<1>2. task # "handshake"
  BY <1>1 DEF OInv, Shape, Connecting, Unheard
<1>3. CASE task \in Over
  BY <1>1, <1>2, <1>3, Stopped DEF Serving, Over
<1>4. CASE task \notin Over /\ Serving
  <2>1. queued' = queued + size /\ channel' = Append(channel, f)
    BY <1>4 DEF QueueFrame
  <2>2. f \in Frame /\ channel \in Seq(Frame)
    <3>1. produced' \in 0 .. MaxFrames
      BY <1>1, OutboxAssumption DEF OInv, TypeOK
    <3> QED BY <3>1 DEF OInv, TypeOK, Frame
  <2>3. Bytes(channel') = Bytes(channel) + size
    <3>1. f.size = size
      OBVIOUS
    <3> HIDE DEF f
    <3> QED BY <2>1, <2>2, <3>1, BytesAppend
  <2>4. size \in Nat /\ Bytes(channel) \in Nat /\ InHand \in Nat
    <3>1. hand \in Frame \cup {None} /\ \A x \in Sizes : x \in Nat
      BY OutboxAssumption DEF OInv, TypeOK
    <3>2. InHand \in Nat
      BY <3>1, FrameSize DEF InHand
    <3> QED BY <2>2, <3>1, <3>2, BytesType
  <2>5. queued = Bytes(channel) + InHand
    BY <1>4 DEF QInv, QueuedExact, InHand
  <2>6. queued' = Bytes(channel') + InHand
    BY <2>1, <2>3, <2>4, <2>5
  <2>7. InHand' = InHand
    BY <1>1 DEF InHand
  <2> QED BY <1>1, <1>2, <2>6, <2>7 DEF QInv, QueuedExact, InHand
<1>5. CASE ~Serving
  BY <1>1, <1>2, <1>5, Stopped DEF Serving
<1> QED BY <1>3, <1>4, <1>5

LEMMA UpgradeExact ==
  ASSUME OInv, QInv, Upgrade
  PROVE  QInv'
<1>1. task = "handshake" /\ task' = "posting" /\ UNCHANGED <<queued, channel, hand>>
  BY DEF Upgrade, Waits
<1>2. queued = 0 /\ channel = <<>> /\ hand = None
  BY <1>1 DEF OInv, QInv, Shape, Connecting, Unheard
<1> QED BY <1>1, <1>2, BytesEmpty DEF QInv, QueuedExact

LEMMA PostedExact ==
  ASSUME OInv, QInv, Posted
  PROVE  QInv'
<1>1. /\ task = "posting" /\ task' = post.then /\ UNCHANGED <<queued, hand>>
      /\ channel' = IF post.then = "gone" THEN <<>> ELSE channel
  BY DEF Posted
<1>2. post.then \in {"open", "answer", "drain", "gone"}
  BY <1>1 DEF OInv, TypeOK, Post
<1>3. CASE post.then \in {"open", "answer"}
  BY <1>1, <1>3, Untouched DEF Serving
<1>4. CASE post.then \in {"drain", "gone"}
  BY <1>1, <1>4, Stopped DEF Serving
<1> QED BY <1>2, <1>3, <1>4

LEMMA TakeFrameExact ==
  ASSUME OInv, QInv, TakeFrame
  PROVE  QInv'
<1>1. /\ task = "open" /\ channel # <<>> /\ task' = "writing" /\ queued' = queued
      /\ hand' = Head(channel) /\ channel' = Tail(channel)
  BY DEF TakeFrame
<1>2. hand = None /\ channel \in Seq(Frame)
  BY <1>1 DEF OInv, Shape, TypeOK
<1>3. hand' \in Frame /\ hand' # None
  <2>1. Head(channel) \in Frame
    BY <1>1, <1>2
  <2> QED BY <1>1, <2>1, OutboxAssumption
<1>4. queued = Bytes(channel)
  <2>1. queued = Bytes(channel) + 0
    BY <1>1, <1>2 DEF QInv, QueuedExact, Serving
  <2>2. Bytes(channel) \in Nat
    BY <1>2, BytesType
  <2> QED BY <2>1, <2>2
<1>5. queued' = Bytes(channel') + hand'.size
  <2>1. Bytes(channel) = Head(channel).size + Bytes(Tail(channel))
    BY <1>1, <1>2, BytesTail
  <2>2. Bytes(Tail(channel)) \in Nat /\ Head(channel).size \in Nat
    <3>1. Tail(channel) \in Seq(Frame)
      BY <1>1, <1>2
    <3> QED BY <1>1, <1>3, <3>1, BytesType, FrameSize
  <2> QED BY <1>1, <1>4, <2>1, <2>2
<1> QED BY <1>1, <1>3, <1>5 DEF QInv, QueuedExact

LEMMA WrittenExact ==
  ASSUME OInv, QInv, Written
  PROVE  QInv'
<1>1. /\ task = "writing" /\ queued' = Subtracted /\ hand' = None /\ channel' = channel
      /\ IF hand.close THEN Waits("disconnect", "drain") ELSE task' = "open"
  BY DEF Written
<1>2. hand \in Frame /\ hand # None /\ channel \in Seq(Frame)
  BY <1>1, SubtractedFits DEF OInv, Shape, TypeOK
<1>3. hand.size \in Nat /\ Bytes(channel) \in Nat
  BY <1>2, BytesType, FrameSize
<1>4. queued = Bytes(channel) + hand.size
  BY <1>1, <1>2 DEF QInv, QueuedExact, Serving
<1>5. queued' = Bytes(channel') + 0
  BY <1>1, <1>3, <1>4 DEF Subtracted
<1>6. task' # "handshake"
  BY <1>1 DEF Waits
<1> QED BY <1>1, <1>5, <1>6 DEF QInv, QueuedExact

LEMMA NextQInv == OInv /\ QInv /\ [Next]_vars => QInv'
<1> SUFFICES ASSUME OInv, QInv, [Next]_vars PROVE QInv'
  OBVIOUS
<1>1. ASSUME NEW size \in Sizes, NEW close \in BOOLEAN, QueueFrame(size, close)
      PROVE  QInv'
  BY <1>1, QueueFrameExact
<1>2. ASSUME NEW size \in Sizes, Overflow(size)
      PROVE  QInv'
  BY <1>2, Untouched DEF Overflow, Serving
<1>3. CASE RunCommand \/ Stop \/ UNCHANGED vars
  BY <1>3, Untouched DEF RunCommand, Stop, vars, Serving
<1>4. CASE Upgrade \/ Posted \/ TakeFrame \/ Written
  BY <1>4, UpgradeExact, PostedExact, TakeFrameExact, WrittenExact
<1>5. CASE Incoming \/ Answered
  <2>1. UNCHANGED <<queued, channel, hand>> /\ task' # "handshake" /\ Serving
    BY <1>5 DEF Incoming, Idle, Answered, Waits, Serving
  <2> QED BY <2>1, Untouched
<1>6. CASE Closes \/ PeerEnds \/ WriteFails \/ WriteInterrupted \/ Drained
  <2>1. Leaves
    BY <1>6 DEF Closes, SeeAbort, SeeShutdown, PeerEnds, WriteFails, WriteInterrupted, Drained
  <2> QED BY <2>1, LeavesStops
<1>7. CASE NoUpgrade \/ Kill
  BY <1>7, Stopped DEF NoUpgrade, Kill, Serving
<1> QED BY <1>1, <1>2, <1>3, <1>4, <1>5, <1>6, <1>7 DEF Next, Writes

(* What raw() adds to Connection.queued and the task subtracts is never    *)
(* out of step with the bytes which wait: the count neither runs full of   *)
(* bytes long written, nor lets more wait than maxBufferedBytes.           *)
THEOREM QueuedSafe == Spec => []QueuedExact
<1>1. Init => QInv
  BY DEF Init, QInv, QueuedExact, Serving
<1>2. QInv => QueuedExact
  BY DEF QInv
<1> QED BY OInvHolds, NextQInv, <1>1, <1>2, PTL DEF Spec
=============================================================================
