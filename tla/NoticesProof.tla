----------------------------- MODULE NoticesProof -----------------------------
(***************************************************************************)
(* Proofs about Notices: its types, what a restart brings back, whom a     *)
(* retry spares, and that no notice is forgotten.                          *)
(***************************************************************************)
EXTENDS Notices, TLAPS

\* Who is marked has been reached.
Marked(e, j) == j # None => \A p \in j.done : <<e, j.at, p>> \in settled
MarksAreTrue ==
  /\ \A e \in Event : Marked(e, jobs[e]) /\ Marked(e, todo[e])
  /\ task.phase # "idle" => Marked(task.event, task.job)

\* The i-th recipient of the task's job is named nowhere else in its list.
Single(i) == \A j \in DOMAIN task.job.to : task.job.to[j] = task.job.to[i] => j = i

\* The copies of a round know all that has been done, except for those whom
\* the task itself has reached; and these it has yet to reach only if they are
\* named twice.
CopiesKnow ==
  /\ \A e \in Event :
       todo[e] # None /\ Listed(e, todo[e].at) => jobs[e].done \subseteq todo[e].done
  /\ task.phase # "idle" =>
       /\ task.event \in Event /\ todo[task.event] = None /\ task.next >= 1
       /\ Current => \A i \in DOMAIN task.job.to :
            i >= task.next /\ Single(i) /\ task.job.to[i] \in jobs[task.event].done =>
              task.job.to[i] \in task.job.done
       /\ task.phase # "target" => task.next \in DOMAIN task.job.to /\ Who \notin task.job.done
       /\ task.phase = "record" => <<task.event, task.job.at, Who>> \in settled

NInv == TypeOK /\ SurvivesRestart /\ MarksAreTrue /\ CopiesKnow

\* As long as no commit has taken a job off the list since the round began,
\* the job there is has the recipients of the copy, and those the task is done
\* with have the notice, could not be read, or are to be tried again.
RoundTrue ==
  /\ \A e \in Event : todo[e] # None /\ e \notin away =>
       Listed(e, todo[e].at) /\ jobs[e].to = todo[e].to
  /\ task.phase # "idle" /\ task.event \notin away =>
       /\ Current /\ jobs[task.event].to = task.job.to
       /\ ~task.failed => \A i \in DOMAIN task.job.to : i < task.next =>
            \/ <<task.event, task.job.at, task.job.to[i]>> \in settled
            \/ task.job.to[i] \in unread

-----------------------------------------------------------------------------
\* Tasks and lists.

LEMMA ListsOfAccounts == Recipients \subseteq Seq(Account)
BY NoticesAssumption DEF Recipients

LEMMA Basics ==
  /\ NoJob \in Job /\ Empty \in Jobs /\ Idle \in Task /\ Idle.phase = "idle"
  /\ \A e \in Event : Empty[e] = None
<1>1. 0 \in Time
  BY NoticesAssumption DEF Time
<1>2. NoJob \in Job
  BY <1>1 DEF NoJob, Job
<1>3. Idle \in Task /\ Idle.phase = "idle"
  BY <1>2 DEF Idle, Task
<1>4. QED BY <1>2, <1>3 DEF Empty, Jobs

\* A list that a commit may leave: what was there, or jobs nobody has yet.
Follows(js) ==
  /\ js \in Jobs
  /\ \A e \in Event : js[e] = None \/ js[e] = jobs[e]
                      \/ (js[e].done = {} /\ ~Listed(e, js[e].at))

LEMMA CommittedFollows ==
  ASSUME TypeOK, NEW s \in Notes, NEW i \in Notes
  PROVE  Follows(Committed(s, i))
<1> DEFINE js == Committed(s, i)
<1>1. ASSUME NEW n \in Notes, n # None, NEW b \in BOOLEAN
      PROVE  /\ JobFor(n, b) \in Job \cup {None}
             /\ \/ JobFor(n, b) = jobs[n.event]
                \/ JobFor(n, b).done = {} /\ ~Listed(n.event, JobFor(n, b).at)
  <2> DEFINE e == n.event
             at == n.at
             to == n.to
  <2>1. e \in Event /\ at \in Time /\ to \in Recipients
    BY <1>1, NoticesAssumption DEF Notes, Recipients
  <2>2. CASE Listed(e, at)
    BY <2>1, <2>2 DEF JobFor, TypeOK, Jobs
  <2>3. CASE ~Listed(e, at)
    <3>1. JobFor(n, b) = [NoJob EXCEPT !.at = at, !.to = to, !.scheduled = b]
      BY <2>3 DEF JobFor
    <3> HIDE DEF at, to
    <3>2. JobFor(n, b) \in Job /\ JobFor(n, b).done = {} /\ JobFor(n, b).at = at
      BY <2>1, <3>1, Basics DEF NoJob, Job
    <3>3. QED BY <2>3, <3>2
  <2>4. QED BY <2>2, <2>3
<1>3. ASSUME NEW e \in Event
      PROVE  /\ js[e] \in Job \cup {None}
             /\ \/ js[e] = None \/ js[e] = jobs[e]
                \/ js[e].done = {} /\ ~Listed(e, js[e].at)
  <2>1. js[e] = IF Kept(jobs[e]) THEN jobs[e]
                ELSE IF e \in game.events THEN None
                ELSE IF s # None /\ s.event = e THEN JobFor(s, TRUE)
                ELSE IF i # None /\ i.event = e THEN JobFor(i, FALSE)
                ELSE None
    BY DEF Committed
  <2>2. jobs[e] \in Job \cup {None}
    BY DEF TypeOK, Jobs
  <2> HIDE DEF js
  <2>3. QED BY <1>1, <2>1, <2>2
<1>4. js = [e \in Event |-> js[e]]
  BY DEF Committed
<1> HIDE DEF js
<1>5. js \in Jobs
  BY <1>3, <1>4 DEF Jobs
<1>6. QED BY <1>3, <1>5 DEF Follows, js

LEMMA TakenTyped == \A js : Taken(js) \subseteq Event
  BY DEF Taken

-----------------------------------------------------------------------------
\* Steps that leave the list and the task alone, and those that restart.

LEMMA InitNInv == Init => NInv
<1> SUFFICES ASSUME Init PROVE NInv
  OBVIOUS
<1>1. TypeOK
  BY Basics, NoticesAssumption DEF Init, TypeOK, Time
<1>2. QED
  BY <1>1, Basics DEF Init, NInv, SurvivesRestart, MarksAreTrue, Marked, CopiesKnow

LEMMA QuietStep ==
  ASSUME NInv, TypeOK', UNCHANGED <<jobs, stored, todo, task, settled>>
  PROVE  NInv'
<1>1. SurvivesRestart'
  BY DEF NInv, SurvivesRestart
<1>2. MarksAreTrue'
  BY DEF NInv, MarksAreTrue, Marked
<1>3. CopiesKnow'
  BY DEF NInv, CopiesKnow, Listed, Current, Single, Who
<1>4. QED BY <1>1, <1>2, <1>3 DEF NInv

LEMMA RestartStep ==
  ASSUME NInv, NEW js \in Jobs, Restarted(js), \A e \in Event : Marked(e, js[e]),
         game' \in [live : BOOLEAN, events : SUBSET Event, file : (SUBSET Event) \cup {None}]
  PROVE  NInv'
<1>1. TypeOK'
  BY Basics DEF Restarted, NInv, TypeOK
<1>2. SurvivesRestart'
  <2> SUFFICES ASSUME NEW e \in Event, js[e] # None
               PROVE  js[e] = [js[e] EXCEPT !.done = js[e].done]
    BY DEF Restarted, SurvivesRestart
  <2>1. js[e] \in Job
    BY DEF Jobs
  <2>2. QED BY <2>1 DEF Job
<1>3. MarksAreTrue' /\ CopiesKnow'
  BY Basics DEF Restarted, MarksAreTrue, Marked, CopiesKnow
<1>4. QED BY <1>1, <1>2, <1>3 DEF NInv

\* What a restart reads has the events and times it had.
LEMMA StoredJobs ==
  ASSUME NInv, NEW e \in Event
  PROVE  /\ stored[e] = None <=> jobs[e] = None
         /\ jobs[e] # None => stored[e].at = jobs[e].at /\ stored[e].wait = jobs[e].wait
<1>1. jobs[e] # None => stored[e] \in Job /\ jobs[e] = [stored[e] EXCEPT !.done = jobs[e].done]
  BY DEF NInv, SurvivesRestart, TypeOK, Jobs
<1>2. QED BY <1>1 DEF NInv, SurvivesRestart, Job

\* What a restart reads is marked truly, too.
LEMMA StoredMarks ==
  ASSUME NInv
  PROVE  stored \in Jobs /\ \A e \in Event : Marked(e, stored[e])
<1>1. stored \in Jobs
  BY DEF NInv, TypeOK
<1>2. ASSUME NEW e \in Event, stored[e] # None
      PROVE  /\ jobs[e] # None /\ stored[e].at = jobs[e].at
             /\ stored[e].done \subseteq jobs[e].done
  BY <1>2, StoredJobs DEF NInv, SurvivesRestart
<1>3. QED BY <1>1, <1>2 DEF NInv, MarksAreTrue, Marked

LEMMA FollowingMarks ==
  ASSUME NInv, NEW js, Follows(js)
  PROVE  js \in Jobs /\ \A e \in Event : Marked(e, js[e])
  BY DEF NInv, MarksAreTrue, Marked, Follows

\* A new list beside a round in progress.
LEMMA ListStep ==
  ASSUME NInv, TypeOK', NEW js, Follows(js), jobs' = js, stored' = js,
         UNCHANGED <<todo, task, settled>>
  PROVE  NInv'
<1>1. SurvivesRestart'
  <2> SUFFICES ASSUME NEW e \in Event, js[e] # None
               PROVE  js[e] = [js[e] EXCEPT !.done = js[e].done]
    BY DEF SurvivesRestart
  <2>1. js[e] \in Job
    BY DEF Follows, Jobs
  <2>2. QED BY <2>1 DEF Job
<1>2. MarksAreTrue'
  BY FollowingMarks DEF NInv, MarksAreTrue, Marked
<1>3. ASSUME NEW e \in Event, NEW t, Listed(e, t)' PROVE js[e] = jobs[e] \/ js[e].done = {}
  BY <1>3 DEF Follows, Listed
<1>4. CopiesKnow'
  <2>1. \A e \in Event :
          todo'[e] # None /\ Listed(e, todo[e].at)' => jobs'[e].done \subseteq todo'[e].done
    BY <1>3 DEF NInv, CopiesKnow, Listed
  <2>2. ASSUME task.phase # "idle", Current'
        PROVE  jobs'[task.event] = jobs[task.event] \/ jobs'[task.event].done = {}
    BY <1>3, <2>2 DEF NInv, CopiesKnow, Current
  <2>3. ASSUME task.phase # "idle", Current', jobs'[task.event] = jobs[task.event]
        PROVE  Current
    BY <2>3 DEF Current, Listed
  <2>4. QED BY <2>1, <2>2, <2>3 DEF NInv, CopiesKnow, Single, Who
<1>5. QED BY <1>1, <1>2, <1>4 DEF NInv

-----------------------------------------------------------------------------
\* The delivery task.

\* The recipients of the task's job.
LEMMA TasksJob ==
  ASSUME NInv
  PROVE  /\ task \in Task /\ task.job \in Job /\ task.job.at \in Time
         /\ task.job.to \in Seq(Account) /\ DOMAIN task.job.to = 1 .. Len(task.job.to)
         /\ Len(task.job.to) \in Nat /\ task.next \in Nat
         /\ \A i \in DOMAIN task.job.to : i \in Nat /\ task.job.to[i] \in Account
<1>1. /\ task \in Task /\ task.job \in Job /\ task.job.at \in Time /\ task.next \in Nat
      /\ task.job.to \in Recipients \cup {<<>>}
  BY DEF NInv, TypeOK, Task, Job
<1>2. task.job.to \in Seq(Account)
  <2>1. <<>> \in Seq(Account)
    OBVIOUS
  <2>2. Recipients \subseteq Seq(Account)
    BY ListsOfAccounts
  <2>3. QED BY <1>1, <2>1, <2>2, Zenon
<1>3. ASSUME NEW s \in Seq(Account)
      PROVE  /\ Len(s) \in Nat /\ DOMAIN s = 1 .. Len(s)
             /\ \A i \in DOMAIN s : i \in Nat /\ s[i] \in Account
  OBVIOUS
<1>4. /\ DOMAIN task.job.to = 1 .. Len(task.job.to) /\ Len(task.job.to) \in Nat
      /\ \A i \in DOMAIN task.job.to : i \in Nat /\ task.job.to[i] \in Account
  BY <1>2, <1>3, Zenon
<1>5. QED BY <1>1, <1>2, <1>4, Zenon

\* Steps of the task that change neither list.
LEMMA TaskStep ==
  ASSUME NInv, UNCHANGED <<game, store, clock, todo, away>>,
         token' \in [Account -> Token \cup {None}],
         settled' \subseteq Event \X Time \X Account, settled \subseteq settled',
         unread' \subseteq Account,
         task.phase # "idle", task' \in Task, task'.phase # "idle",
         task'.event = task.event, task'.job = task.job, task'.next >= task.next,
         task'.phase # "target" =>
           /\ task'.next = task.next /\ task.next \in DOMAIN task.job.to
           /\ Who \notin task.job.done,
         task'.phase = "record" => <<task.event, task.job.at, Who>> \in settled'
  PROVE  NInv'
<1>1. TypeOK'
  BY DEF NInv, TypeOK, store
<1>2. SurvivesRestart'
  BY DEF NInv, SurvivesRestart, store
<1>3. MarksAreTrue'
  BY DEF NInv, MarksAreTrue, Marked, store
<1>4. CopiesKnow'
  <2>1. /\ UNCHANGED <<jobs, todo>> /\ task.event \in Event /\ todo[task.event] = None
        /\ task.next >= 1 /\ task'.next >= 1 /\ Current' = Current
        /\ \A i : Single(i)' = Single(i)
        /\ \A e \in Event : \A t : Listed(e, t)' = Listed(e, t)
        /\ task'.next = task.next => Who' = Who
    BY DEF NInv, TypeOK, Task, CopiesKnow, Current, Listed, Single, Who, store
  <2>2. ASSUME Current, NEW i \in DOMAIN task.job.to, i >= task'.next, Single(i),
               task.job.to[i] \in jobs[task.event].done
        PROVE  task.job.to[i] \in task.job.done
    <3>1. i \in Nat
      BY TasksJob
    <3>2. i >= task.next
      BY <2>2, <3>1 DEF NInv, TypeOK, Task
    <3>3. QED BY <2>2, <3>2 DEF NInv, CopiesKnow
  <2>3. QED BY <2>1, <2>2 DEF NInv, CopiesKnow
<1>5. QED BY <1>1, <1>2, <1>3, <1>4 DEF NInv

LEMMA NextTargetFacts ==
  ASSUME task \in Task, NEW failed \in BOOLEAN
  PROVE  LET T == NextTarget(failed) IN
         /\ T \in Task /\ T.phase = "target" /\ T.event = task.event /\ T.job = task.job
         /\ T.next = task.next + 1 /\ T.next >= task.next
         /\ T.failed = (task.failed \/ failed)
<1> DEFINE next == task.next + 1
           both == task.failed \/ failed
           T == [task EXCEPT !.phase = "target", !.next = next, !.failed = both,
                             !.token = None, !.valid = TRUE]
<1>1. next \in Nat /\ next >= task.next
  BY DEF Task
<1>2. both \in BOOLEAN
  BY DEF Task
<1>3. NextTarget(failed) = T
  BY DEF NextTarget
<1> HIDE DEF next, both
<1>4. /\ T \in Task /\ T.phase = "target" /\ T.event = task.event /\ T.job = task.job
      /\ T.next = next /\ T.failed = both
  BY <1>1, <1>2 DEF Task
<1> HIDE DEF T
<1>5. QED BY <1>1, <1>3, <1>4 DEF next, both

LEMMA StartRoundStep ==
  ASSUME NInv, NEW rested \in BOOLEAN, StartRound(rested)
  PROVE  NInv'
<1>1. task.phase = "idle" /\ task' = task
  BY Basics DEF StartRound
<1>2. \A e \in Event : todo'[e] = None \/ todo'[e] = jobs[e]
  BY DEF StartRound
<1>3. todo' \in Jobs
  BY DEF StartRound, Due, NInv, TypeOK, Jobs
<1>4. TypeOK'
  BY <1>3 DEF StartRound, NInv, TypeOK, store, history
<1>5. SurvivesRestart' /\ MarksAreTrue' /\ CopiesKnow'
  BY <1>1, <1>2 DEF StartRound, NInv, SurvivesRestart, MarksAreTrue, Marked, CopiesKnow,
                    Listed, Current, store, history
<1>6. QED BY <1>4, <1>5 DEF NInv

LEMMA StartJobStep ==
  ASSUME NInv, NEW e \in Event, StartJob(e)
  PROVE  NInv'
<1>1. todo[e] \in Job /\ todo \in Jobs
  BY DEF StartJob, NInv, TypeOK, Jobs
<1>2. /\ task' \in Task /\ task'.phase = "target" /\ task'.event = e /\ task'.job = todo[e]
      /\ task'.next = 1
  BY <1>1, Basics DEF StartJob, Idle, Task
<1>3. todo' \in Jobs /\ todo'[e] = None /\ \A x \in Event \ {e} : todo'[x] = todo[x]
  BY <1>1 DEF StartJob, Jobs
<1>4. TypeOK'
  BY <1>2, <1>3 DEF StartJob, NInv, TypeOK, store, history
<1>5. SurvivesRestart' /\ MarksAreTrue'
  BY <1>2, <1>3 DEF StartJob, NInv, SurvivesRestart, MarksAreTrue, Marked, store, history
<1>6. CopiesKnow'
  BY <1>2, <1>3 DEF StartJob, NInv, CopiesKnow, Listed, Current, store, history
<1>7. QED BY <1>4, <1>5, <1>6 DEF NInv

LEMMA LookUpStep ==
  ASSUME NInv, NEW found \in BOOLEAN, LookUp(found)
  PROVE  NInv'
<1>1. /\ task \in Task /\ task.phase = "target" /\ task.next \in DOMAIN task.job.to
      /\ task.event \in Event /\ Who \in Account /\ task.job.at \in Time
  BY TasksJob DEF LookUp, NInv, CopiesKnow, Who
<1>2. /\ settled' \subseteq Event \X Time \X Account /\ settled \subseteq settled'
      /\ unread' \subseteq Account
  BY <1>1 DEF LookUp, NInv, TypeOK
<1>3. CASE ~(found /\ ~Skips(Who))
  <2>1. task' = NextTarget(FALSE)
    BY <1>3 DEF LookUp
  <2>2. QED BY <1>1, <1>2, <2>1, NextTargetFacts, TaskStep DEF LookUp, NInv, TypeOK
<1>4. CASE found /\ ~Skips(Who)
  <2>1. task' = [task EXCEPT !.phase = "check", !.token = token[Who]]
    BY <1>4 DEF LookUp
  <2>2. token[Who] \in Token \cup {None} /\ Who \notin task.job.done
    BY <1>1, <1>4 DEF NInv, TypeOK, Skips
  <2>3. /\ task' \in Task /\ task'.phase = "check" /\ task'.event = task.event
        /\ task'.job = task.job /\ task'.next = task.next
    BY <1>1, <2>1, <2>2 DEF Task
  <2>4. task'.next >= task.next
    BY <2>3, TasksJob
  <2>5. QED BY <1>1, <1>2, <2>2, <2>3, <2>4, TaskStep DEF LookUp, NInv, TypeOK
<1>5. QED BY <1>3, <1>4

LEMMA CheckStep ==
  ASSUME NInv, Check
  PROVE  NInv'
<1>1. /\ task \in Task /\ task.phase = "check" /\ task.next \in DOMAIN task.job.to
      /\ Who \notin task.job.done /\ settled \subseteq Event \X Time \X Account
      /\ unread \subseteq Account
  BY DEF Check, NInv, TypeOK, CopiesKnow
<1>2. CASE Current
  <2>1. task' = [task EXCEPT !.phase = "send"]
    BY <1>2 DEF Check
  <2>2. /\ task' \in Task /\ task'.phase = "send" /\ task'.event = task.event
        /\ task'.job = task.job /\ task'.next = task.next
    BY <1>1, <2>1 DEF Task
  <2>3. task'.next >= task.next
    BY <2>2, TasksJob
  <2>4. QED BY <1>1, <2>2, <2>3, TaskStep DEF Check, NInv, TypeOK, history
<1>3. CASE ~Current
  <2>1. task' = NextTarget(FALSE)
    BY <1>3 DEF Check
  <2>2. QED BY <1>1, <2>1, NextTargetFacts, TaskStep DEF Check, NInv, TypeOK, history
<1>4. QED BY <1>2, <1>3

LEMMA SendFailsStep ==
  ASSUME NInv, SendFails
  PROVE  NInv'
  BY NextTargetFacts, TaskStep DEF SendFails, NInv, TypeOK, history

LEMMA SendWorksStep ==
  ASSUME NInv, NEW p \in Account, NEW valid \in BOOLEAN, SendWorks(p, valid)
  PROVE  NInv'
<1>1. /\ task \in Task /\ task.phase = "send" /\ Who = p /\ task.next \in DOMAIN task.job.to
      /\ p \notin task.job.done /\ task.event \in Event /\ task.job.at \in Time
  BY TasksJob DEF SendWorks, NInv, CopiesKnow
<1>2. /\ settled' = settled \cup {<<task.event, task.job.at, p>>}
      /\ settled' \subseteq Event \X Time \X Account
  BY <1>1 DEF SendWorks, NInv, TypeOK
<1>3. task' = [task EXCEPT !.phase = "record", !.valid = valid]
  BY DEF SendWorks
<1>4. /\ task' \in Task /\ task'.phase = "record" /\ task'.event = task.event
      /\ task'.job = task.job /\ task'.next = task.next
  BY <1>1, <1>3 DEF Task
<1>5. task'.next >= task.next
  BY <1>4, TasksJob
<1>6. QED BY <1>1, <1>2, <1>4, <1>5, TaskStep DEF SendWorks, NInv, TypeOK

\* What recording an answer does to the list.
LEMMA RecordFacts ==
  ASSUME NInv, NEW found \in BOOLEAN, Record(found)
  PROVE  /\ jobs' \in Jobs /\ jobs' = [e \in Event |-> jobs'[e]]
         /\ \A e \in Event :
              \/ jobs'[e] = jobs[e]
              \/ /\ e = task.event /\ Current
                 /\ jobs[e] \in Job /\ jobs'[e] \in Job
                 /\ jobs'[e] = [jobs[e] EXCEPT !.done = @ \cup {Who}]
                 /\ jobs'[e].done = jobs[e].done \cup {Who}
                 /\ jobs'[e].at = jobs[e].at /\ jobs'[e].to = jobs[e].to
                 /\ jobs'[e].wait = jobs[e].wait
<1>1. /\ jobs \in Jobs /\ task.event \in Event /\ Who \in Account
  BY TasksJob DEF NInv, TypeOK, CopiesKnow, Record, Who
<1>2. CASE Current
  <2> DEFINE e == task.event
             j == [jobs[e] EXCEPT !.done = @ \cup {Who}]
  <2>1. jobs[e] \in Job
    BY <1>1, <1>2 DEF Current, Listed, Jobs
  <2>2. /\ j \in Job /\ j.done = jobs[e].done \cup {Who} /\ j.at = jobs[e].at
        /\ j.to = jobs[e].to /\ j.wait = jobs[e].wait
    BY <1>1, <2>1 DEF Job
  <2>3. jobs' = [jobs EXCEPT ![e] = j]
    BY <1>2 DEF Record
  <2> HIDE DEF j
  <2>4. jobs' \in Jobs /\ jobs'[e] = j /\ \A x \in Event \ {e} : jobs'[x] = jobs[x]
    BY <1>1, <2>2, <2>3 DEF Jobs
  <2>5. QED BY <1>2, <2>1, <2>2, <2>4 DEF Jobs, j
<1>3. CASE ~Current
  BY <1>1, <1>3 DEF Record, Jobs
<1>4. QED BY <1>2, <1>3

LEMMA RecordStep ==
  ASSUME NInv, NEW found \in BOOLEAN, Record(found)
  PROVE  NInv'
<1> DEFINE p == Who
<1>1. /\ task \in Task /\ task.phase = "record" /\ task.next \in DOMAIN task.job.to
      /\ p = task.job.to[task.next] /\ p \in Account
      /\ task.event \in Event /\ <<task.event, task.job.at, p>> \in settled
  BY TasksJob DEF Record, NInv, CopiesKnow, Who
<1>2. task' = NextTarget(FALSE)
  BY DEF Record
<1>3. /\ task' \in Task /\ task'.phase = "target" /\ task'.event = task.event
      /\ task'.job = task.job /\ task'.next = task.next + 1
  BY <1>1, <1>2, NextTargetFacts
<1>4. UNCHANGED <<stored, todo, settled>>
  BY DEF Record, history
<1>5. TypeOK'
  BY <1>1, <1>3, RecordFacts DEF Record, NInv, TypeOK, history
<1>6. SurvivesRestart'
  <2> SUFFICES ASSUME NEW e \in Event
               PROVE  /\ jobs'[e] = None <=> stored[e] = None
                      /\ jobs'[e] # None =>
                           /\ jobs'[e] = [stored[e] EXCEPT !.done = jobs'[e].done]
                           /\ stored[e].done \subseteq jobs'[e].done
    BY <1>4 DEF SurvivesRestart
  <2>1. CASE jobs'[e] = jobs[e]
    BY <2>1 DEF NInv, SurvivesRestart
  <2>2. CASE jobs'[e] # jobs[e]
    <3>1. /\ jobs[e] \in Job /\ jobs'[e] \in Job
          /\ jobs'[e] = [jobs[e] EXCEPT !.done = @ \cup {p}]
          /\ jobs'[e].done = jobs[e].done \cup {p}
      BY <2>2, RecordFacts
    <3>2. jobs[e] # None /\ jobs'[e] # None
      BY <3>1, NoticesAssumption
    <3>3. /\ stored[e] \in Job /\ jobs[e] = [stored[e] EXCEPT !.done = jobs[e].done]
          /\ stored[e].done \subseteq jobs[e].done
      BY <3>2 DEF NInv, SurvivesRestart, TypeOK, Jobs
    <3>4. jobs'[e] = [stored[e] EXCEPT !.done = jobs'[e].done]
      BY <3>1, <3>3 DEF Job
    <3>5. QED BY <3>1, <3>2, <3>3, <3>4, NoticesAssumption
  <2>3. QED BY <2>1, <2>2
<1>7. MarksAreTrue'
  <2>1. ASSUME NEW e \in Event, jobs'[e] # None, NEW x \in jobs'[e].done
        PROVE  <<e, jobs'[e].at, x>> \in settled
    <3>1. CASE jobs'[e] = jobs[e]
      BY <2>1, <3>1 DEF NInv, MarksAreTrue, Marked
    <3>2. CASE jobs'[e] # jobs[e]
      <4>1. /\ e = task.event /\ jobs[e] # None /\ jobs'[e].done = jobs[e].done \cup {p}
            /\ jobs'[e].at = jobs[e].at /\ Current
        BY <3>2, RecordFacts, NoticesAssumption
      <4>2. jobs[e].at = task.job.at
        BY <4>1 DEF Current, Listed
      <4>3. QED BY <1>1, <2>1, <4>1, <4>2 DEF NInv, MarksAreTrue, Marked
    <3>3. QED BY <3>1, <3>2
  <2>2. QED BY <1>1, <1>3, <1>4, <2>1 DEF NInv, MarksAreTrue, Marked
<1>8. ASSUME NEW e \in Event, NEW t, Listed(e, t)' PROVE Listed(e, t)
  BY <1>8, RecordFacts, NoticesAssumption DEF Listed
<1>9. CopiesKnow'
  <2>1. ASSUME NEW e \in Event, todo[e] # None, Listed(e, todo[e].at)'
        PROVE  jobs'[e].done \subseteq todo[e].done
    <3>1. e # task.event
      BY <1>1, <2>1 DEF NInv, CopiesKnow
    <3>2. jobs'[e] = jobs[e]
      BY <3>1, RecordFacts
    <3>3. Listed(e, todo[e].at)
      BY <1>4, <2>1, <3>2 DEF Listed
    <3>4. QED BY <2>1, <3>2, <3>3 DEF NInv, CopiesKnow
  <2>2. ASSUME Current', NEW i \in DOMAIN task.job.to, i >= task.next + 1, Single(i),
               task.job.to[i] \in jobs'[task.event].done
        PROVE  task.job.to[i] \in task.job.done
    <3>1. Current
      BY <1>1, <1>3, <1>8, <2>2 DEF Current, Listed
    <3>2. i # task.next /\ i >= task.next
      BY <2>2, TasksJob
    <3>3. task.job.to[i] # p
      BY <1>1, <2>2, <3>2 DEF Single
    <3>4. jobs'[task.event].done \subseteq jobs[task.event].done \cup {p}
      BY <1>1, RecordFacts
    <3>5. QED BY <1>1, <2>2, <3>1, <3>2, <3>3, <3>4 DEF NInv, CopiesKnow
  <2>3. todo[task.event] = None
    BY <1>1 DEF NInv, CopiesKnow
  <2>4. \A i : Single(i)' = Single(i)
    BY <1>3 DEF Single
  <2>5. task'.next >= 1
    BY <1>1, <1>3, TasksJob DEF NInv, CopiesKnow
  <2>6. QED BY <1>1, <1>3, <1>4, <2>1, <2>2, <2>3, <2>4, <2>5 DEF CopiesKnow
<1>10. QED BY <1>5, <1>6, <1>7, <1>9 DEF NInv

\* What the end of a job does to the list.
LEMMA FinishedFacts ==
  ASSUME NInv, task.phase # "idle", Current
  PROVE  /\ Finished \in Jobs
         /\ \A e \in Event \ {task.event} : Finished[e] = jobs[e]
         /\ LET j == Finished[task.event] IN
              \/ j = None /\ ~task.failed /\ ~task.job.scheduled
              \/ /\ j \in Job /\ j.done = jobs[task.event].done /\ j.at = jobs[task.event].at
                 /\ j.scheduled = jobs[task.event].scheduled
                 /\ j.to = jobs[task.event].to
                 /\ j.wait = IF task.failed THEN "retry" ELSE "ever"
<1> DEFINE e == task.event
           j == IF task.failed THEN [jobs[e] EXCEPT !.wait = "retry"]
                ELSE IF task.job.scheduled THEN [jobs[e] EXCEPT !.wait = "ever"]
                ELSE None
<1>1. e \in Event /\ jobs \in Jobs /\ jobs[e] \in Job
  BY DEF NInv, TypeOK, CopiesKnow, Current, Listed, Jobs
<1>2. Finished = [jobs EXCEPT ![e] = j]
  BY DEF Finished
<1>3. \/ j = None /\ ~task.failed /\ ~task.job.scheduled
      \/ /\ j \in Job /\ j.done = jobs[e].done /\ j.at = jobs[e].at
         /\ j.scheduled = jobs[e].scheduled /\ j.to = jobs[e].to
         /\ j.wait = IF task.failed THEN "retry" ELSE "ever"
  BY <1>1 DEF Job
<1> HIDE DEF j
<1>4. Finished \in Jobs /\ Finished[e] = j /\ \A x \in Event \ {e} : Finished[x] = jobs[x]
  BY <1>1, <1>2, <1>3 DEF Jobs
<1>5. QED BY <1>3, <1>4

LEMMA EndJobStep ==
  ASSUME NInv, NEW works \in BOOLEAN, EndJob(works)
  PROVE  NInv'
<1>1. task.phase # "idle" /\ task' = Idle /\ UNCHANGED <<todo, settled>>
  BY DEF EndJob
<1>2. CASE Current /\ works
  <2>1. jobs' = Finished /\ stored' = Finished
    BY <1>2 DEF EndJob, SetJobs
  <2>2. TypeOK'
    BY <1>1, <1>2, <2>1, FinishedFacts, Basics DEF EndJob, NInv, TypeOK, history
  <2>3. SurvivesRestart'
    <3> SUFFICES ASSUME NEW e \in Event, jobs'[e] # None
                 PROVE  jobs'[e] = [jobs'[e] EXCEPT !.done = jobs'[e].done]
      BY <2>1 DEF SurvivesRestart
    <3>1. jobs'[e] \in Job
      BY <2>2 DEF TypeOK, Jobs
    <3>2. QED BY <3>1 DEF Job
  <2>4. ASSUME NEW e \in Event, jobs'[e] # None
        PROVE  jobs'[e].done = jobs[e].done /\ jobs'[e].at = jobs[e].at /\ jobs[e] # None
    <3>1. CASE e = task.event
      BY <1>1, <1>2, <2>1, <2>4, <3>1, FinishedFacts DEF Current, Listed
    <3>2. CASE e # task.event
      BY <1>1, <1>2, <2>1, <2>4, <3>2, FinishedFacts
    <3>3. QED BY <3>1, <3>2
  <2>5. MarksAreTrue'
    BY <1>1, <2>4, Basics DEF NInv, MarksAreTrue, Marked
  <2>6. CopiesKnow'
    BY <1>1, <2>4, Basics DEF NInv, CopiesKnow, Listed
  <2>7. QED BY <2>2, <2>3, <2>5, <2>6 DEF NInv
<1>3. CASE ~(Current /\ works)
  <2>1. UNCHANGED <<jobs, stored>>
    BY <1>3 DEF EndJob, SetJobs, store
  <2>2. TypeOK'
    BY <1>1, <2>1, Basics DEF EndJob, NInv, TypeOK, history
  <2>3. SurvivesRestart' /\ MarksAreTrue' /\ CopiesKnow'
    BY <1>1, <2>1, Basics DEF NInv, SurvivesRestart, MarksAreTrue, Marked, CopiesKnow, Listed
  <2>4. QED BY <2>2, <2>3 DEF NInv
<1>4. QED BY <1>2, <1>3

-----------------------------------------------------------------------------
\* The invariant.

LEMMA CommitStep ==
  ASSUME NInv, NEW s \in Notes, NEW i \in Notes, NEW works \in BOOLEAN,
         CommitSession(s, i, works)
  PROVE  NInv'
<1> DEFINE js == Committed(s, i)
<1>1. Follows(js)
  BY CommittedFollows DEF NInv
<1>2. \A n \in Notes : n # None => n.event \in Event
  BY NoticesAssumption DEF Notes
<1>3. CASE works
  <2>1. jobs' = js /\ stored' = js
    BY <1>3 DEF CommitSession, SetJobs
  <2>2. game' \in [live : BOOLEAN, events : SUBSET Event, file : (SUBSET Event) \cup {None}]
    BY <1>2, <1>3 DEF CommitSession, NInv, TypeOK
  <2>3. away' \subseteq Event
    BY <1>3, TakenTyped DEF CommitSession, NInv, TypeOK
  <2> HIDE DEF js
  <2>4. TypeOK'
    BY <1>1, <2>1, <2>2, <2>3 DEF CommitSession, NInv, TypeOK, Follows
  <2>5. QED BY <1>1, <2>1, <2>4, ListStep DEF CommitSession
<1>4. CASE ~works
  <2>1. UNCHANGED <<game, jobs, stored, clock, token, todo, task, history>>
    BY <1>4 DEF CommitSession, SetJobs, store, history
  <2>2. TypeOK'
    BY <2>1 DEF NInv, TypeOK, history
  <2>3. QED BY <2>1, <2>2, QuietStep DEF history
<1>5. QED BY <1>3, <1>4

LEMMA CrashStep ==
  ASSUME NInv,
         Crash \/ CrashInPrune \/ \E s, i \in Notes : CrashInCommit(s, i)
  PROVE  NInv'
<1>1. CASE Crash
  <2>1. game' \in [live : BOOLEAN, events : SUBSET Event, file : (SUBSET Event) \cup {None}]
    BY <1>1 DEF Crash, NInv, TypeOK
  <2>2. QED BY <1>1, <2>1, StoredMarks, RestartStep DEF Crash, NInv, TypeOK
<1>2. CASE CrashInPrune
  <2>1. game' \in [live : BOOLEAN, events : SUBSET Event, file : (SUBSET Event) \cup {None}]
    BY <1>2 DEF CrashInPrune, NInv, TypeOK
  <2>2. QED BY <1>2, <2>1, StoredMarks, RestartStep DEF CrashInPrune, NInv, TypeOK
<1>3. ASSUME NEW s \in Notes, NEW i \in Notes, CrashInCommit(s, i) PROVE NInv'
  <2> DEFINE js == Committed(s, i)
  <2>1. js \in Jobs /\ \A e \in Event : Marked(e, js[e])
    BY CommittedFollows, FollowingMarks DEF NInv
  <2>2. game' \in [live : BOOLEAN, events : SUBSET Event, file : (SUBSET Event) \cup {None}]
    BY <1>3 DEF CrashInCommit, NInv, TypeOK
  <2>3. Restarted(js)
    BY <1>3 DEF CrashInCommit
  <2> HIDE DEF js
  <2>4. QED BY <2>1, <2>2, <2>3, RestartStep
<1>4. QED BY <1>1, <1>2, <1>3

LEMMA PruneStep ==
  ASSUME NInv, NEW works \in BOOLEAN, Prune(works)
  PROVE  NInv'
<1>1. game' \in [live : BOOLEAN, events : SUBSET Event, file : (SUBSET Event) \cup {None}]
  BY DEF Prune, NInv, TypeOK
<1>2. Follows(Empty) /\ away' \subseteq Event
  BY Basics, TakenTyped DEF Follows, Prune, NInv, TypeOK
<1>3. CASE works
  <2>1. jobs' = Empty /\ stored' = Empty
    BY <1>3 DEF Prune, SetJobs
  <2>2. TypeOK'
    BY <1>1, <1>2, <2>1, Basics DEF Prune, NInv, TypeOK
  <2>3. QED BY <1>2, <2>1, <2>2, ListStep DEF Prune
<1>4. CASE ~works
  <2>1. UNCHANGED <<jobs, stored>>
    BY <1>4 DEF Prune, SetJobs, store
  <2>2. TypeOK'
    BY <1>1, <1>2, <2>1 DEF Prune, NInv, TypeOK
  <2>3. QED BY <2>1, <2>2, QuietStep DEF Prune
<1>5. QED BY <1>3, <1>4

LEMMA NextNInv == NInv /\ [Next]_vars => NInv'
<1> SUFFICES ASSUME NInv, [Next]_vars PROVE NInv'
  OBVIOUS
<1>1. ASSUME NEW s \in Notes, NEW i \in Notes, NEW works \in BOOLEAN,
             CommitSession(s, i, works)
      PROVE  NInv'
  BY <1>1, CommitStep
<1>2. CASE Crash \/ CrashInPrune \/ \E s, i \in Notes : CrashInCommit(s, i)
  BY <1>2, CrashStep
<1>3. ASSUME NEW works \in BOOLEAN, Prune(works) PROVE NInv'
  BY <1>3, PruneStep
<1>4. CASE Sleep \/ Wake \/ Tick
  <2>1. UNCHANGED <<jobs, stored, token, todo, task, settled, unread, away>>
    BY <1>4 DEF Sleep, Wake, Tick, store, history
  <2>2. game' \in [live : BOOLEAN, events : SUBSET Event, file : (SUBSET Event) \cup {None}]
    <3> DEFINE G == [live : BOOLEAN, events : SUBSET Event, file : (SUBSET Event) \cup {None}]
    <3>1. game \in G
      BY DEF NInv, TypeOK
    <3>2. CASE Sleep
      BY <3>1, <3>2 DEF Sleep
    <3>3. CASE Wake
      <4>1. game.file \in SUBSET Event
        BY <3>1, <3>3 DEF Wake
      <4>2. QED BY <3>1, <3>3, <4>1 DEF Wake
    <3>4. CASE Tick
      BY <3>1, <3>4 DEF Tick
    <3>5. QED BY <1>4, <3>2, <3>3, <3>4
  <2>3. clock' \in Time
    BY <1>4, NoticesAssumption DEF Sleep, Wake, Tick, NInv, TypeOK, Time
  <2>4. TypeOK'
    BY <2>1, <2>2, <2>3 DEF NInv, TypeOK
  <2>5. QED BY <2>1, <2>4, QuietStep
<1>5. ASSUME NEW p \in Account, NEW k \in Token \cup {None}, SetDevice(p, k) PROVE NInv'
  <2>1. TypeOK'
    BY <1>5 DEF SetDevice, NInv, TypeOK, store, history
  <2>2. QED BY <1>5, <2>1, QuietStep DEF SetDevice, store, history
<1>6. ASSUME NEW rested \in BOOLEAN, StartRound(rested) PROVE NInv'
  BY <1>6, StartRoundStep
<1>7. ASSUME NEW e \in Event, StartJob(e) PROVE NInv'
  BY <1>7, StartJobStep
<1>8. ASSUME NEW found \in BOOLEAN, LookUp(found) PROVE NInv'
  BY <1>8, LookUpStep
<1>9. CASE Check
  BY <1>9, CheckStep
<1>10. CASE SendFails
  BY <1>10, SendFailsStep
<1>11. ASSUME NEW found \in BOOLEAN, Record(found) PROVE NInv'
  BY <1>11, RecordStep
<1>12. ASSUME NEW works \in BOOLEAN, EndJob(works) PROVE NInv'
  BY <1>12, EndJobStep
<1>13. ASSUME NEW p \in Account, NEW valid \in BOOLEAN, SendWorks(p, valid) PROVE NInv'
  BY <1>13, SendWorksStep
<1>14. CASE UNCHANGED vars
  <2>1. TypeOK'
    BY <1>14 DEF vars, NInv, TypeOK, store, history
  <2>2. QED BY <1>14, <2>1, QuietStep DEF vars, store, history
<1>15. QED BY <1>1, <1>2, <1>3, <1>4, <1>5, <1>6, <1>7, <1>8, <1>9, <1>10, <1>11,
              <1>12, <1>13, <1>14 DEF Next

\* NInv holds in every reachable state.
THEOREM NInvHolds == Spec => []NInv
<1>1. QED BY InitNInv, NextNInv, PTL DEF Spec

\* The variables keep their types (the declarations of store.rs and push.rs).
THEOREM NoticeTypes == Spec => []TypeOK
<1>1. NInv => TypeOK
  BY DEF NInv
<1>2. QED BY <1>1, NInvHolds, PTL

\* What a restart reads from notifications/ is the list in RAM, less at most
\* whom the present round has reached (store.rs set_jobs, commit, prune).
THEOREM RestartSafe == Spec => []SurvivesRestart
<1>1. NInv => SurvivesRestart
  BY DEF NInv
<1>2. QED BY <1>1, NInvHolds, PTL

-----------------------------------------------------------------------------
\* Retries.

LEMMA MarksKept ==
  ASSUME NInv, [Next]_vars, ~Dies,
         NEW e \in Event, jobs[e] # None, jobs'[e] # None, jobs'[e].at = jobs[e].at
  PROVE  jobs[e].done \subseteq jobs'[e].done
<1>1. CASE jobs' = jobs
  BY <1>1
<1>2. ASSUME NEW s \in Notes, NEW i \in Notes, NEW works \in BOOLEAN,
             CommitSession(s, i, works), jobs' # jobs
      PROVE  jobs'[e] = jobs[e]
  <2>1. jobs' = Committed(s, i)
    BY <1>2 DEF CommitSession, SetJobs, store
  <2>2. Follows(jobs')
    BY <2>1, CommittedFollows DEF NInv
  <2>3. QED BY <2>2 DEF Follows, Listed
<1>3. ASSUME NEW works \in BOOLEAN, Prune(works), jobs' # jobs PROVE FALSE
  BY <1>3, Basics DEF Prune, SetJobs, store
<1>4. ~Crash /\ ~CrashInPrune /\ \A s, i \in Notes : ~CrashInCommit(s, i)
  BY DEF Dies
<1>5. ASSUME NEW found \in BOOLEAN, Record(found) PROVE jobs[e].done \subseteq jobs'[e].done
  BY <1>5, RecordFacts
<1>6. ASSUME NEW works \in BOOLEAN, EndJob(works), jobs' # jobs
      PROVE  jobs'[e].done = jobs[e].done
  <2>1. jobs' = Finished /\ Current /\ task.phase # "idle"
    BY <1>6 DEF EndJob, SetJobs, store
  <2>2. QED BY <2>1, FinishedFacts
<1>7. QED
  BY <1>1, <1>2, <1>3, <1>4, <1>5, <1>6
  DEF Next, vars, store, Sleep, Wake, Tick, SetDevice,
      StartRound, StartJob, LookUp, Check, SendFails, SendWorks

\* Nobody who is marked is sent a notice again unless he is named twice, and no
\* mark is lost while the process lives (push.rs deliver: the copy of a job
\* taken before the awaits is never behind the list on those the task has yet
\* to reach for the first time).
THEOREM RetrySafe == Spec => RetriesOnlyFailed
<1> DEFINE Sent == SentAgain => ~NamedOnce
           Kept2 == \A e \in Event :
                      jobs[e] # None /\ jobs'[e] # None /\ jobs'[e].at = jobs[e].at /\ ~Dies
                      => jobs[e].done \subseteq jobs'[e].done
<1>1. NInv => Sent
  <2> SUFFICES ASSUME NInv, SentAgain, NamedOnce PROVE FALSE
    OBVIOUS
  <2>1. /\ task.next \in DOMAIN task.job.to /\ Who \notin task.job.done
        /\ task.next >= task.next /\ Who = task.job.to[task.next]
    BY TasksJob DEF SentAgain, NInv, CopiesKnow, Who
  <2>2. Single(task.next)
    BY <2>1 DEF NamedOnce, Single
  <2>3. QED BY <2>1, <2>2 DEF SentAgain, NInv, CopiesKnow
<1>2. NInv /\ [Next]_vars => Kept2
  BY MarksKept
<1>3. Sent' /\ Kept2 => [(SentAgain' => ~NamedOnce') /\ Kept2]_vars
  OBVIOUS
<1>4. QED BY <1>1, <1>2, <1>3, NInvHolds, PTL DEF Spec, RetriesOnlyFailed

-----------------------------------------------------------------------------
\* No notice is forgotten: what a round ends without having reached everybody
\* it has passed over knowingly, or its job was off the list in between.

LEMMA InitRound == Init => RoundTrue
  BY Basics DEF Init, RoundTrue

\* Steps that leave the list and the task alone.
LEMMA QuietRound ==
  ASSUME RoundTrue, UNCHANGED <<jobs, todo, task, settled, unread, away>>
  PROVE  RoundTrue'
  BY DEF RoundTrue, Listed, Current

\* After a restart there is no round.
LEMMA RestartRound ==
  ASSUME NEW js, Restarted(js)
  PROVE  RoundTrue'
  BY Basics DEF Restarted, RoundTrue

\* A new list beside a round in progress: the jobs of the round that stay on it
\* stay as they are.
LEMMA ListRound ==
  ASSUME NInv, RoundTrue, NEW js, Follows(js), jobs' = js, away' = away \cup Taken(js),
         UNCHANGED <<todo, task, settled, unread>>
  PROVE  RoundTrue'
<1>1. ASSUME NEW e \in Event, todo[e] # None \/ task.event = e, NEW t, Listed(e, t),
             e \notin away'
      PROVE  js[e] = jobs[e]
  <2>1. js[e] # None /\ js[e].at = jobs[e].at
    BY <1>1 DEF Taken, Listed
  <2>2. QED BY <1>1, <2>1 DEF Follows, Listed
<1>2. ASSUME NEW e \in Event, todo[e] # None, e \notin away'
      PROVE  Listed(e, todo[e].at)' /\ jobs'[e].to = todo[e].to
  <2>1. Listed(e, todo[e].at) /\ jobs[e].to = todo[e].to
    BY <1>2 DEF RoundTrue
  <2>2. js[e] = jobs[e]
    BY <1>1, <1>2, <2>1
  <2>3. QED BY <2>1, <2>2 DEF Listed
<1>3. ASSUME task.phase # "idle", task.event \notin away'
      PROVE  Current' /\ jobs'[task.event].to = task.job.to
  <2>1. Current /\ jobs[task.event].to = task.job.to /\ task.event \in Event
    BY <1>3 DEF NInv, CopiesKnow, RoundTrue
  <2>2. js[task.event] = jobs[task.event]
    BY <1>1, <1>3, <2>1 DEF Current
  <2>3. QED BY <2>1, <2>2 DEF Current, Listed
<1>4. QED BY <1>2, <1>3 DEF RoundTrue

\* Steps of the task, which leave the list alone or mark a job: they pass a
\* recipient who is settled or unread, or note that the send failed.
LEMMA TaskRound ==
  ASSUME NInv, RoundTrue, UNCHANGED <<todo, away>>,
         settled \subseteq settled', unread \subseteq unread',
         \A e \in Event : jobs[e] # None =>
            jobs'[e] # None /\ jobs'[e].at = jobs[e].at /\ jobs'[e].to = jobs[e].to,
         task.phase # "idle", task'.event = task.event, task'.job = task.job,
         task.failed => task'.failed,
         \/ task'.next = task.next
         \/ /\ task'.next = task.next + 1
            /\ Current /\ ~task'.failed =>
                 <<task.event, task.job.at, Who>> \in settled' \/ Who \in unread'
  PROVE  RoundTrue'
<1>1. ASSUME NEW e \in Event, todo[e] # None, e \notin away
      PROVE  Listed(e, todo[e].at)' /\ jobs'[e].to = todo[e].to
  BY <1>1 DEF RoundTrue, Listed
<1>2. ASSUME task.event \notin away
      PROVE  Current' /\ jobs'[task.event].to = task.job.to
  BY <1>2 DEF NInv, CopiesKnow, RoundTrue, Current, Listed
<1>3. ASSUME task.event \notin away, ~task'.failed, NEW i \in DOMAIN task.job.to, i < task'.next
      PROVE  \/ <<task.event, task.job.at, task.job.to[i]>> \in settled'
             \/ task.job.to[i] \in unread'
  <2>1. Current
    BY <1>3 DEF RoundTrue
  <2>2. CASE i < task.next
    BY <1>3, <2>2 DEF RoundTrue
  <2>3. CASE ~(i < task.next)
    <3>1. i \in Nat /\ task.next \in Nat
      BY <1>3, TasksJob
    <3>2. task'.next # task.next
      BY <1>3, <2>3
    <3>3. task'.next = task.next + 1
      BY <3>2
    <3>4. i = task.next
      BY <1>3, <2>3, <3>1, <3>3
    <3>5. QED BY <1>3, <2>1, <3>2, <3>4 DEF Who
  <2>4. QED BY <2>2, <2>3
<1>4. QED BY <1>1, <1>2, <1>3 DEF RoundTrue

LEMMA LookUpRound ==
  ASSUME NInv, RoundTrue, NEW found \in BOOLEAN, LookUp(found)
  PROVE  RoundTrue'
<1>1. /\ task \in Task /\ task.event \in Event /\ task.phase = "target"
      /\ UNCHANGED <<jobs, todo, away>> /\ settled \subseteq settled' /\ unread \subseteq unread'
  BY TasksJob DEF LookUp, NInv, CopiesKnow, store
<1>2. CASE ~(found /\ ~Skips(Who))
  <2>1. task' = NextTarget(FALSE)
    BY <1>2 DEF LookUp
  <2>2. /\ task'.event = task.event /\ task'.job = task.job /\ task'.next = task.next + 1
        /\ task'.failed = (task.failed \/ FALSE)
    BY <1>1, <2>1, NextTargetFacts
  <2>3. <<task.event, task.job.at, Who>> \in settled' \/ Who \in unread'
    BY <1>1, <1>2, TasksJob, NoticesAssumption
    DEF LookUp, Skips, NInv, MarksAreTrue, Marked
  <2>4. QED BY <1>1, <2>2, <2>3, TaskRound
<1>3. CASE found /\ ~Skips(Who)
  <2>1. task' = [task EXCEPT !.phase = "check", !.token = token[Who]]
    BY <1>3 DEF LookUp
  <2>2. /\ task'.event = task.event /\ task'.job = task.job /\ task'.next = task.next
        /\ task'.failed = task.failed
    BY <1>1, <2>1 DEF Task
  <2>3. QED BY <1>1, <2>2, TaskRound
<1>4. QED BY <1>2, <1>3

LEMMA SendRound ==
  ASSUME NInv, RoundTrue,
         Check \/ SendFails \/ \E p \in Account, valid \in BOOLEAN : SendWorks(p, valid)
  PROVE  RoundTrue'
<1>1. /\ task \in Task /\ task.phase # "idle"
      /\ UNCHANGED <<jobs, todo, away>> /\ settled \subseteq settled' /\ unread \subseteq unread'
  BY TasksJob DEF Check, SendFails, SendWorks, store, history
<1>2. CASE Check
  <2>1. CASE Current
    <3>1. task' = [task EXCEPT !.phase = "send"]
      BY <1>2, <2>1 DEF Check
    <3>2. /\ task'.event = task.event /\ task'.job = task.job /\ task'.next = task.next
          /\ task'.failed = task.failed
      BY <1>1, <3>1 DEF Task
    <3>3. QED BY <1>1, <3>2, TaskRound
  <2>2. CASE ~Current
    <3>1. /\ task'.event = task.event /\ task'.job = task.job /\ task'.next = task.next + 1
          /\ task'.failed = (task.failed \/ FALSE)
      BY <1>1, <1>2, <2>2, NextTargetFacts DEF Check
    <3>2. QED BY <1>1, <2>2, <3>1, TaskRound
  <2>3. QED BY <2>1, <2>2
<1>3. CASE SendFails
  <2>1. /\ task'.event = task.event /\ task'.job = task.job /\ task'.next = task.next + 1
        /\ task'.failed = (task.failed \/ TRUE)
    BY <1>1, <1>3, NextTargetFacts DEF SendFails
  <2>2. QED BY <1>1, <2>1, TaskRound
<1>4. ASSUME NEW p \in Account, NEW valid \in BOOLEAN, SendWorks(p, valid) PROVE RoundTrue'
  <2>1. task' = [task EXCEPT !.phase = "record", !.valid = valid]
    BY <1>4 DEF SendWorks
  <2>2. /\ task'.event = task.event /\ task'.job = task.job /\ task'.next = task.next
        /\ task'.failed = task.failed
    BY <1>1, <2>1 DEF Task
  <2>3. QED BY <1>1, <2>2, TaskRound
<1>5. QED BY <1>2, <1>3, <1>4

LEMMA RecordRound ==
  ASSUME NInv, RoundTrue, NEW found \in BOOLEAN, Record(found)
  PROVE  RoundTrue'
<1>1. /\ task \in Task /\ task.phase = "record"
      /\ <<task.event, task.job.at, Who>> \in settled
      /\ UNCHANGED <<todo, away, settled, unread>>
  BY TasksJob DEF Record, NInv, CopiesKnow, history
<1>2. /\ task'.event = task.event /\ task'.job = task.job /\ task'.next = task.next + 1
      /\ task'.failed = (task.failed \/ FALSE)
  BY <1>1, NextTargetFacts DEF Record
<1>3. \A e \in Event : jobs[e] # None =>
        jobs'[e] # None /\ jobs'[e].at = jobs[e].at /\ jobs'[e].to = jobs[e].to
  BY RecordFacts, NoticesAssumption
<1>4. QED BY <1>1, <1>2, <1>3, TaskRound

LEMMA EndJobRound ==
  ASSUME NInv, RoundTrue, NEW works \in BOOLEAN, EndJob(works)
  PROVE  RoundTrue'
<1>1. /\ task'.phase = "idle" /\ task.phase # "idle" /\ task.event \in Event
      /\ todo[task.event] = None /\ todo' = todo /\ away' = away \ {task.event}
  BY Basics DEF EndJob, NInv, CopiesKnow
<1>2. \A e \in Event \ {task.event} : jobs'[e] = jobs[e]
  BY <1>1, FinishedFacts DEF EndJob, SetJobs, store
<1>3. QED BY <1>1, <1>2 DEF RoundTrue, Listed

LEMMA StartRoundTrue ==
  ASSUME NInv, RoundTrue,
         (\E rested \in BOOLEAN : StartRound(rested)) \/ \E e \in Event : StartJob(e)
  PROVE  RoundTrue'
<1>1. ASSUME NEW rested \in BOOLEAN, StartRound(rested) PROVE RoundTrue'
  <2>1. task'.phase = "idle" /\ jobs' = jobs
    BY <1>1, Basics DEF StartRound, store
  <2>2. \A e \in Event : todo'[e] # None => todo'[e] = jobs[e]
    BY <1>1 DEF StartRound
  <2>3. QED BY <2>1, <2>2 DEF RoundTrue, Listed
<1>2. ASSUME NEW e \in Event, StartJob(e) PROVE RoundTrue'
  <2>1. /\ task'.phase = "target" /\ task'.event = e /\ task'.job = todo[e]
        /\ task'.next = 1 /\ todo[e] # None /\ UNCHANGED <<jobs, away>>
    BY <1>2, Basics DEF StartJob, Idle, Task, store, history
  <2>2. todo'[e] = None /\ \A x \in Event \ {e} : todo'[x] = todo[x]
    BY <1>2 DEF StartJob, NInv, TypeOK, Jobs
  <2>3. todo[e] \in Job
    BY <2>1 DEF NInv, TypeOK, Jobs
  <2>4. \A i \in DOMAIN task'.job.to : ~(i < 1)
    <3>1. task'.job.to \in Recipients \cup {<<>>}
      BY <2>1, <2>3 DEF Job
    <3>2. ASSUME NEW s \in Recipients \cup {<<>>}, NEW i \in DOMAIN s PROVE ~(i < 1)
      <4>1. <<>> \in Seq(Account) /\ Recipients \subseteq Seq(Account)
        BY ListsOfAccounts
      <4>2. s \in Seq(Account)
        BY <4>1
      <4>3. QED BY <4>2
    <3>3. QED BY <3>1, <3>2
  <2>5. QED BY <2>1, <2>2, <2>4 DEF RoundTrue, Listed, Current
<1>3. QED BY <1>1, <1>2

LEMMA PruneRound ==
  ASSUME NInv, RoundTrue, NEW works \in BOOLEAN, Prune(works)
  PROVE  RoundTrue'
<1>1. CASE works
  <2>1. Follows(Empty)
    BY Basics DEF Follows
  <2>2. jobs' = Empty /\ away' = away \cup Taken(Empty)
    BY <1>1 DEF Prune, SetJobs
  <2>3. QED BY <2>1, <2>2, ListRound DEF Prune
<1>2. CASE ~works
  BY <1>2, QuietRound DEF Prune, SetJobs, store
<1>3. QED BY <1>1, <1>2

LEMMA NextRound == NInv /\ RoundTrue /\ [Next]_vars => RoundTrue'
<1> SUFFICES ASSUME NInv, RoundTrue, [Next]_vars PROVE RoundTrue'
  OBVIOUS
<1>1. ASSUME NEW s \in Notes, NEW i \in Notes, NEW works \in BOOLEAN,
             CommitSession(s, i, works)
      PROVE  RoundTrue'
  <2> DEFINE js == Committed(s, i)
  <2>1. CASE works
    <3>1. Follows(js) /\ jobs' = js /\ away' = away \cup Taken(js)
      BY <1>1, <2>1, CommittedFollows DEF NInv, CommitSession, SetJobs
    <3>2. UNCHANGED <<todo, task, settled, unread>>
      BY <1>1 DEF CommitSession
    <3> HIDE DEF js
    <3>3. QED BY <3>1, <3>2, ListRound
  <2>2. CASE ~works
    BY <1>1, <2>2, QuietRound DEF CommitSession, SetJobs, store
  <2>3. QED BY <2>1, <2>2
<1>2. CASE Crash \/ CrashInPrune \/ \E s, i \in Notes : CrashInCommit(s, i)
  BY <1>2, RestartRound DEF Crash, CrashInPrune, CrashInCommit
<1>3. ASSUME NEW works \in BOOLEAN, Prune(works) PROVE RoundTrue'
  BY <1>3, PruneRound
<1>4. CASE Sleep \/ Wake \/ Tick \/ \E p \in Account, k \in Token \cup {None} : SetDevice(p, k)
  BY <1>4, QuietRound DEF Sleep, Wake, Tick, SetDevice, store, history
<1>5. CASE (\E rested \in BOOLEAN : StartRound(rested)) \/ \E e \in Event : StartJob(e)
  BY <1>5, StartRoundTrue
<1>6. ASSUME NEW found \in BOOLEAN, LookUp(found) PROVE RoundTrue'
  BY <1>6, LookUpRound
<1>7. CASE Check \/ SendFails \/ \E p \in Account, valid \in BOOLEAN : SendWorks(p, valid)
  BY <1>7, SendRound
<1>8. ASSUME NEW found \in BOOLEAN, Record(found) PROVE RoundTrue'
  BY <1>8, RecordRound
<1>9. ASSUME NEW works \in BOOLEAN, EndJob(works) PROVE RoundTrue'
  BY <1>9, EndJobRound
<1>10. CASE UNCHANGED vars
  BY <1>10, QuietRound DEF vars, store, history
<1>11. QED BY <1>1, <1>2, <1>3, <1>4, <1>5, <1>6, <1>7, <1>8, <1>9, <1>10 DEF Next

\* The fate of one job in a step.
LEMMA CommitKeeps ==
  ASSUME NInv, NEW s \in Notes, NEW i \in Notes, NEW e \in Event, Pending(e),
         jobs' = Committed(s, i), CommitSession(s, i, TRUE) \/ CrashInCommit(s, i)
  PROVE  Stays(e) \/ Ends(e)
<1>1. jobs[e] \in Job
  BY DEF NInv, TypeOK, Jobs, Pending
<1>2. CASE jobs'[e] = jobs[e]
  BY <1>2 DEF Stays, Pending
<1>3. CASE jobs'[e] # jobs[e]
  <2>1. jobs[e].scheduled
    BY <1>1, <1>3 DEF Committed, Kept, Job, Pending
  <2>2. Commits
    BY DEF Commits
  <2>3. QED BY <2>1, <2>2 DEF Ends
<1>4. QED BY <1>2, <1>3

LEMMA EndKeeps ==
  ASSUME NInv, RoundTrue, NEW works \in BOOLEAN, EndJob(works), jobs' # jobs,
         NEW e \in Event, Pending(e)
  PROVE  Stays(e) \/ PassedOver(e)
<1>1. /\ jobs' = Finished /\ Current /\ task.phase # "idle"
      /\ task.next \notin DOMAIN task.job.to /\ task.next >= 1
  BY DEF EndJob, SetJobs, store, NInv, CopiesKnow
<1>2. CASE e # task.event
  BY <1>1, <1>2, FinishedFacts DEF Stays, Pending
<1>3. CASE e = task.event /\ task.failed
  BY <1>1, <1>3, FinishedFacts, NoticesAssumption DEF Stays, Pending
<1>4. CASE e = task.event /\ ~task.failed /\ e \notin away
  <2>1. /\ jobs[e].to = task.job.to /\ jobs[e].at = task.job.at
        /\ \A i \in DOMAIN task.job.to : i < task.next =>
             \/ <<e, task.job.at, task.job.to[i]>> \in settled
             \/ task.job.to[i] \in unread
    BY <1>1, <1>4 DEF RoundTrue, Current, Listed
  <2>2. \A i \in DOMAIN task.job.to : i < task.next
    BY <1>1, TasksJob
  <2>3. QED BY <1>4, <2>1, <2>2 DEF PassedOver, Reached
<1>5. CASE e = task.event /\ e \in away
  BY <1>5 DEF PassedOver
<1>6. QED BY <1>2, <1>3, <1>4, <1>5

LEMMA NoneForgotten ==
  ASSUME NInv, RoundTrue, [Next]_vars, NEW e \in Event, Pending(e)
  PROVE  Stays(e) \/ Ends(e) \/ PassedOver(e)
<1>1. CASE jobs' = jobs
  BY <1>1 DEF Stays, Pending
<1>2. ASSUME NEW s \in Notes, NEW i \in Notes, NEW works \in BOOLEAN,
             CommitSession(s, i, works), jobs' # jobs
      PROVE  Stays(e) \/ Ends(e)
  <2>1. works = TRUE /\ jobs' = Committed(s, i)
    BY <1>2 DEF CommitSession, SetJobs, store
  <2>2. QED BY <1>2, <2>1, CommitKeeps
<1>3. ASSUME NEW s \in Notes, NEW i \in Notes, CrashInCommit(s, i) PROVE Stays(e) \/ Ends(e)
  <2>1. jobs' = Committed(s, i)
    BY <1>3 DEF CrashInCommit, Restarted
  <2>2. QED BY <1>3, <2>1, CommitKeeps
<1>4. CASE Crash \/ CrashInPrune
  <2>1. jobs' = stored
    BY <1>4 DEF Crash, CrashInPrune, Restarted
  <2>2. QED BY <2>1, StoredJobs DEF Stays, Pending
<1>5. ASSUME NEW works \in BOOLEAN, Prune(works) PROVE Ends(e)
  BY <1>5 DEF Prune, Ends, NInv, TypeOK
<1>6. ASSUME NEW found \in BOOLEAN, Record(found) PROVE Stays(e)
  <2>1. /\ jobs'[e] # None /\ jobs'[e].at = jobs[e].at /\ jobs'[e].wait = jobs[e].wait
    BY <1>6, RecordFacts, NoticesAssumption DEF Pending
  <2>2. QED BY <2>1 DEF Stays, Pending
<1>7. ASSUME NEW works \in BOOLEAN, EndJob(works), jobs' # jobs
      PROVE  Stays(e) \/ PassedOver(e)
  BY <1>7, EndKeeps
<1>8. QED
  BY <1>1, <1>2, <1>3, <1>4, <1>5, <1>6, <1>7
  DEF Next, vars, store, Sleep, Wake, Tick, SetDevice, StartRound, StartJob, LookUp, Check,
      SendFails, SendWorks

\* Besides reaching everybody, a commit that replaces a scheduled one, and the
\* end of its game, a notice ends only when a round could not read the accounts
\* of those it did not reach, or found it put back on the list (store.rs
\* commit, push.rs deliver); failing sends, crashes, commits beside a round and
\* repeated recipients forget nobody.
THEOREM ForgettingSafe == Spec => NothingForgotten
<1>1. Init => RoundTrue
  BY InitRound
<1>2. NInv /\ RoundTrue /\ [Next]_vars => RoundTrue'
  BY NextRound
<1>3. NInv /\ RoundTrue /\ [Next]_vars =>
        [\A e \in Event : Pending(e) => Stays(e) \/ Ends(e) \/ PassedOver(e)]_vars
  BY NoneForgotten
<1>4. QED BY <1>1, <1>2, <1>3, NInvHolds, PTL DEF Spec, NothingForgotten
=============================================================================
