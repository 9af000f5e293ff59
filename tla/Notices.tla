------------------------------- MODULE Notices -------------------------------
(***************************************************************************)
(* The notices of one persistent game: jobs that commitSession writes      *)
(* ahead of the state (rust/store.rs commit, set_jobs), and the task that  *)
(* delivers them (rust/push.rs deliver), which runs beside the worker and  *)
(* asks it for one thing at a time.                                        *)
(*                                                                         *)
(* Abstracted: the game, which is what of it notices touch: whether it is  *)
(* in RAM, the ids of the immediate events it has seen, and its file; an   *)
(* account's devices, of which it has one; a device that shows the game in *)
(* the foreground counts as one that took the notice; that a token is      *)
(* taken from the account that had it (tokens of two accounts are never    *)
(* compared); texts.  Events of a game stay under 128.                     *)
(***************************************************************************)
EXTENDS Integers, FiniteSets, Sequences

CONSTANTS
  Account,     \* the accounts of the game's roster
  Event,       \* event ids
  Notice,      \* the notices hosts send: what, when, and a list of recipients,
               \* which may name an account twice
  Token,       \* push tokens
  None,        \* Rust's Option::None
  MaxTime,     \* bound: the times notices are for are 0 .. MaxTime
  ReadsFail    \* accounts that are not in RAM may be unreadable for a while

\* A job: when, for whom, by which field of a commit, who has it; and whether
\* it waits for its first round, for a retry or for ever (retryAt in the code).
Time == 0 .. MaxTime
Recipients == {n.to : n \in Notice}
Job == [at : Time, to : Recipients \cup {<<>>}, scheduled : BOOLEAN,
        done : SUBSET Account, wait : {"none", "retry", "ever"}]

ASSUME NoticesAssumption ==
  /\ Notice \subseteq [event : Event, at : Time, to : Seq(Account)]
  /\ None \notin Event \cup Job
  /\ MaxTime \in Nat
  /\ ReadsFail \in BOOLEAN

VARIABLES
  game,       \* the Room: in RAM or not, its event ids, those in its file
  jobs,       \* Store.jobs of the game
  stored,     \* its file under notifications/
  clock,      \* the present time
  token,      \* each account's device
  todo,       \* deliver: jobs of this round that are still to be done
  task,       \* deliver: the job it is at
  settled,    \* history: who got which notice, or had no device to get it
  unread,     \* history: whom the task could not read since it began the job
  away        \* history: jobs of the round that were off the list since

store == <<jobs, stored>>
history == <<settled, unread, away>>
vars == <<game, jobs, stored, clock, token, todo, task, history>>

NoJob == [at |-> 0, to |-> <<>>, scheduled |-> FALSE, done |-> {}, wait |-> "none"]
Jobs == [Event -> Job \cup {None}]
Empty == [e \in Event |-> None]

\* The phases of a round: the account is looked up, the job is looked up
\* again, the provider has the request, its answer is written down.
Task == [phase : {"idle", "target", "check", "send", "record"},
         event : Event \cup {None}, job : Job, next : Nat,
         failed : BOOLEAN, token : Token \cup {None}, valid : BOOLEAN]
Idle == [phase |-> "idle", event |-> None, job |-> NoJob, next |-> 1,
         failed |-> FALSE, token |-> None, valid |-> TRUE]

\* The recipient it is at.
Who == task.job.to[task.next]

TypeOK ==
  /\ game \in [live : BOOLEAN, events : SUBSET Event, file : (SUBSET Event) \cup {None}]
  /\ jobs \in Jobs /\ stored \in Jobs /\ todo \in Jobs
  /\ clock \in Time
  /\ token \in [Account -> Token \cup {None}]
  /\ task \in Task
  /\ settled \subseteq Event \X Time \X Account
  /\ unread \subseteq Account /\ away \subseteq Event

Init ==
  /\ game = [live |-> TRUE, events |-> {}, file |-> None]
  /\ jobs = Empty /\ stored = Empty
  /\ clock = 0
  /\ token \in [Account -> Token \cup {None}]
  /\ todo = Empty /\ task = Idle
  /\ settled = {} /\ unread = {} /\ away = {}

-----------------------------------------------------------------------------
\* The list of jobs

\* Mutant of SetJobs: the list in RAM changes whether or not the disk does.
SetJobsAnyway(js, works) == jobs' = js /\ stored' = IF works THEN js ELSE stored

\* set_jobs(): first the disk, which works or not, and RAM only if it did.
SetJobs(js, works) ==
  IF works THEN jobs' = js /\ stored' = js ELSE UNCHANGED store

\* Mutant of Kept: deliveries that have failed once are not kept.
KeptFresh(j) == j # None /\ ~j.scheduled /\ j.wait = "none"

\* A commit keeps immediate jobs that are not delivered yet.
Kept(j) == j # None /\ ~j.scheduled /\ j.wait # "ever"

\* A job is identified by its event and its time.
Listed(e, t) == jobs[e] # None /\ jobs[e].at = t

\* The job of a notice: the one there is of that event and time, with its
\* recipients and all that has been done about it, or a new one.
JobFor(n, scheduled) ==
  IF Listed(n.event, n.at) THEN jobs[n.event]
  ELSE [NoJob EXCEPT !.at = n.at, !.to = n.to, !.scheduled = scheduled]

\* commit(): what stays, then the scheduled notice, then the immediate one; an
\* event the game has seen, or that is on the list, is not put on it again.
Committed(s, i) ==
  [e \in Event |->
     IF Kept(jobs[e]) THEN jobs[e]
     ELSE IF e \in game.events THEN None
     ELSE IF s # None /\ s.event = e THEN JobFor(s, TRUE)
     ELSE IF i # None /\ i.event = e THEN JobFor(i, FALSE)
     ELSE None]

\* Jobs of the round that are not on the list `js` any more.
Taken(js) ==
  {e \in Event : /\ task.event = e \/ todo[e] # None
                 /\ jobs[e] # None
                 /\ js[e] = None \/ js[e].at # jobs[e].at}

-----------------------------------------------------------------------------
\* The game

\* commitSession of a complete upload: notices first, then the state; if the
\* disk refuses the notices nothing is committed.
CommitSession(s, i, works) ==
  /\ game.live
  /\ SetJobs(Committed(s, i), works)
  /\ IF works
     THEN /\ game' = [game EXCEPT !.events = IF i = None THEN @ ELSE @ \cup {i.event}]
          /\ away' = away \cup Taken(Committed(s, i))
     ELSE UNCHANGED <<game, away>>
  /\ UNCHANGED <<clock, token, todo, task, settled, unread>>

\* The last member leaves and the disk takes the game.
Sleep ==
  /\ game.live
  /\ game' = [live |-> FALSE, events |-> {}, file |-> game.events]
  /\ UNCHANGED <<store, clock, token, todo, task, history>>

\* A participant comes back: the game is read from its file.
Wake ==
  /\ ~game.live /\ game.file # None
  /\ game' = [game EXCEPT !.live = TRUE, !.events = game.file]
  /\ UNCHANGED <<store, clock, token, todo, task, history>>

\* prune(): the quota takes the game and its notices; if the disk will not
\* remove those they stay without it.
Prune(works) ==
  /\ ~game.live /\ game.file # None
  /\ game' = [game EXCEPT !.file = None]
  /\ SetJobs(Empty, works)
  /\ away' = IF works THEN away \cup Taken(Empty) ELSE away
  /\ UNCHANGED <<clock, token, todo, task, settled, unread>>

\* The process dies and starts again; jobs are read from disk.
Restarted(js) ==
  /\ jobs' = js /\ stored' = js
  /\ todo' = Empty /\ task' = Idle
  /\ unread' = {} /\ away' = {}
  /\ UNCHANGED <<clock, token, settled>>

\* Anywhere between two handlers, or inside one before it wrote anything.
Crash ==
  /\ Restarted(stored)
  /\ game' = [game EXCEPT !.live = FALSE, !.events = {}]

\* In a commit, after the notices: the state they announce never was.
CrashInCommit(s, i) ==
  /\ game.live
  /\ Restarted(Committed(s, i))
  /\ game' = [game EXCEPT !.live = FALSE, !.events = {}]

\* In prune(), after the room file: notices of a game that is gone.
CrashInPrune ==
  /\ ~game.live /\ game.file # None
  /\ Restarted(stored)
  /\ game' = [game EXCEPT !.file = None]

Tick ==
  /\ clock < MaxTime /\ clock' = clock + 1
  /\ UNCHANGED <<game, store, token, todo, task, history>>

\* setPushDevice: another token, or none.
SetDevice(p, k) ==
  /\ token[p] # k /\ token' = [token EXCEPT ![p] = k]
  /\ UNCHANGED <<game, store, clock, todo, task, history>>

-----------------------------------------------------------------------------
\* The delivery task

\* Mutant of Due: a notice that failed once is not tried again.
DueOnce(j, rested) == j # None /\ j.at <= clock /\ j.wait = "none"

\* Its time has come; the 30 seconds after a failure may be over.
Due(j, rested) ==
  j # None /\ j.at <= clock /\ (j.wait = "none" \/ (j.wait = "retry" /\ rested))

\* A round begins with a copy of what is due.
StartRound(rested) ==
  /\ task = Idle /\ todo = Empty
  /\ \E e \in Event : Due(jobs[e], rested)
  /\ todo' = [e \in Event |-> IF Due(jobs[e], rested) THEN jobs[e] ELSE None]
  /\ UNCHANGED <<game, store, clock, token, task, history>>

\* The task takes one of the copies, and its recipients from the first on.
StartJob(e) ==
  /\ task = Idle /\ todo[e] # None
  /\ task' = [Idle EXCEPT !.phase = "target", !.event = e, !.job = todo[e]]
  /\ todo' = [todo EXCEPT ![e] = None]
  /\ UNCHANGED <<game, store, clock, token, history>>

\* Mutant of Skips: the copy's record of what is done is not looked at.
SkipsNobody(p) == token[p] = None

\* No device, or one that has the notice: the copy says so, which does not
\* know whom this round has reached.
Skips(p) == token[p] = None \/ p \in task.job.done

\* Mutant of Current: a job of that event, whatever its time.
CurrentByEvent == jobs[task.event] # None

\* The job the task works on is still on the list.
Current == Listed(task.event, task.job.at)

NextTarget(failed) ==
  [task EXCEPT !.phase = "target", !.next = @ + 1, !.failed = @ \/ failed,
               !.token = None, !.valid = TRUE]

\* The next recipient is looked up, in RAM or in his file; if that cannot be
\* read he is passed over, and the job is none the worse for it.
LookUp(found) ==
  /\ task.phase = "target" /\ task.next \in DOMAIN task.job.to
  /\ found \/ ReadsFail
  /\ task' = IF found /\ ~Skips(Who) THEN [task EXCEPT !.phase = "check", !.token = token[Who]]
             ELSE NextTarget(FALSE)
  /\ settled' = IF found /\ token[Who] = None
                THEN settled \cup {<<task.event, task.job.at, Who>>} ELSE settled
  /\ unread' = IF found THEN unread ELSE unread \cup {Who}
  /\ UNCHANGED <<game, store, clock, token, todo, away>>

\* Is the job still wanted?
Check ==
  /\ task.phase = "check"
  /\ task' = IF Current THEN [task EXCEPT !.phase = "send"] ELSE NextTarget(FALSE)
  /\ UNCHANGED <<game, store, clock, token, todo, history>>

\* The provider does not answer in time, or answers with an error.
SendFails ==
  /\ task.phase = "send"
  /\ task' = NextTarget(TRUE)
  /\ UNCHANGED <<game, store, clock, token, todo, history>>

\* It takes the notice, or says that the token is no longer valid.
SendWorks(p, valid) ==
  /\ task.phase = "send" /\ Who = p
  /\ task' = [task EXCEPT !.phase = "record", !.valid = valid]
  /\ settled' = settled \cup {<<task.event, task.job.at, p>>}
  /\ UNCHANGED <<game, store, clock, token, todo, unread, away>>

\* The answer is written down in RAM: a token that is not valid is removed if
\* it is still the device's and the account can be read and written, and the
\* job, if it is still there, is marked.
Record(found) ==
  /\ task.phase = "record"
  /\ found \/ ReadsFail
  /\ token' = IF ~task.valid /\ token[Who] = task.token /\ found
              THEN [token EXCEPT ![Who] = None] ELSE token
  /\ jobs' = IF Current THEN [jobs EXCEPT ![task.event].done = @ \cup {Who}] ELSE jobs
  /\ task' = NextTarget(FALSE)
  /\ UNCHANGED <<game, stored, clock, todo, history>>

\* Mutant of Finished: the task's copy is written back.
FinishedCopy ==
  [jobs EXCEPT ![task.event] =
     IF task.failed THEN [task.job EXCEPT !.wait = "retry"]
     ELSE IF task.job.scheduled THEN [task.job EXCEPT !.wait = "ever"]
     ELSE None]

\* An immediate job none of whose sends failed goes; a scheduled one stays and is
\* never due again; after a failure it is tried again later.
Finished ==
  [jobs EXCEPT ![task.event] =
     IF task.failed THEN [@ EXCEPT !.wait = "retry"]
     ELSE IF task.job.scheduled THEN [@ EXCEPT !.wait = "ever"]
     ELSE None]

\* The end of a job; the list may have gone on without it, and a disk that
\* refuses leaves everything as it is.
EndJob(works) ==
  /\ task.phase = "target" /\ task.next \notin DOMAIN task.job.to
  /\ IF Current THEN SetJobs(Finished, works) ELSE UNCHANGED store
  /\ task' = Idle
  /\ unread' = {} /\ away' = away \ {task.event}
  /\ UNCHANGED <<game, clock, token, todo, settled>>

-----------------------------------------------------------------------------
\* What a commit sets its two fields to.
Notes == {None} \cup Notice

Next ==
  \/ \E s, i \in Notes, works \in BOOLEAN : CommitSession(s, i, works)
  \/ \E s, i \in Notes : CrashInCommit(s, i)
  \/ Sleep \/ Wake \/ \E works \in BOOLEAN : Prune(works)
  \/ Crash \/ CrashInPrune
  \/ Tick
  \/ \E p \in Account, k \in Token \cup {None} : SetDevice(p, k)
  \/ \E rested \in BOOLEAN : StartRound(rested)
  \/ \E e \in Event : StartJob(e)
  \/ \E found \in BOOLEAN : LookUp(found) \/ Record(found)
  \/ Check \/ SendFails \/ \E works \in BOOLEAN : EndJob(works)
  \/ \E p \in Account, valid \in BOOLEAN : SendWorks(p, valid)

Spec == Init /\ [][Next]_vars

\* The task goes on, a request ends within its timeout, time passes; neither
\* the provider nor the disk refuses an account for ever.
Fairness ==
  /\ WF_vars(StartRound(TRUE))
  /\ \A e \in Event : WF_vars(StartJob(e))
  /\ WF_vars(\E found \in BOOLEAN : LookUp(found) \/ Record(found))
  /\ WF_vars(Check \/ \E works \in BOOLEAN : EndJob(works))
  /\ WF_vars(SendFails \/ \E p \in Account : SendWorks(p, TRUE))
  /\ WF_vars(Tick)
  /\ \A p \in Account : SF_vars(LookUp(TRUE) /\ Who = p) /\ SF_vars(SendWorks(p, TRUE))

FairSpec == Spec /\ Fairness

-----------------------------------------------------------------------------
\* Properties

\* What a restart would bring back is the list there is, except that people
\* may be notified again: the two differ at most in whom a round has reached.
SurvivesRestart ==
  \A e \in Event :
    /\ jobs[e] = None <=> stored[e] = None
    /\ jobs[e] # None => /\ jobs[e] = [stored[e] EXCEPT !.done = jobs[e].done]
                         /\ stored[e].done \subseteq jobs[e].done

\* Sent now to somebody who is marked already.
SentAgain == task.phase = "send" /\ Current /\ Who \in jobs[task.event].done

\* The recipient the task is at is named once in the job's list.
NamedOnce == \A i \in DOMAIN task.job.to : task.job.to[i] = Who => i = task.next

\* The process dies in this step.
Dies == Crash \/ CrashInPrune \/ \E s, i \in Notes : CrashInCommit(s, i)

\* A retry is for those who have not got the notice: nobody who is marked is
\* sent it again, unless the host named him twice, and as long as the process
\* lives no mark is lost (deliver: the copy's `done`, and whom it marks).
RetriesOnlyFailed ==
  [][/\ SentAgain' => ~NamedOnce'
     /\ \A e \in Event :
          jobs[e] # None /\ jobs'[e] # None /\ jobs'[e].at = jobs[e].at /\ ~Dies
          => jobs[e].done \subseteq jobs'[e].done]_vars

\* README.md:243: recipient arrays are unique, so that nobody who is marked is
\* sent a notice again.  The code does not see to it (MCNoticesTwice.cfg).
NobodyTwice == [][~SentAgain']_vars

Pending(e) == jobs[e] # None /\ jobs[e].wait # "ever"
Stays(e) == Pending(e)' /\ jobs'[e].at = jobs[e].at
Reached(e, p) == <<e, jobs[e].at, p>> \in settled
Commits == \E s, i \in Notes : CommitSession(s, i, TRUE) \/ CrashInCommit(s, i)

\* A notice ends by reaching everybody it is for, by a commit that replaces a
\* scheduled one, or with its game; commits keep queued immediate deliveries.
Ends(e) ==
  \/ \A i \in DOMAIN jobs[e].to : Reached(e, jobs[e].to[i])
  \/ jobs[e].scheduled /\ Commits
  \/ game.file # None /\ game'.file = None

\* README.md:58: delivery is at least once, so that there is no other way.
\* There are two, which MCNoticesAgain.cfg and MCNoticesUnread.cfg show.
EndsDelivered == [][\A e \in Event : Pending(e) => Stays(e) \/ Ends(e)]_vars

\* The two other ways it has (deliver): a round could not read the accounts
\* of those it did not reach; or it found the notice put back by a commit
\* after another had taken it off the list, and ended it for its own copy.
PassedOver(e) ==
  /\ task.event = e
  /\ \/ e \in away
     \/ \A i \in DOMAIN jobs[e].to : Reached(e, jobs[e].to[i]) \/ jobs[e].to[i] \in unread

\* Failing sends, crashes, commits beside a round, a disk that refuses and a
\* game that sleeps forget nobody: besides the ways of Ends and PassedOver a
\* notice that is not delivered stays on the list.
NothingForgotten ==
  [][\A e \in Event : Pending(e) => Stays(e) \/ Ends(e) \/ PassedOver(e)]_vars

\* At least once: everybody who is to get a notice gets it, in spite of
\* failures, restarts and a game that goes to sleep, unless the notice ends, and
\* as long as the process does not die again and again.
AtLeastOnce ==
  <>[][~Dies]_vars =>
    \A e \in Event, t \in Time :
      LET Waits == Listed(e, t) /\ jobs[e].wait # "ever"
      IN Waits ~> ~Waits \/ \A i \in DOMAIN jobs[e].to : Reached(e, jobs[e].to[i])
=============================================================================
