------------------------------ MODULE Admission ------------------------------
(***************************************************************************)
(* Admission of transports, rust/admission.rs, as the accept loop of       *)
(* rust/main.rs uses it: a connection task runs while it holds a permit.   *)
(*                                                                         *)
(* Time is kept as ages: Tick makes every entry and every admission older. *)
(* The clock of the code is taken to be monotonic.                         *)
(***************************************************************************)
EXTENDS Integers, FiniteSets, FiniteSetsExt

CONSTANTS
  Ip,              \* remote addresses
  Cid,             \* connection ids; the code never uses one again, a run does
  MaxConnections, MaxConnectionsPerIp, MaxConnectionsPerMinute,
  TrackerFactor,   \* tracked addresses per connection (4)
  Minute           \* length of a window in ticks (60000 ms)

ASSUME AdmissionAssumption ==
  \A n \in {MaxConnections, MaxConnectionsPerIp, MaxConnectionsPerMinute,
            TrackerFactor, Minute} : n \in Nat \ {0}

VARIABLES
  total,      \* Admission.total
  active,     \* Admission.active: permits per address, none at zero
  attempts,   \* Admission.attempts: age and number, per tracked address
  permits,    \* the connection tasks, each with its address
  admitted    \* history: for each address, admissions by age within a minute

vars == <<total, active, attempts, permits, admitted>>

Permit == [cid : Cid, ip : Ip]
\* saturating_add: only "more than MaxConnectionsPerMinute" matters.
Attempt == [age : 0 .. Minute, n : 0 .. MaxConnectionsPerMinute + 1]

TypeOK ==
  /\ total \in Nat
  /\ DOMAIN active \subseteq Ip /\ active \in [DOMAIN active -> Nat]
  /\ DOMAIN attempts \subseteq Ip /\ attempts \in [DOMAIN attempts -> Attempt]
  /\ permits \subseteq Permit
  /\ admitted \in [Ip -> [0 .. Minute - 1 -> Nat]]

Init ==
  /\ total = 0 /\ permits = {}
  /\ active = [ip \in {} |-> 0]
  /\ attempts = [ip \in {} |-> [age |-> 0, n |-> 0]]
  /\ admitted = [ip \in Ip |-> [a \in 0 .. Minute - 1 |-> 0]]

Count(ip) == IF ip \in DOMAIN active THEN active[ip] ELSE 0

\* Mutant: an address keeps its entry at zero.
SetActiveKeeping(ip, n) ==
  [i \in DOMAIN active \cup {ip} |-> IF i = ip THEN n ELSE active[i]]

SetActive(ip, n) ==
  [i \in (DOMAIN active \cup {ip}) \ (IF n = 0 THEN {ip} ELSE {}) |->
     IF i = ip THEN n ELSE active[i]]

-----------------------------------------------------------------------------
(* Attempts. *)

\* The addresses whose window is not over.
Fresh == {ip \in DOMAIN attempts : attempts[ip].age < Minute}

\* An unknown address is refused a place in a full tracker.
TrackerFull(ip) ==
  ip \notin Fresh /\ Cardinality(Fresh) >= MaxConnections * TrackerFactor

\* Mutant: every attempt opens the window again.
CountedReopening(ip) ==
  LET n == IF ip \in Fresh THEN attempts[ip].n ELSE 0
  IN  [age |-> 0, n |-> IF n > MaxConnectionsPerMinute THEN n ELSE n + 1]

\* or_insert((time, 0)), then one more.
Counted(ip) ==
  LET old == IF ip \in Fresh THEN attempts[ip] ELSE [age |-> 0, n |-> 0]
  IN  [old EXCEPT !.n = IF old.n > MaxConnectionsPerMinute THEN old.n ELSE old.n + 1]

\* The tracker after an attempt by ip: stale entries go, ip's is counted.
Tracked(ip) ==
  [i \in Fresh \cup {ip} |-> IF i = ip THEN Counted(ip) ELSE attempts[i]]

\* Mutant: the limit itself is still let in.
RefusesLate(ip) ==
  \/ Counted(ip).n > MaxConnectionsPerMinute
  \/ total > MaxConnections
  \/ Count(ip) >= MaxConnectionsPerIp

Refuses(ip) ==
  \/ Counted(ip).n > MaxConnectionsPerMinute
  \/ total >= MaxConnections
  \/ Count(ip) >= MaxConnectionsPerIp

-----------------------------------------------------------------------------
(* The accept loop and the tasks. *)

\* Admission::acquire refuses a new address: only the stale entries are gone.
RefuseUnknown(ip) ==
  /\ TrackerFull(ip)
  /\ attempts' = [i \in Fresh |-> attempts[i]]
  /\ UNCHANGED <<total, active, permits, admitted>>

\* A refusal that counts as an attempt.
RefuseTracked(ip) ==
  /\ ~TrackerFull(ip) /\ Refuses(ip)
  /\ attempts' = Tracked(ip)
  /\ UNCHANGED <<total, active, permits, admitted>>

\* A permit, and the connection's task with it.
Acquire(ip, cid) ==
  /\ \A p \in permits : p.cid # cid
  /\ ~TrackerFull(ip) /\ ~Refuses(ip)
  /\ attempts' = Tracked(ip)
  /\ total' = total + 1
  /\ active' = SetActive(ip, Count(ip) + 1)
  /\ permits' = permits \cup {[cid |-> cid, ip |-> ip]}
  /\ admitted' = [admitted EXCEPT ![ip][0] = @ + 1]

\* Mutant: the attempts of an address go with its task.
DropForgetting(p) ==
  /\ total' = total - 1
  /\ active' = IF p.ip \in DOMAIN active THEN SetActive(p.ip, active[p.ip] - 1) ELSE active
  /\ permits' = permits \ {p}
  /\ attempts' = [i \in DOMAIN attempts \ {p.ip} |-> attempts[i]]
  /\ UNCHANGED admitted

\* The task ends, however it ends: Permit's destructor.
Drop(p) ==
  /\ total' = total - 1
  /\ active' = IF p.ip \in DOMAIN active THEN SetActive(p.ip, active[p.ip] - 1) ELSE active
  /\ permits' = permits \ {p}
  /\ UNCHANGED <<attempts, admitted>>

Tick ==
  /\ attempts' = [ip \in DOMAIN attempts |->
                    [attempts[ip] EXCEPT !.age = IF @ < Minute THEN @ + 1 ELSE @]]
  /\ admitted' = [ip \in Ip |-> [a \in 0 .. Minute - 1 |->
                    IF a = 0 THEN 0 ELSE admitted[ip][a - 1]]]
  /\ UNCHANGED <<total, active, permits>>

Next ==
  \/ \E ip \in Ip : RefuseUnknown(ip) \/ RefuseTracked(ip)
  \/ \E ip \in Ip, cid \in Cid : Acquire(ip, cid)
  \/ \E p \in permits : Drop(p)
  \/ Tick

Spec == Init /\ [][Next]_vars

\* Time goes on; nothing is assumed of those who connect or of tasks.
FairSpec == Spec /\ WF_vars(Tick)

-----------------------------------------------------------------------------
Of(ip) == {p \in permits : p.ip = ip}

(* The counters agree with the tasks there are, and an address without a   *)
(* task has no entry (`active` is a map that would grow otherwise).        *)
PermitsCounted ==
  /\ total = Cardinality(permits)
  /\ \A ip \in Ip : Count(ip) = Cardinality(Of(ip))
  /\ \A ip \in DOMAIN active : active[ip] > 0

(* The limits bind the tasks themselves, whatever the counters say         *)
(* (maxConnections and maxConnectionsPerIp).                               *)
TasksLimited ==
  /\ Cardinality(permits) <= MaxConnections
  /\ \A ip \in Ip : Cardinality(Of(ip)) <= MaxConnectionsPerIp

(* Refused connections from ever new addresses do not grow the tracker     *)
(* (the comment of Admission::acquire and its test).                       *)
TrackerBounded == Cardinality(DOMAIN attempts) <= MaxConnections * TrackerFactor

(* A window opens with an address's first attempt, so a minute may meet    *)
(* two of them: in no minute is an address admitted more often than twice  *)
(* maxConnectionsPerMinute, less the attempt that opened the first.        *)
BurstBounded ==
  \A ip \in Ip :
    MapThenSumSet(LAMBDA a : admitted[ip][a], 0 .. Minute - 1)
      <= 2 * MaxConnectionsPerMinute - 1

Throttled(ip) ==
  ip \in Fresh /\ attempts[ip].n > MaxConnectionsPerMinute

(* An address that attempts too often is let in again, even if it never    *)
(* stops trying: refused attempts do not extend the window.                *)
ThrottleEnds == \A ip \in Ip : Throttled(ip) ~> ~Throttled(ip)
=============================================================================
