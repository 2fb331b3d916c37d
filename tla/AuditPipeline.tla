--------------------------- MODULE AuditPipeline ---------------------------
(***************************************************************************)
(* The audit log: AuditService, the worker AuditProcessor and              *)
(* SuspiciousActivityService.                                              *)
(*                                                                         *)
(* A permission check is handed to the BullMQ queue 'audit'.  The worker   *)
(* stores it, unless an entry of the same user, permission and outcome     *)
(* lies within a window around its time, then counts the user's recent     *)
(* denials and marks the entry.  A step is one call to MongoDB or Redis.   *)
(*                                                                         *)
(* Time is counted in half seconds, so that rounding to seconds goes both  *)
(* ways.                                                                   *)
(***************************************************************************)
EXTENDS Integers, FiniteSets

CONSTANTS
  Users,
  Permissions,         \* permission strings
  ReadPermissions,     \* those that end in ':read'
  DeletePermissions,   \* those that contain 'delete'
  None,                \* null
  Window,              \* entries this close to a check stand for it (5 s)
  Span,                \* how far back denials are counted (1 hour)
  HourAt,              \* the hour of the day at each time
  Threshold,           \* denials that make a user suspicious (5)
  MaxTime,             \* bound: the clock
  MaxChecks,           \* bound: checks handed to the queue
  MaxFaults            \* bound: failures in one behaviour

ASSUME NoneAssumption == None \notin Users \cup Permissions
ASSUME PermissionAssumption == ReadPermissions \cup DeletePermissions \subseteq Permissions
ASSUME NumberAssumption ==
  {Window, Span, Threshold, MaxTime, MaxChecks, MaxFaults} \subseteq Nat
ASSUME ThresholdAssumption == Threshold > 0
ASSUME HourAssumption == HourAt \in [0..MaxTime -> 0..23]

VARIABLES
  now,        \* the clock
  recorded,   \* history: the checks handed to the queue
  jobs,       \* waiting jobs of the queue 'audit'
  auditor,    \* the one job the worker runs (concurrency 1)
  logs,       \* the audit log documents in MongoDB
  faults      \* failures so far

auditVars == <<now, recorded, jobs, auditor, logs, faults>>

-----------------------------------------------------------------------------
(* Values *)

\* PermissionCheckLog; id tells checks apart.
Checks == [id : 1..MaxChecks, user : Users, perm : Permissions, granted : BOOLEAN,
           time : 0..MaxTime]
NoCheck == [id |-> 0, user |-> None, perm |-> None, granted |-> FALSE, time |-> 0]

MaxStalledCount == 1
Jobs == [check : Checks, stalls : 0..MaxStalledCount]

\* AuditLog documents; id is the _id, the time a whole second
Logs == [id : Nat, user : Users, perm : Permissions, granted : BOOLEAN,
         time : {t \in 0..MaxTime + 1 : t % 2 = 0}, suspicious : BOOLEAN]

AuditorPcs == {"idle", "find", "save", "analyze", "mark"}
IdleAuditor == [pc |-> "idle", check |-> NoCheck, stalls |-> 0, log |-> 0]

AuditTypeOK ==
  /\ now \in 0..MaxTime
  /\ recorded \subseteq Checks
  /\ jobs \subseteq Jobs
  /\ auditor \in [pc : AuditorPcs, check : Checks \cup {NoCheck},
                  stalls : 0..MaxStalledCount, log : Nat]
  /\ logs \subseteq Logs
  /\ faults \in 0..MaxFaults

AuditInit ==
  /\ now = 0
  /\ recorded = {}
  /\ jobs = {}
  /\ auditor = IdleAuditor
  /\ logs = {}
  /\ faults = 0

-----------------------------------------------------------------------------
(* AuditService *)

\* logPermissionCheck: every denial, and what was granted unless it reads
LogPermissionCheck(user, perm, granted, time) ==
  IF granted /\ perm \in ReadPermissions
  THEN UNCHANGED <<recorded, jobs>>
  ELSE LET check == [id |-> Cardinality(recorded) + 1, user |-> user, perm |-> perm,
                     granted |-> granted, time |-> time]
       IN  /\ recorded' = recorded \cup {check}
           /\ jobs' = jobs \cup {[check |-> check, stalls |-> 0]}

\* Faulty variant: the time as it is.
Unrounded(t) == t

\* Math.round(ms / 1000) * 1000
RoundToSecond(t) == 2 * ((t + 1) \div 2)

Near(l, c) == LET d == l.time - RoundToSecond(c.time) IN -Window <= d /\ d <= Window

\* Faulty variants: only looks back, and not even at the same second; takes any
\* permission.
DuplicatesEarlier(c) ==
  {l \in logs : /\ l.user = c.user /\ l.perm = c.perm /\ l.granted = c.granted
                /\ Near(l, c) /\ l.time < RoundToSecond(c.time)}

DuplicatesBefore(c) ==
  {l \in logs : /\ l.user = c.user /\ l.perm = c.perm /\ l.granted = c.granted
                /\ Near(l, c) /\ l.time <= RoundToSecond(c.time)}

DuplicatesOfUser(c) ==
  {l \in logs : l.user = c.user /\ l.granted = c.granted /\ Near(l, c)}

\* What the findOne of storeAuditLog may return
Duplicates(c) ==
  {l \in logs : /\ l.user = c.user /\ l.perm = c.perm /\ l.granted = c.granted
                /\ Near(l, c)}

-----------------------------------------------------------------------------
(* AuditProcessor *)

AuditTake ==
  /\ auditor.pc = "idle"
  /\ \E j \in jobs :
       /\ jobs' = jobs \ {j}
       /\ auditor' = [pc |-> "find", check |-> j.check, stalls |-> j.stalls, log |-> 0]
  /\ UNCHANGED <<now, recorded, logs, faults>>

AuditFind ==
  LET found == Duplicates(auditor.check) IN
  /\ auditor.pc = "find"
  /\ \/ found = {} /\ auditor' = [auditor EXCEPT !.pc = "save"]
     \/ \E l \in found : auditor' = [auditor EXCEPT !.pc = "analyze", !.log = l.id]
  /\ UNCHANGED <<now, recorded, jobs, logs, faults>>

AuditSave ==
  LET c == auditor.check
      id == Cardinality(logs) + 1 IN
  /\ auditor.pc = "save"
  /\ logs' = logs \cup {[id |-> id, user |-> c.user, perm |-> c.perm,
                         granted |-> c.granted, time |-> RoundToSecond(c.time),
                         suspicious |-> FALSE]}
  /\ auditor' = [auditor EXCEPT !.pc = "analyze", !.log = id]
  /\ UNCHANGED <<now, recorded, jobs, faults>>

\* SuspiciousActivityService
\* Faulty variant: counts whatever is in the log.
RecentEver(t) == TRUE

Recent(t) == t >= now - Span
RecentDenials(u) == {l \in logs : l.user = u /\ ~l.granted /\ Recent(l.time)}

\* Faulty variant: wants one more.
RapidDenialsPlusOne(c) == ~c.granted /\ Cardinality(RecentDenials(c.user)) > Threshold

RapidDenials(c) == ~c.granted /\ Cardinality(RecentDenials(c.user)) >= Threshold
OffHours(c) == HourAt[c.time] \notin 8..19 /\ c.perm \in DeletePermissions

AuditAnalyze ==
  LET c == auditor.check IN
  /\ auditor.pc = "analyze"
  /\ auditor' = IF RapidDenials(c) \/ OffHours(c)
                THEN [auditor EXCEPT !.pc = "mark"] ELSE IdleAuditor
  /\ UNCHANGED <<now, recorded, jobs, logs, faults>>

AuditMark ==
  /\ auditor.pc = "mark"
  /\ logs' = {IF l.id = auditor.log THEN [l EXCEPT !.suspicious = TRUE] ELSE l : l \in logs}
  /\ auditor' = IdleAuditor
  /\ UNCHANGED <<now, recorded, jobs, faults>>

AuditWork == AuditTake \/ AuditFind \/ AuditSave \/ AuditAnalyze \/ AuditMark

-----------------------------------------------------------------------------
(* Time and failures *)

AuditTick ==
  /\ now < MaxTime
  /\ now' = now + 1
  /\ UNCHANGED <<recorded, jobs, auditor, logs, faults>>

Fault == faults < MaxFaults /\ faults' = faults + 1

\* The processor logs the error and throws it on; a job has one attempt.
AuditFails ==
  /\ auditor.pc # "idle"
  /\ auditor' = IdleAuditor
  /\ Fault
  /\ UNCHANGED <<now, recorded, jobs, logs>>

\* The process stops; BullMQ runs the stalled job again from its beginning.
AuditCrash ==
  /\ auditor' = IdleAuditor
  /\ jobs' = IF auditor.pc # "idle" /\ auditor.stalls < MaxStalledCount
             THEN jobs \cup {[check |-> auditor.check, stalls |-> auditor.stalls + 1]}
             ELSE jobs
  /\ Fault
  /\ UNCHANGED <<now, recorded, logs>>

-----------------------------------------------------------------------------
(* The pipeline on its own: anybody may hand in a check made a while ago. *)

HandIn ==
  /\ Cardinality(recorded) < MaxChecks
  /\ \E u \in Users, perm \in Permissions, granted \in BOOLEAN, t \in 0..now :
       LogPermissionCheck(u, perm, granted, t)
  /\ UNCHANGED <<now, auditor, logs, faults>>

AuditNext == HandIn \/ AuditWork \/ AuditTick \/ AuditFails \/ AuditCrash

AuditSpec == AuditInit /\ [][AuditNext]_auditVars

\* The worker runs on; nobody need hand in a check.
FairAuditSpec == AuditSpec /\ WF_auditVars(AuditWork)

-----------------------------------------------------------------------------
(* Properties *)

\* storeAuditLog is idempotent: two entries of one user, permission and outcome
\* are more than the window apart, whatever order the checks arrive in and
\* however often a job runs.
NoDuplicateLogs ==
  \A l, m \in logs :
    l.id # m.id /\ l.user = m.user /\ l.perm = m.perm /\ l.granted = m.granted =>
      l.time - m.time \notin -Window..Window

\* What an entry has to be to stand for a check
StandsFor(l, c) ==
  l.user = c.user /\ l.perm = c.perm /\ l.granted = c.granted /\ Near(l, c)

\* The first entry that makes the recent denials of a user too many is marked,
\* or another recent one is: while nothing has failed and the worker is idle, a
\* user with that many recent denials has a marked one among them.  How many
\* are too many, and what is recent, is the code's (checkRapidDenials).
RapidDenialsMarked ==
  faults = 0 /\ auditor.pc = "idle" =>
    \A u \in Users : Cardinality(RecentDenials(u)) >= Threshold =>
      \E l \in RecentDenials(u) : l.suspicious

DenialsAround(u, t) ==
  {m \in logs : m.user = u /\ ~m.granted /\ t - Span <= m.time /\ m.time <= t + 1}
DeletedOffHours(l) == \E c \in recorded : StandsFor(l, c) /\ OffHours(c)

\* Merged, late and repeated checks bring no cause about that was not there: a
\* marked entry stands for a deletion that was asked for off hours, or is a
\* denial of a user with too many of them within the span of some moment.
\* These are the two causes analyze() knows; the README of the repository names
\* others (see our README).
MarkedForCause ==
  \A l \in logs : l.suspicious =>
    \/ DeletedOffHours(l)
    \/ ~l.granted /\ \E t \in 0..now : Cardinality(DenialsAround(l.user, t)) >= Threshold

\* ... and these were checks of their own: neither a job that is run twice nor a
\* merged check makes one denial count as two.
MarkedForDeniedChecks ==
  \A l \in logs : l.suspicious =>
    \/ DeletedOffHours(l)
    \/ Cardinality({c \in recorded : c.user = l.user /\ ~c.granted}) >= Threshold

Logged(c) == \E l \in logs : StandsFor(l, c)

\* Without failures no check is lost on its way through the queue, the worker and
\* the merging of entries: it waits, is being stored, or is in the log.
NoCheckLost ==
  faults = 0 =>
    \A c \in recorded :
      \/ \E j \in jobs : j.check = c
      \/ auditor.pc \in {"find", "save"} /\ auditor.check = c
      \/ Logged(c)

\* Without failures every check handed to the queue comes to be in the log, as
\* an entry of its own or of a check within the window.
ChecksLogged ==
  [](faults = 0) =>
    \A n \in 1..MaxChecks :
      (\E c \in recorded : c.id = n) ~> (\E c \in recorded : c.id = n /\ Logged(c))
=============================================================================
