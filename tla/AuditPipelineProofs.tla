------------------------ MODULE AuditPipelineProofs ------------------------
(***************************************************************************)
(* Theorems about AuditPipeline, for any users, permissions, window and    *)
(* number of checks and failures.                                          *)
(***************************************************************************)
EXTENDS AuditPipeline, FiniteSetTheorems, TLAPS

-----------------------------------------------------------------------------
(* Operators *)

\* Rounding gives a whole second, and at most the next one.
LEMMA RoundType ==
  ASSUME NEW t \in 0..MaxTime
  PROVE  RoundToSecond(t) \in {s \in 0..MaxTime + 1 : s % 2 = 0}
  BY NumberAssumption DEF RoundToSecond

LEMMA IdleAuditorType ==
  IdleAuditor \in [pc : AuditorPcs, check : Checks \cup {NoCheck},
                   stalls : 0..MaxStalledCount, log : Nat]
  BY DEF IdleAuditor, AuditorPcs, MaxStalledCount

-----------------------------------------------------------------------------
(* Type correctness *)

\* A worker at work has a check; without that, what it saves has no type.
AuditorBusy == auditor.pc # "idle" => auditor.check \in Checks

AuditTypeInv ==
  /\ AuditTypeOK
  /\ IsFiniteSet(recorded) /\ IsFiniteSet(logs)
  /\ AuditorBusy

LEMMA AuditInitType == AuditInit => AuditTypeInv
  BY FS_EmptySet, IdleAuditorType, NumberAssumption
  DEF AuditInit, AuditTypeInv, AuditTypeOK, AuditorBusy, IdleAuditor

\* Handing in a check keeps the queue typed, while there is room for one.
LEMMA LogPermissionCheckType ==
  ASSUME AuditTypeInv, Cardinality(recorded) < MaxChecks,
         NEW u \in Users, NEW perm \in Permissions, NEW granted \in BOOLEAN,
         NEW t \in 0..MaxTime, LogPermissionCheck(u, perm, granted, t)
  PROVE  recorded' \subseteq Checks /\ IsFiniteSet(recorded') /\ jobs' \subseteq Jobs
<1> DEFINE check == [id |-> Cardinality(recorded) + 1, user |-> u, perm |-> perm,
                     granted |-> granted, time |-> t]
<1>1. CASE granted /\ perm \in ReadPermissions
  BY <1>1 DEF LogPermissionCheck, AuditTypeInv, AuditTypeOK
<1>2. CASE ~(granted /\ perm \in ReadPermissions)
  <2>1. recorded' = recorded \cup {check} /\ jobs' = jobs \cup {[check |-> check, stalls |-> 0]}
    BY <1>2 DEF LogPermissionCheck
  <2>2. Cardinality(recorded) + 1 \in 1..MaxChecks
    BY FS_CardinalityType, NumberAssumption DEF AuditTypeInv
  <2>3. check \in Checks
    BY <2>2 DEF Checks
  <2>4. IsFiniteSet(recorded \cup {check})
    BY FS_AddElement DEF AuditTypeInv
  <2>5. [check |-> check, stalls |-> 0] \in Jobs
    BY <2>3 DEF Jobs, MaxStalledCount
  <2> QED BY <2>1, <2>3, <2>4, <2>5 DEF AuditTypeInv, AuditTypeOK
<1> QED BY <1>1, <1>2

LEMMA AuditNextType == AuditTypeInv /\ [AuditNext]_auditVars => AuditTypeInv'
<1> SUFFICES ASSUME AuditTypeInv, [AuditNext]_auditVars PROVE AuditTypeInv'
  OBVIOUS
<1> USE DEF AuditTypeInv, AuditTypeOK, AuditorBusy
<1>1. CASE HandIn
  <2>1. PICK u \in Users, perm \in Permissions, granted \in BOOLEAN, t \in 0..now :
          LogPermissionCheck(u, perm, granted, t)
    BY <1>1 DEF HandIn
  <2>2. t \in 0..MaxTime
    BY NumberAssumption
  <2>3. recorded' \subseteq Checks /\ IsFiniteSet(recorded') /\ jobs' \subseteq Jobs
    BY <1>1, <2>1, <2>2, LogPermissionCheckType DEF HandIn
  <2> QED BY <1>1, <2>3 DEF HandIn
<1>2. CASE AuditTake
  <2>1. PICK j \in jobs :
          /\ jobs' = jobs \ {j}
          /\ auditor' = [pc |-> "find", check |-> j.check, stalls |-> j.stalls, log |-> 0]
    BY <1>2 DEF AuditTake
  <2>2. j.check \in Checks /\ j.stalls \in 0..MaxStalledCount
    BY DEF Jobs
  <2> QED BY <1>2, <2>1, <2>2 DEF AuditTake, AuditorPcs
<1>3. CASE AuditFind
  <2>1. \A l \in Duplicates(auditor.check) : l.id \in Nat
    BY DEF Duplicates, Logs
  <2> QED BY <1>3, <2>1 DEF AuditFind, AuditorPcs
<1>4. CASE AuditSave
  <2> DEFINE c == auditor.check
             log == [id |-> Cardinality(logs) + 1, user |-> c.user, perm |-> c.perm,
                     granted |-> c.granted, time |-> RoundToSecond(c.time),
                     suspicious |-> FALSE]
  <2>1. c \in Checks
    BY <1>4 DEF AuditSave
  <2>2. log.id \in Nat
    BY FS_CardinalityType
  <2>3. log \in Logs
    <3>1. c.time \in 0..MaxTime /\ c.user \in Users /\ c.perm \in Permissions /\ c.granted \in BOOLEAN
      BY <2>1 DEF Checks
    <3> QED BY <2>2, <3>1, RoundType DEF Logs
  <2>4. logs' = logs \cup {log} /\ IsFiniteSet(logs')
    BY <1>4, FS_AddElement DEF AuditSave
  <2>5. auditor' = [auditor EXCEPT !.pc = "analyze", !.log = log.id]
    BY <1>4 DEF AuditSave
  <2> QED BY <1>4, <2>1, <2>2, <2>3, <2>4, <2>5 DEF AuditSave, AuditorPcs
<1>5. CASE AuditAnalyze
  BY <1>5, IdleAuditorType DEF AuditAnalyze, AuditorPcs, IdleAuditor
<1>6. CASE AuditMark
  <2> DEFINE Marked(l) == IF l.id = auditor.log THEN [l EXCEPT !.suspicious = TRUE] ELSE l
  <2>1. logs' = {Marked(l) : l \in logs}
    BY <1>6 DEF AuditMark
  <2>2. \A l \in logs : Marked(l) \in Logs
    BY DEF Logs
  <2>3. IsFiniteSet(logs')
    <3> DEFINE f == [l \in logs |-> Marked(l)]
    <3>1. f \in Surjection(logs, logs')
      BY <2>1 DEF Surjection
    <3> HIDE DEF f
    <3> QED BY <3>1, FS_Surjection
  <2> QED BY <1>6, <2>1, <2>2, <2>3, IdleAuditorType DEF AuditMark, IdleAuditor
<1>7. CASE AuditTick
  BY <1>7, NumberAssumption DEF AuditTick
<1>8. CASE AuditFails
  BY <1>8, IdleAuditorType, NumberAssumption DEF AuditFails, Fault, IdleAuditor
<1>9. CASE AuditCrash
  <2>1. jobs' \subseteq Jobs
    BY <1>9 DEF AuditCrash, Jobs, MaxStalledCount
  <2> QED BY <1>9, <2>1, IdleAuditorType, NumberAssumption DEF AuditCrash, Fault, IdleAuditor
<1>10. CASE UNCHANGED auditVars
  BY <1>10 DEF auditVars
<1> QED
  BY <1>1, <1>2, <1>3, <1>4, <1>5, <1>6, <1>7, <1>8, <1>9, <1>10 DEF AuditNext, AuditWork

\* In every behaviour the queue, the worker and the log keep their types; no
\* check gets a number beyond the bound and every entry lies on a whole second.
THEOREM AuditTypeCorrect == AuditSpec => []AuditTypeOK
<1>1. AuditSpec => []AuditTypeInv
  BY AuditInitType, AuditNextType, PTL DEF AuditSpec
<1> QED BY <1>1, PTL DEF AuditTypeInv

-----------------------------------------------------------------------------
(* No duplicates *)

Same(l, m) == l.user = m.user /\ l.perm = m.perm /\ l.granted = m.granted

\* Between looking and saving the worker is the only one who saves: what it did
\* not find is still not there.
SaveInv == auditor.pc = "save" => Duplicates(auditor.check) = {}

DistinctInv == AuditTypeInv /\ NoDuplicateLogs /\ SaveInv

LEMMA NextDistinct == DistinctInv /\ [AuditNext]_auditVars => DistinctInv'
<1> SUFFICES ASSUME DistinctInv, [AuditNext]_auditVars PROVE NoDuplicateLogs' /\ SaveInv'
  BY AuditNextType DEF DistinctInv
<1> USE DEF DistinctInv
\* A step that leaves the log alone and does not bring the worker to save
<1>1. ASSUME logs' = logs, auditor'.pc = "save" => auditor' = auditor
      PROVE  NoDuplicateLogs' /\ SaveInv'
  BY <1>1 DEF NoDuplicateLogs, SaveInv, Duplicates, Near
<1>2. CASE HandIn \/ AuditTake \/ AuditAnalyze \/ AuditTick \/ AuditFails \/ AuditCrash
  BY <1>1, <1>2
  DEF HandIn, AuditTake, AuditAnalyze, AuditTick, AuditFails, AuditCrash, IdleAuditor,
      AuditTypeInv, AuditTypeOK
<1>3. CASE UNCHANGED auditVars
  BY <1>1, <1>3 DEF auditVars
<1>4. CASE AuditFind
  <2>1. logs' = logs
    BY <1>4 DEF AuditFind
  <2>2. NoDuplicateLogs'
    BY <2>1 DEF NoDuplicateLogs
  <2>3. SaveInv'
    <3>1. CASE Duplicates(auditor.check) = {} /\ auditor' = [auditor EXCEPT !.pc = "save"]
      <4>1. auditor'.check = auditor.check
        BY <3>1 DEF AuditTypeInv, AuditTypeOK
      <4> QED BY <2>1, <3>1, <4>1 DEF SaveInv, Duplicates, Near
    <3>2. CASE auditor'.pc = "analyze"
      BY <3>2 DEF SaveInv
    <3> QED BY <1>4, <3>1, <3>2 DEF AuditFind, AuditTypeInv, AuditTypeOK
  <2> QED BY <2>2, <2>3
<1>5. CASE AuditSave
  <2> DEFINE c == auditor.check
             log == [id |-> Cardinality(logs) + 1, user |-> c.user, perm |-> c.perm,
                     granted |-> c.granted, time |-> RoundToSecond(c.time),
                     suspicious |-> FALSE]
  <2>1. logs' = logs \cup {log}
    BY <1>5 DEF AuditSave
  <2>2. \A l \in logs : Same(l, log) => l.time - log.time \notin -Window..Window
    <3>1. \A l \in logs : ~(Same(l, c) /\ Near(l, c))
      BY <1>5 DEF AuditSave, SaveInv, Duplicates, Same
    <3>2. RoundToSecond(c.time) \in Int
      <4>1. c.time \in 0..MaxTime
        BY <1>5 DEF AuditSave, AuditTypeInv, AuditorBusy, Checks
      <4> QED BY <4>1, RoundType
    <3>3. \A l \in logs : l.time \in Int
      BY DEF AuditTypeInv, AuditTypeOK, Logs
    <3> QED BY <3>1, <3>2, <3>3, NumberAssumption DEF Near, Same
  <2>3. log.time \in Int /\ \A l \in logs : l.time \in Int
    <3>1. c.time \in 0..MaxTime
      BY <1>5 DEF AuditSave, AuditTypeInv, AuditorBusy, Checks
    <3> QED BY <3>1, RoundType DEF AuditTypeInv, AuditTypeOK, Logs
  <2>4. NoDuplicateLogs'
    <3> SUFFICES ASSUME NEW l \in logs', NEW m \in logs', l.id # m.id, Same(l, m)
                 PROVE  l.time - m.time \notin -Window..Window
      BY DEF NoDuplicateLogs, Same
    <3> HIDE DEF log
    <3>1. CASE l \in logs /\ m \in logs
      BY <3>1 DEF NoDuplicateLogs, Same
    <3>2. CASE l \in logs /\ m = log
      BY <2>2, <3>2
    <3>3. CASE l = log /\ m \in logs
      <4>1. m.time - log.time \notin -Window..Window
        BY <2>2, <3>3 DEF Same
      <4> QED BY <2>3, <3>3, <4>1, NumberAssumption
    <3> QED BY <2>1, <3>1, <3>2, <3>3
  <2>5. SaveInv'
    BY <1>5 DEF AuditSave, SaveInv, AuditTypeInv, AuditTypeOK
  <2> QED BY <2>4, <2>5
<1>6. CASE AuditMark
  <2> DEFINE Marked(l) == IF l.id = auditor.log THEN [l EXCEPT !.suspicious = TRUE] ELSE l
  <2>1. logs' = {Marked(l) : l \in logs}
    BY <1>6 DEF AuditMark
  <2>2. \A l \in logs : Marked(l).id = l.id /\ Marked(l).time = l.time /\ Same(Marked(l), l)
    BY DEF AuditTypeInv, AuditTypeOK, Logs, Same
  <2>3. NoDuplicateLogs'
    <3> HIDE DEF Marked
    <3>1. ASSUME NEW l \in logs, NEW m \in logs, Marked(l).id # Marked(m).id,
                 Same(Marked(l), Marked(m))
          PROVE  Marked(l).time - Marked(m).time \notin -Window..Window
      BY <2>2, <3>1 DEF NoDuplicateLogs, Same
    <3>2. ASSUME NEW l \in logs', NEW m \in logs', l.id # m.id, Same(l, m)
          PROVE  l.time - m.time \notin -Window..Window
      <4>1. PICK k \in logs : l = Marked(k)
        BY <2>1
      <4>2. PICK n \in logs : m = Marked(n)
        BY <2>1
      <4> QED BY <3>1, <3>2, <4>1, <4>2
    <3> QED BY <3>2 DEF NoDuplicateLogs, Same
  <2>4. SaveInv'
    BY <1>6 DEF AuditMark, SaveInv, IdleAuditor
  <2> QED BY <2>3, <2>4
<1> QED BY <1>2, <1>3, <1>4, <1>5, <1>6 DEF AuditNext, AuditWork

\* storeAuditLog is idempotent whatever the order of the checks and however
\* often jobs are run: no two entries of one user, permission and outcome are
\* within the window of each other.
THEOREM LogsDistinct == AuditSpec => []NoDuplicateLogs
<1>1. AuditInit => DistinctInv
  BY AuditInitType DEF AuditInit, DistinctInv, NoDuplicateLogs, SaveInv, IdleAuditor
<1>2. AuditSpec => []DistinctInv
  BY <1>1, NextDistinct, PTL DEF AuditSpec
<1> QED BY <1>2, PTL DEF DistinctInv

-----------------------------------------------------------------------------
(* Entries, their ids and their marks *)

\* Entries are told apart by their ids, and the next id is a new one.
IdsInv ==
  /\ \A l \in logs : l.id <= Cardinality(logs)
  /\ \A l, m \in logs : l.id = m.id => l = m

\* What marking makes of an entry
Marked(l) == IF l.id = auditor.log THEN [l EXCEPT !.suspicious = TRUE] ELSE l

LEMMA MarkedEntry ==
  ASSUME AuditTypeOK, NEW l \in logs
  PROVE  /\ Marked(l).id = l.id /\ Marked(l).time = l.time /\ Same(Marked(l), l)
         /\ Marked(l).suspicious <=> l.suspicious \/ l.id = auditor.log
  BY DEF AuditTypeOK, Logs, Marked, Same

\* Marking neither loses an entry nor adds one, whichever of them are counted.
LEMMA MarkedCount ==
  ASSUME AuditTypeInv, IdsInv, NEW S \in SUBSET logs
  PROVE  Cardinality({Marked(l) : l \in S}) = Cardinality(S)
<1> DEFINE T == {Marked(l) : l \in S}
           f == [l \in S |-> Marked(l)]
<1>1. IsFiniteSet(S)
  BY FS_Subset DEF AuditTypeInv
<1>2. f \in Surjection(S, T)
  BY DEF Surjection
<1>3. \A l, m \in S : Marked(l) = Marked(m) => l = m
  <2>1. \A l \in S : Marked(l).id = l.id
    BY MarkedEntry DEF AuditTypeInv
  <2> QED BY <2>1 DEF IdsInv
<1>4. f \in Injection(S, T)
  BY <1>3 DEF Injection, IsInjective
<1> HIDE DEF f, T
<1>5. Cardinality(T) = Cardinality(S)
  BY <1>1, <1>2, <1>4, FS_Surjection
<1> QED BY <1>5 DEF T

\* The entry that AuditSave writes
Entry(c) ==
  [id |-> Cardinality(logs) + 1, user |-> c.user, perm |-> c.perm, granted |-> c.granted,
   time |-> RoundToSecond(c.time), suspicious |-> FALSE]

LEMMA SavedEntry ==
  ASSUME AuditTypeInv, IdsInv, AuditSave
  PROVE  LET l == Entry(auditor.check) IN
         /\ logs' = logs \cup {l} /\ l \notin logs
         /\ Cardinality(logs') = Cardinality(logs) + 1
         /\ l.id = Cardinality(logs) + 1 /\ l.id \in Nat
         /\ auditor' = [auditor EXCEPT !.pc = "analyze", !.log = l.id]
<1> DEFINE l == Entry(auditor.check)
<1>1. Cardinality(logs) \in Nat
  BY FS_CardinalityType DEF AuditTypeInv
<1>2. l.id = Cardinality(logs) + 1
  BY DEF Entry
<1>3. logs' = logs \cup {l} /\ auditor' = [auditor EXCEPT !.pc = "analyze", !.log = l.id]
  BY DEF AuditSave, Entry
<1> HIDE DEF l
<1>4. l \notin logs
  BY <1>1, <1>2 DEF IdsInv
<1>5. Cardinality(logs \cup {l}) = Cardinality(logs) + 1
  BY <1>4, FS_AddElement DEF AuditTypeInv
<1>6. /\ logs' = logs \cup {l} /\ l \notin logs
      /\ Cardinality(logs') = Cardinality(logs) + 1
      /\ l.id = Cardinality(logs) + 1 /\ l.id \in Nat
      /\ auditor' = [auditor EXCEPT !.pc = "analyze", !.log = l.id]
  BY <1>1, <1>2, <1>3, <1>4, <1>5
<1> QED BY <1>6 DEF l

\* What a step does to the log: nothing, a save or a mark.
LEMMA LogSteps ==
  ASSUME [AuditNext]_auditVars
  PROVE  AuditSave \/ AuditMark \/ logs' = logs
  BY DEF AuditNext, AuditWork, auditVars, HandIn, AuditTake, AuditFind, AuditAnalyze,
         AuditTick, AuditFails, AuditCrash

LEMMA MarkedLogs == AuditMark => logs' = {Marked(l) : l \in logs}
  BY DEF AuditMark, Marked

LEMMA NextIds == AuditTypeInv /\ IdsInv /\ [AuditNext]_auditVars => IdsInv'
<1> SUFFICES ASSUME AuditTypeInv, IdsInv, [AuditNext]_auditVars PROVE IdsInv'
  OBVIOUS
<1>1. CASE AuditSave
  <2> DEFINE l == Entry(auditor.check)
  <2>1. /\ logs' = logs \cup {l} /\ Cardinality(logs') = Cardinality(logs) + 1
        /\ l.id = Cardinality(logs) + 1
    BY <1>1, SavedEntry
  <2>2. Cardinality(logs) \in Nat /\ \A m \in logs : m.id \in Nat
    BY FS_CardinalityType DEF AuditTypeInv, AuditTypeOK, Logs
  <2> HIDE DEF l
  <2> QED BY <2>1, <2>2 DEF IdsInv
<1>2. CASE AuditMark
  <2>1. \A l \in logs : Marked(l).id = l.id
    BY MarkedEntry DEF AuditTypeInv
  <2>2. Cardinality(logs') = Cardinality(logs)
    BY <1>2, MarkedCount, MarkedLogs
  <2> QED BY <1>2, <2>1, <2>2, MarkedLogs DEF IdsInv
<1>3. CASE logs' = logs
  BY <1>3 DEF IdsInv
<1> QED BY <1>1, <1>2, <1>3, LogSteps

-----------------------------------------------------------------------------
(* The worker's entry *)

\* What the worker analyses or marks is an entry that stands for its check.
EntryInv ==
  auditor.pc \in {"analyze", "mark"} =>
    \E l \in logs : l.id = auditor.log /\ StandsFor(l, auditor.check)

EntriesInv == AuditTypeInv /\ IdsInv /\ EntryInv

LEMMA InitEntries == AuditInit => EntriesInv
  BY AuditInitType DEF AuditInit, EntriesInv, IdsInv, EntryInv, IdleAuditor

\* The worker's entry is the only one with its id.
LEMMA WorksOn ==
  ASSUME EntriesInv, auditor.pc \in {"analyze", "mark"}
  PROVE  \A l \in logs : l.id = auditor.log =>
           StandsFor(l, auditor.check) /\ Same(l, auditor.check)
  BY DEF EntriesInv, EntryInv, IdsInv, StandsFor, Same

LEMMA NextEntries == EntriesInv /\ [AuditNext]_auditVars => EntriesInv'
<1> SUFFICES ASSUME EntriesInv, [AuditNext]_auditVars PROVE EntryInv'
  BY AuditNextType, NextIds DEF EntriesInv
<1> USE DEF EntriesInv
<1>1. CASE AuditFind
  <2>1. CASE auditor' = [auditor EXCEPT !.pc = "save"]
    BY <2>1 DEF EntryInv, AuditTypeInv, AuditTypeOK
  <2>2. ASSUME NEW l \in Duplicates(auditor.check),
               auditor' = [auditor EXCEPT !.pc = "analyze", !.log = l.id]
        PROVE  EntryInv'
    <3>1. auditor'.log = l.id /\ auditor'.check = auditor.check
      BY <2>2 DEF AuditTypeInv, AuditTypeOK
    <3>2. l \in logs' /\ StandsFor(l, auditor.check)
      BY <1>1 DEF AuditFind, Duplicates, StandsFor
    <3> QED BY <3>1, <3>2 DEF EntryInv
  <2> QED BY <1>1, <2>1, <2>2 DEF AuditFind
<1>2. CASE AuditSave
  <2> DEFINE l == Entry(auditor.check)
  <2>1. l \in logs' /\ auditor' = [auditor EXCEPT !.pc = "analyze", !.log = l.id]
    BY <1>2, SavedEntry
  <2>2. StandsFor(l, auditor.check)
    <3>1. auditor.check.time \in 0..MaxTime
      BY <1>2 DEF AuditSave, AuditTypeInv, AuditorBusy, Checks
    <3>2. RoundToSecond(auditor.check.time) \in Int
      BY <3>1, RoundType, NumberAssumption
    <3>3. Same(l, auditor.check) /\ l.time = RoundToSecond(auditor.check.time)
      BY DEF Entry, Same
    <3> HIDE DEF l
    <3> QED BY <3>2, <3>3, NumberAssumption DEF StandsFor, Near, Same
  <2> HIDE DEF l
  <2>3. auditor'.log = l.id /\ auditor'.check = auditor.check
    BY <2>1 DEF AuditTypeInv, AuditTypeOK
  <2> QED BY <2>1, <2>2, <2>3 DEF EntryInv
<1>3. CASE AuditAnalyze
  <2>1. logs' = logs /\ (auditor' = [auditor EXCEPT !.pc = "mark"] \/ auditor' = IdleAuditor)
    BY <1>3 DEF AuditAnalyze
  <2> QED BY <1>3, <2>1 DEF AuditAnalyze, EntryInv, IdleAuditor, AuditTypeInv, AuditTypeOK
<1>4. CASE AuditTake
  BY <1>4 DEF AuditTake, EntryInv
<1>5. CASE AuditMark \/ AuditFails \/ AuditCrash
  BY <1>5 DEF AuditMark, AuditFails, AuditCrash, EntryInv, IdleAuditor
<1>6. CASE HandIn \/ AuditTick \/ UNCHANGED auditVars
  BY <1>6 DEF HandIn, AuditTick, auditVars, EntryInv
<1> QED BY <1>1, <1>2, <1>3, <1>4, <1>5, <1>6 DEF AuditNext, AuditWork

-----------------------------------------------------------------------------
(* Every entry is of a check of its own *)

\* The check whose job wrote the entry
Written(l, c) == Same(l, c) /\ l.time = RoundToSecond(c.time)

\* What is logged, waits or is worked on was handed in.
OriginInv ==
  /\ \A l \in logs : \E c \in recorded : Written(l, c)
  /\ \A j \in jobs : j.check \in recorded
  /\ auditor.pc # "idle" => auditor.check \in recorded

LEMMA NextOrigin ==
  AuditTypeInv /\ IdsInv /\ OriginInv /\ [AuditNext]_auditVars => OriginInv'
<1> SUFFICES ASSUME AuditTypeInv, IdsInv, OriginInv, [AuditNext]_auditVars PROVE OriginInv'
  OBVIOUS
<1> USE DEF OriginInv
<1>1. CASE HandIn
  <2>1. /\ recorded \subseteq recorded' /\ logs' = logs /\ auditor' = auditor
        /\ \A j \in jobs' \ jobs : j.check \in recorded'
    BY <1>1 DEF HandIn, LogPermissionCheck
  <2> QED BY <2>1
<1>2. CASE AuditSave
  <2> DEFINE l == Entry(auditor.check)
  <2>1. logs' = logs \cup {l} /\ UNCHANGED <<recorded, jobs>>
    BY <1>2, SavedEntry DEF AuditSave
  <2>2. auditor.check \in recorded /\ auditor'.check = auditor.check
    BY <1>2 DEF AuditSave, AuditTypeInv, AuditTypeOK
  <2>3. Written(l, auditor.check)
    BY DEF Entry, Written, Same
  <2> HIDE DEF l
  <2> QED BY <2>1, <2>2, <2>3
<1>3. CASE AuditMark
  <2>1. \A l \in logs : Same(Marked(l), l) /\ Marked(l).time = l.time
    BY MarkedEntry DEF AuditTypeInv
  <2>2. UNCHANGED <<recorded, jobs>> /\ auditor'.pc = "idle"
    BY <1>3 DEF AuditMark, IdleAuditor
  <2>3. ASSUME NEW k \in logs'
        PROVE  \E c \in recorded : Written(k, c)
    <3>1. PICK l \in logs : k = Marked(l)
      BY <1>3, MarkedLogs
    <3> QED BY <2>1, <3>1 DEF Written, Same
  <2> QED BY <2>2, <2>3
<1>4. CASE AuditTake
  <2>1. PICK j \in jobs : /\ jobs' = jobs \ {j} /\ UNCHANGED <<recorded, logs>>
                          /\ auditor'.check = j.check
    BY <1>4 DEF AuditTake
  <2> QED BY <2>1
<1>5. CASE AuditFind \/ AuditAnalyze
  <2>1. UNCHANGED <<recorded, jobs, logs>> /\ auditor.pc # "idle"
    BY <1>5 DEF AuditFind, AuditAnalyze
  <2>2. auditor'.check = auditor.check \/ auditor'.pc = "idle"
    <3>1. CASE \E pc \in {"save", "mark"} : auditor' = [auditor EXCEPT !.pc = pc]
      BY <3>1 DEF AuditTypeInv, AuditTypeOK
    <3>2. CASE \E l \in logs : auditor' = [auditor EXCEPT !.pc = "analyze", !.log = l.id]
      BY <3>2 DEF AuditTypeInv, AuditTypeOK
    <3>3. CASE auditor' = IdleAuditor
      BY <3>3 DEF IdleAuditor
    <3> QED BY <1>5, <3>1, <3>2, <3>3 DEF AuditFind, AuditAnalyze, Duplicates
  <2> QED BY <2>1, <2>2
<1>6. CASE AuditFails \/ AuditCrash
  BY <1>6 DEF AuditFails, AuditCrash, IdleAuditor
<1>7. CASE AuditTick \/ UNCHANGED auditVars
  BY <1>7 DEF AuditTick, auditVars
<1> QED BY <1>1, <1>2, <1>3, <1>4, <1>5, <1>6, <1>7 DEF AuditNext, AuditWork

-----------------------------------------------------------------------------
(* Marked for a cause *)

Denials(u) == {m \in logs : m.user = u /\ ~m.granted}

\* No check and no entry is ahead of the clock, but for the rounding.
PastInv == \A c \in recorded : c.time <= now

LEMMA NextPast == AuditTypeInv /\ PastInv /\ [AuditNext]_auditVars => PastInv'
<1> SUFFICES ASSUME AuditTypeInv, PastInv, [AuditNext]_auditVars PROVE PastInv'
  OBVIOUS
<1>1. CASE HandIn
  <2>1. \A c \in recorded' \ recorded : c.time <= now
    BY <1>1, NumberAssumption DEF HandIn, LogPermissionCheck, AuditTypeInv, AuditTypeOK
  <2> QED BY <1>1, <2>1 DEF HandIn, PastInv
<1>2. CASE AuditTick
  BY <1>2, NumberAssumption DEF AuditTick, PastInv, AuditTypeInv, AuditTypeOK, Checks
<1>3. CASE AuditWork \/ AuditFails \/ AuditCrash \/ UNCHANGED auditVars
  BY <1>3 DEF AuditWork, AuditTake, AuditFind, AuditSave, AuditAnalyze, AuditMark, AuditFails,
              AuditCrash, auditVars, PastInv
<1> QED BY <1>1, <1>2, <1>3 DEF AuditNext

LEMMA NotAhead ==
  ASSUME AuditTypeInv, OriginInv, PastInv, NEW l \in logs
  PROVE  l.time \in Int /\ l.time <= now + 1
<1>1. PICK c \in recorded : l.time = RoundToSecond(c.time)
  BY DEF OriginInv, Written
<1>2. c.time \in Nat /\ c.time <= now /\ now \in Nat
  BY NumberAssumption DEF AuditTypeInv, AuditTypeOK, Checks, PastInv
<1> QED BY <1>1, <1>2 DEF RoundToSecond

\* Neither the clock nor the history goes back.
LEMMA History ==
  ASSUME AuditTypeInv, [AuditNext]_auditVars
  PROVE  recorded \subseteq recorded' /\ 0..now \subseteq 0..now'
<1>1. recorded \subseteq recorded'
  BY DEF AuditNext, AuditWork, HandIn, LogPermissionCheck, AuditTake, AuditFind, AuditSave,
         AuditAnalyze, AuditMark, AuditTick, AuditFails, AuditCrash, auditVars
<1>2. now' = now \/ now' = now + 1
  BY DEF AuditNext, AuditWork, HandIn, AuditTake, AuditFind, AuditSave, AuditAnalyze, AuditMark,
         AuditTick, AuditFails, AuditCrash, auditVars
<1> QED BY <1>1, <1>2, NumberAssumption DEF AuditTypeInv, AuditTypeOK

\* No step takes back a denial of anybody; a mark leaves their number as it was.
LEMMA DenialsGrow ==
  ASSUME EntriesInv, [AuditNext]_auditVars, NEW u, NEW t
  PROVE  /\ Cardinality(DenialsAround(u, t)') >= Cardinality(DenialsAround(u, t))
         /\ Cardinality(DenialsAround(u, t)) \in Nat
         /\ Cardinality(DenialsAround(u, t)') \in Nat
<1> DEFINE S == DenialsAround(u, t)
<1>1. S \in SUBSET logs
  BY DEF DenialsAround
<1>2. Cardinality(S) \in Nat
  BY <1>1, FS_Subset, FS_CardinalityType DEF EntriesInv, AuditTypeInv
<1>3. IsFiniteSet(S') /\ Cardinality(S') \in Nat
  <2>1. IsFiniteSet(logs') /\ S' \in SUBSET logs'
    BY AuditNextType DEF EntriesInv, AuditTypeInv, DenialsAround
  <2> QED BY <2>1, FS_Subset, FS_CardinalityType
<1>4. CASE AuditSave
  <2>1. S \in SUBSET (S')
    BY <1>4 DEF AuditSave, DenialsAround
  <2> QED BY <1>2, <1>3, <2>1, FS_Subset
<1>5. CASE AuditMark
  <2>1. S' = {Marked(m) : m \in S}
    <3>1. \A m \in logs : Same(Marked(m), m) /\ Marked(m).time = m.time
      BY MarkedEntry DEF EntriesInv, AuditTypeInv
    <3> QED BY <1>5, <3>1, MarkedLogs DEF DenialsAround, Same
  <2>2. Cardinality(S') = Cardinality(S)
    BY <1>1, <2>1, MarkedCount DEF EntriesInv
  <2> QED BY <1>2, <2>2
<1>6. CASE logs' = logs
  BY <1>2, <1>3, <1>6 DEF DenialsAround
<1> QED BY <1>4, <1>5, <1>6, LogSteps

TooMany(u, t) == Cardinality(DenialsAround(u, t)) >= Threshold

\* Why an entry is suspicious
Cause(l) ==
  \/ DeletedOffHours(l)
  \/ ~l.granted /\ \E t \in 0..now : TooMany(l.user, t)

MarkInv == auditor.pc = "mark" => \A l \in logs : l.id = auditor.log => Cause(l)

CauseInv == EntriesInv /\ OriginInv /\ PastInv /\ MarkedForCause /\ MarkInv

\* A cause once there stays, with or without the mark.
LEMMA CauseStays ==
  ASSUME EntriesInv, [AuditNext]_auditVars, NEW l, NEW k, Same(k, l), k.time = l.time, Cause(l)
  PROVE  Cause(k)'
<1>1. recorded \subseteq recorded' /\ 0..now \subseteq 0..now'
  BY History DEF EntriesInv
<1>2. CASE DeletedOffHours(l)
  <2>1. PICK c \in recorded : StandsFor(l, c) /\ OffHours(c)
    BY <1>2 DEF DeletedOffHours
  <2>2. StandsFor(k, c)
    BY <2>1 DEF StandsFor, Same, Near
  <2> QED BY <1>1, <2>1, <2>2 DEF Cause, DeletedOffHours
<1>3. CASE ~l.granted /\ \E t \in 0..now : TooMany(l.user, t)
  <2>1. PICK t \in 0..now : TooMany(l.user, t)
    BY <1>3
  <2>2. TooMany(l.user, t)'
    BY <2>1, DenialsGrow, NumberAssumption DEF TooMany
  <2>3. k.user = l.user /\ ~k.granted
    BY <1>3 DEF Same
  <2> QED BY <1>1, <2>2, <2>3 DEF Cause
<1> QED BY <1>2, <1>3 DEF Cause

LEMMA NextCause == CauseInv /\ [AuditNext]_auditVars => CauseInv'
<1> SUFFICES ASSUME CauseInv, [AuditNext]_auditVars PROVE MarkedForCause' /\ MarkInv'
  BY NextEntries, NextOrigin, NextPast DEF CauseInv, EntriesInv
<1> USE DEF CauseInv
<1>1. \A l \in logs : l.suspicious => Cause(l)
  BY DEF MarkedForCause, Cause, TooMany
<1>2. ASSUME \A l \in logs' : l.suspicious => Cause(l)'
      PROVE  MarkedForCause'
  BY <1>2 DEF MarkedForCause, Cause, TooMany
<1>3. MarkedForCause'
  <2>1. CASE AuditSave
    BY <1>1, <1>2, <2>1, CauseStays DEF AuditSave, Same
  <2>2. CASE AuditMark
    <3> SUFFICES ASSUME NEW k \in logs', k.suspicious PROVE Cause(k)'
      BY <1>2
    <3>1. PICK l \in logs : k = Marked(l)
      BY <2>2, MarkedLogs
    <3>2. /\ Same(k, l) /\ k.time = l.time
          /\ l.suspicious \/ l.id = auditor.log
      BY <3>1, MarkedEntry DEF EntriesInv, AuditTypeInv
    <3>3. Cause(l)
      BY <1>1, <2>2, <3>2 DEF AuditMark, MarkInv
    <3> QED BY <3>2, <3>3, CauseStays
  <2>3. CASE logs' = logs
    BY <1>1, <1>2, <2>3, CauseStays DEF Same
  <2> QED BY <2>1, <2>2, <2>3, LogSteps
<1>4. MarkInv'
  <2>1. CASE AuditAnalyze
    <3> SUFFICES ASSUME auditor' = [auditor EXCEPT !.pc = "mark"],
                        NEW l \in logs, l.id = auditor.log
                 PROVE  Cause(l)'
      BY <2>1 DEF AuditAnalyze, MarkInv, IdleAuditor, AuditTypeInv, AuditTypeOK, EntriesInv
    <3> DEFINE c == auditor.check
    <3>1. StandsFor(l, c) /\ Same(l, c) /\ c \in recorded
      BY <2>1, WorksOn DEF AuditAnalyze, OriginInv
    <3>2. CASE RapidDenials(c)
      <4>1. RecentDenials(l.user) \in SUBSET DenialsAround(l.user, now)
        BY NotAhead DEF RecentDenials, Recent, DenialsAround, EntriesInv
      <4>2. IsFiniteSet(DenialsAround(l.user, now))
        <5>1. DenialsAround(l.user, now) \in SUBSET logs
          BY DEF DenialsAround
        <5> QED BY <5>1, FS_Subset DEF EntriesInv, AuditTypeInv
      <4>3. /\ IsFiniteSet(RecentDenials(l.user))
            /\ Cardinality(RecentDenials(l.user)) <= Cardinality(DenialsAround(l.user, now))
        BY <4>1, <4>2, FS_Subset
      <4>4. ~l.granted /\ Cardinality(RecentDenials(l.user)) >= Threshold
        BY <3>1, <3>2 DEF RapidDenials, Same
      <4>5. TooMany(l.user, now)
        BY <4>2, <4>3, <4>4, FS_CardinalityType, NumberAssumption DEF TooMany
      <4>6. now \in 0..now
        BY NumberAssumption DEF EntriesInv, AuditTypeInv, AuditTypeOK
      <4>7. Cause(l)
        BY <4>4, <4>5, <4>6 DEF Cause
      <4> QED BY <4>7, CauseStays DEF Same
    <3>3. CASE OffHours(c)
      BY <3>1, <3>3, CauseStays DEF Cause, DeletedOffHours, Same
    <3> QED BY <2>1, <3>2, <3>3 DEF AuditAnalyze, IdleAuditor, AuditTypeInv, AuditTypeOK, EntriesInv
  <2>2. CASE HandIn \/ AuditTick \/ UNCHANGED auditVars
    <3>1. auditor' = auditor /\ logs' = logs
      BY <2>2 DEF HandIn, AuditTick, auditVars
    <3> SUFFICES ASSUME auditor.pc = "mark", NEW l \in logs, l.id = auditor.log
                 PROVE  Cause(l)'
      BY <3>1 DEF MarkInv
    <3>2. Cause(l)
      BY DEF MarkInv
    <3> QED BY <3>2, CauseStays DEF Same
  <2>3. CASE AuditTake
    BY <2>3 DEF AuditTake, MarkInv
  <2>4. CASE AuditMark \/ AuditFails \/ AuditCrash
    BY <2>4 DEF AuditMark, AuditFails, AuditCrash, IdleAuditor, MarkInv
  <2>5. CASE AuditFind \/ AuditSave
    <3>1. auditor'.pc # "mark"
      BY <2>5 DEF AuditFind, AuditSave, EntriesInv, AuditTypeInv, AuditTypeOK
    <3> QED BY <3>1 DEF MarkInv
  <2> QED BY <2>1, <2>2, <2>3, <2>4, <2>5 DEF AuditNext, AuditWork
<1> QED BY <1>3, <1>4

LEMMA InitCause == AuditInit => CauseInv
  BY InitEntries
  DEF AuditInit, CauseInv, OriginInv, PastInv, MarkedForCause, MarkInv, IdleAuditor

LEMMA AlwaysCause == AuditSpec => []CauseInv
  BY InitCause, NextCause, PTL DEF AuditSpec

\* The anomaly detection accuses nobody without a cause: whatever the order of
\* the checks, failures and crashes, an entry that SuspiciousActivityService has
\* marked stands for a deletion asked for off hours, or is a denial of a user
\* with Threshold denials within the span of one moment.
THEOREM MarkedOnlyForCause == AuditSpec => []MarkedForCause
<1>1. CauseInv => MarkedForCause
  BY DEF CauseInv
<1> QED BY <1>1, AlwaysCause, PTL

-----------------------------------------------------------------------------
(* No denial counts twice *)

DeniedChecks(u) == {c \in recorded : c.user = u /\ ~c.granted}

\* Two entries never come from one check: they would lie at the same second.
LEMMA DenialsWereChecks ==
  ASSUME AuditTypeInv, IdsInv, OriginInv, NoDuplicateLogs, NEW u
  PROVE  /\ Cardinality(Denials(u)) <= Cardinality(DeniedChecks(u))
         /\ Cardinality(Denials(u)) \in Nat /\ Cardinality(DeniedChecks(u)) \in Nat
<1> DEFINE Origin(l) == CHOOSE c \in recorded : Written(l, c)
           f == [l \in Denials(u) |-> Origin(l)]
<1>1. ASSUME NEW l \in Denials(u)
      PROVE  Origin(l) \in DeniedChecks(u) /\ Written(l, Origin(l))
  <2>1. \E c \in recorded : Written(l, c)
    BY DEF Denials, OriginInv
  <2>2. Origin(l) \in recorded /\ Written(l, Origin(l))
    BY <2>1
  <2> QED BY <2>2 DEF Denials, DeniedChecks, Written, Same
<1> HIDE DEF Origin
<1>2. ASSUME NEW l \in Denials(u), NEW m \in Denials(u), Origin(l) = Origin(m)
      PROVE  l = m
  <2>1. Same(l, m) /\ l.time = m.time
    BY <1>1, <1>2 DEF Written, Same
  <2>2. l \in logs /\ m \in logs /\ l.time \in Int
    BY DEF Denials, AuditTypeInv, AuditTypeOK, Logs
  <2>3. l.time - m.time \in -Window..Window
    BY <2>1, <2>2, NumberAssumption
  <2>4. l.id = m.id
    BY <2>1, <2>2, <2>3 DEF NoDuplicateLogs, Same
  <2> QED BY <2>2, <2>4 DEF IdsInv
<1>3. f \in Injection(Denials(u), DeniedChecks(u))
  BY <1>1, <1>2 DEF Injection, IsInjective
<1>4. IsFiniteSet(DeniedChecks(u)) /\ IsFiniteSet(Denials(u))
  <2>1. DeniedChecks(u) \in SUBSET recorded /\ Denials(u) \in SUBSET logs
    BY DEF DeniedChecks, Denials
  <2> QED BY <2>1, FS_Subset DEF AuditTypeInv
<1> HIDE DEF f
<1>5. Cardinality(Denials(u)) <= Cardinality(DeniedChecks(u))
  BY <1>3, <1>4, FS_Injection
<1> QED BY <1>4, <1>5, FS_CardinalityType

\* The anomaly detection counts no denial twice, however often a job is run and
\* whatever else fails: who is marked for denials was denied Threshold checks.
THEOREM MarkedOnlyForChecks == AuditSpec => []MarkedForDeniedChecks
<1>1. CauseInv /\ NoDuplicateLogs => MarkedForDeniedChecks
  <2> SUFFICES ASSUME CauseInv, NoDuplicateLogs,
                      NEW l \in logs, l.suspicious, ~DeletedOffHours(l)
               PROVE  Cardinality(DeniedChecks(l.user)) >= Threshold
    BY DEF MarkedForDeniedChecks, DeniedChecks
  <2>1. PICK t \in 0..now : Cardinality(DenialsAround(l.user, t)) >= Threshold
    BY DEF CauseInv, MarkedForCause
  <2>2. DenialsAround(l.user, t) \in SUBSET Denials(l.user) /\ Denials(l.user) \in SUBSET logs
    BY DEF DenialsAround, Denials
  <2>3. IsFiniteSet(Denials(l.user))
    BY <2>2, FS_Subset DEF CauseInv, EntriesInv, AuditTypeInv
  <2>4. /\ Cardinality(DenialsAround(l.user, t)) <= Cardinality(Denials(l.user))
        /\ Cardinality(DenialsAround(l.user, t)) \in Nat
    BY <2>2, <2>3, FS_Subset, FS_CardinalityType
  <2>5. /\ Cardinality(Denials(l.user)) <= Cardinality(DeniedChecks(l.user))
        /\ Cardinality(Denials(l.user)) \in Nat /\ Cardinality(DeniedChecks(l.user)) \in Nat
    BY DenialsWereChecks DEF CauseInv, EntriesInv
  <2> QED BY <2>1, <2>4, <2>5, NumberAssumption
<1> QED BY <1>1, AlwaysCause, LogsDistinct, PTL

-----------------------------------------------------------------------------
(* Rapid denials are marked *)

\* The recent denials of an entry's user up to that entry, in the order in
\* which they were saved
UpTo(l) == {m \in RecentDenials(l.user) : m.id <= l.id}

\* A denial that made its user's recent denials too many is marked, or the
\* worker has it in hand.  This is what holds while the worker runs, and at
\* every entry; RapidDenialsMarked only speaks of the last one, when it is idle.
RapidInv ==
  faults = 0 =>
    \A l \in logs : ~l.granted /\ Cardinality(UpTo(l)) >= Threshold =>
      \/ l.suspicious
      \/ auditor.pc \in {"analyze", "mark"} /\ auditor.log = l.id

LEMMA UpToFinite ==
  ASSUME AuditTypeInv, NEW l
  PROVE  /\ IsFiniteSet(RecentDenials(l.user)) /\ Cardinality(RecentDenials(l.user)) \in Nat
         /\ UpTo(l) \in SUBSET RecentDenials(l.user)
         /\ Cardinality(UpTo(l)) \in Nat
         /\ Cardinality(UpTo(l)) <= Cardinality(RecentDenials(l.user))
<1>1. RecentDenials(l.user) \in SUBSET logs /\ UpTo(l) \in SUBSET RecentDenials(l.user)
  BY DEF RecentDenials, UpTo
<1>2. IsFiniteSet(RecentDenials(l.user))
  BY <1>1, FS_Subset DEF AuditTypeInv
<1> QED BY <1>1, <1>2, FS_Subset, FS_CardinalityType

\* Only time and a mark touch what is up to an entry of the log, and neither
\* makes it more.
LEMMA UpToShrinks ==
  ASSUME EntriesInv, [AuditNext]_auditVars, NEW l \in logs, NEW k \in logs',
         k.id = l.id, k.user = l.user
  PROVE  Cardinality(UpTo(k)') <= Cardinality(UpTo(l))
<1>1. AuditTypeInv'
  BY AuditNextType DEF EntriesInv
<1>2. now' >= now /\ now \in Nat /\ now' \in Nat
  <2>1. now' = now \/ now' = now + 1
    BY DEF AuditNext, AuditWork, HandIn, AuditTake, AuditFind, AuditSave, AuditAnalyze, AuditMark,
           AuditTick, AuditFails, AuditCrash, auditVars
  <2>2. now \in Nat
    BY NumberAssumption DEF EntriesInv, AuditTypeInv, AuditTypeOK
  <2> QED BY <2>1, <2>2
<1>3. \A t \in Nat : Recent(t)' => Recent(t)
  BY <1>2, NumberAssumption DEF Recent
<1>4. \A m \in logs : m.time \in Nat /\ m.id \in Nat
  BY DEF EntriesInv, AuditTypeInv, AuditTypeOK, Logs
<1>5. IsFiniteSet(UpTo(l)) /\ Cardinality(UpTo(l)) \in Nat
  BY UpToFinite, FS_Subset DEF EntriesInv
<1>6. CASE AuditSave
  <2>1. UpTo(k)' \in SUBSET UpTo(l)
    <3>1. PICK n : logs' = logs \cup {n} /\ n.id = Cardinality(logs) + 1
      BY <1>6, SavedEntry DEF EntriesInv
    <3>2. ~(n.id <= l.id)
      BY <1>4, <3>1, FS_CardinalityType DEF EntriesInv, IdsInv, AuditTypeInv
    <3> QED BY <1>3, <1>4, <3>1, <3>2 DEF UpTo, RecentDenials
  <2> QED BY <1>5, <2>1, FS_Subset
<1>7. CASE AuditMark
  <2> DEFINE S == {m \in UpTo(l) : Recent(m.time)'}
  <2>1. S \in SUBSET UpTo(l) /\ S \in SUBSET logs
    BY DEF UpTo, RecentDenials
  <2>2. \A m \in logs : Marked(m).id = m.id /\ Marked(m).time = m.time /\ Same(Marked(m), m)
    BY MarkedEntry DEF EntriesInv, AuditTypeInv
  <2>3. UpTo(k)' = {Marked(m) : m \in S}
    BY <1>3, <1>4, <1>7, <2>2, MarkedLogs DEF UpTo, RecentDenials, Same
  <2> HIDE DEF S
  <2>4. Cardinality(UpTo(k)') = Cardinality(S)
    BY <2>1, <2>3, MarkedCount DEF EntriesInv
  <2> QED BY <1>5, <2>1, <2>4, FS_Subset
<1>8. CASE logs' = logs
  <2>1. UpTo(k)' \in SUBSET UpTo(l)
    BY <1>3, <1>4, <1>8 DEF UpTo, RecentDenials
  <2> QED BY <1>5, <2>1, FS_Subset
<1> QED BY <1>6, <1>7, <1>8, LogSteps

RapidlyInv == EntriesInv /\ RapidInv

LEMMA NextRapidly == RapidlyInv /\ [AuditNext]_auditVars => RapidlyInv'
<1> SUFFICES ASSUME RapidlyInv, [AuditNext]_auditVars PROVE RapidInv'
  BY NextEntries DEF RapidlyInv
<1> USE DEF RapidlyInv
<1>1. CASE AuditFails \/ AuditCrash
  BY <1>1, NumberAssumption
  DEF AuditFails, AuditCrash, Fault, RapidInv, EntriesInv, AuditTypeInv, AuditTypeOK
<1>2. CASE ~(AuditFails \/ AuditCrash)
  <2> SUFFICES ASSUME faults = 0, NEW k \in logs', ~k.granted, Cardinality(UpTo(k)') >= Threshold
               PROVE  \/ k.suspicious
                      \/ auditor'.pc \in {"analyze", "mark"} /\ auditor'.log = k.id
    <3>1. faults' = faults
      BY <1>2 DEF AuditNext, AuditWork, HandIn, AuditTake, AuditFind, AuditSave, AuditAnalyze,
                  AuditMark, AuditTick, auditVars
    <3> QED BY <3>1 DEF RapidInv
  \* An entry that was there before, marked at most
  <2>1. ASSUME NEW l \in logs, k.id = l.id, Same(k, l)
        PROVE  l.suspicious \/ (auditor.pc \in {"analyze", "mark"} /\ auditor.log = l.id)
    <3>1. Cardinality(UpTo(k)') <= Cardinality(UpTo(l))
      BY <2>1, UpToShrinks DEF Same
    <3>2. Cardinality(UpTo(l)) \in Nat
      BY UpToFinite DEF EntriesInv
    <3>3. Cardinality(UpTo(k)') \in Nat
      <4>1. IsFiniteSet(logs') /\ UpTo(k)' \in SUBSET logs'
        BY AuditNextType DEF EntriesInv, AuditTypeInv, UpTo, RecentDenials
      <4> QED BY <4>1, FS_Subset, FS_CardinalityType
    <3>4. Cardinality(UpTo(l)) >= Threshold
      BY <3>1, <3>2, <3>3, NumberAssumption
    <3> QED BY <2>1, <3>4 DEF RapidInv, Same
  <2>2. CASE AuditSave
    <3>1. PICK n : /\ logs' = logs \cup {n}
                   /\ auditor' = [auditor EXCEPT !.pc = "analyze", !.log = n.id]
      BY <2>2, SavedEntry DEF EntriesInv
    <3>2. auditor'.pc = "analyze" /\ auditor'.log = n.id
      BY <3>1 DEF EntriesInv, AuditTypeInv, AuditTypeOK
    <3>3. CASE k = n
      BY <3>2, <3>3
    <3>4. CASE k \in logs
      BY <2>1, <2>2, <3>4 DEF AuditSave, Same
    <3> QED BY <3>1, <3>3, <3>4
  <2>3. CASE AuditMark
    <3>1. PICK l \in logs : k = Marked(l)
      BY <2>3, MarkedLogs
    <3>2. k.id = l.id /\ Same(k, l) /\ (k.suspicious <=> l.suspicious \/ l.id = auditor.log)
      BY <3>1, MarkedEntry DEF EntriesInv, AuditTypeInv
    <3> QED BY <2>1, <3>2
  <2>4. CASE AuditAnalyze
    <3>1. k \in logs
      BY <2>4 DEF AuditAnalyze
    <3>2. k.suspicious \/ (auditor.pc = "analyze" /\ auditor.log = k.id)
      BY <2>1, <2>4, <3>1 DEF AuditAnalyze, Same
    <3>3. ASSUME auditor.log = k.id, ~RapidDenials(auditor.check)
          PROVE  FALSE
      <4>1. Same(k, auditor.check)
        BY <2>4, <3>1, <3>3, WorksOn DEF AuditAnalyze
      <4>2. ~(Cardinality(RecentDenials(k.user)) >= Threshold)
        <5>1. k.user = auditor.check.user /\ ~auditor.check.granted
          BY <4>1 DEF Same
        <5> QED BY <3>3, <5>1 DEF RapidDenials
      <4>3. Cardinality(UpTo(k)') = Cardinality(UpTo(k))
        BY <2>4 DEF AuditAnalyze, UpTo, RecentDenials, Recent
      <4>4. Cardinality(UpTo(k)) <= Cardinality(RecentDenials(k.user))
            /\ Cardinality(UpTo(k)) \in Nat /\ Cardinality(RecentDenials(k.user)) \in Nat
        BY UpToFinite DEF EntriesInv
      <4> QED BY <4>2, <4>3, <4>4, NumberAssumption
    <3>4. RapidDenials(auditor.check) =>
            auditor'.pc = "mark" /\ auditor'.log = auditor.log
      BY <2>4 DEF AuditAnalyze, EntriesInv, AuditTypeInv, AuditTypeOK
    <3> QED BY <3>2, <3>3, <3>4
  <2>5. CASE AuditTake \/ AuditFind
    <3>1. k \in logs /\ auditor.pc \notin {"analyze", "mark"}
      BY <2>5 DEF AuditTake, AuditFind
    <3> QED BY <2>1, <3>1 DEF Same
  <2>6. CASE HandIn \/ AuditTick \/ UNCHANGED auditVars
    <3>1. k \in logs /\ auditor' = auditor
      BY <2>6 DEF HandIn, AuditTick, auditVars
    <3> QED BY <2>1, <3>1 DEF Same
  <2> QED BY <1>2, <2>2, <2>3, <2>4, <2>5, <2>6 DEF AuditNext, AuditWork
<1> QED BY <1>1, <1>2

\* Of some entries there is one that was saved last.
LEMMA LastEntry ==
  ASSUME EntriesInv, NEW S \in SUBSET logs, S # {}
  PROVE  \E l \in S : \A m \in S : m.id <= l.id
<1> DEFINE n == Cardinality(logs)
           T == {n - l.id : l \in S}
<1>1. n \in Nat /\ \A l \in S : l.id \in Nat /\ l.id <= n
  BY FS_CardinalityType DEF EntriesInv, AuditTypeInv, AuditTypeOK, IdsInv, Logs
<1>2. T \subseteq Nat /\ T # {}
  BY <1>1
<1> HIDE DEF n
<1>3. PICK x \in T : \A y \in T : <<y, x>> \notin OpToRel(<, Nat)
  <2> HIDE DEF T
  <2> QED BY <1>2, WFMin, NatLessThanWellFounded, Zenon
<1>4. \A y \in T : ~(y < x)
  <2> HIDE DEF T
  <2> QED BY <1>2, <1>3, Zenon DEF OpToRel
<1>5. PICK l \in S : x = n - l.id
  BY <1>3
<1>6. ASSUME NEW m \in S
      PROVE  m.id <= l.id
  <2>1. n - m.id \in T
    OBVIOUS
  <2>2. ~(n - m.id < n - l.id)
    BY <1>4, <1>5, <2>1
  <2> QED BY <1>1, <2>2
<1> QED BY <1>6

LEMMA RapidlyMarked == RapidlyInv => RapidDenialsMarked
<1> SUFFICES ASSUME RapidlyInv, faults = 0, auditor.pc = "idle", NEW u \in Users,
                    Cardinality(RecentDenials(u)) >= Threshold
             PROVE  \E l \in RecentDenials(u) : l.suspicious
  BY DEF RapidDenialsMarked
<1>1. RecentDenials(u) \in SUBSET logs
  BY DEF RecentDenials
<1>2. RecentDenials(u) # {}
  BY FS_EmptySet, ThresholdAssumption, NumberAssumption
<1>3. PICK l \in RecentDenials(u) : \A m \in RecentDenials(u) : m.id <= l.id
  BY <1>1, <1>2, LastEntry DEF RapidlyInv
<1>4. l \in logs /\ l.user = u /\ ~l.granted
  BY <1>3 DEF RecentDenials
<1>5. UpTo(l) = RecentDenials(u)
  BY <1>3, <1>4 DEF UpTo
<1> QED BY <1>3, <1>4, <1>5 DEF RapidlyInv, RapidInv

\* While nothing fails, the anomaly detection misses nobody: once the worker is
\* idle, a user with Threshold recent denials has a marked one among them.  The
\* last of them made it Threshold, and the worker counted when it saved that one.
THEOREM RapidDenialsAreMarked == AuditSpec => []RapidDenialsMarked
<1>1. AuditInit => RapidlyInv
  BY InitEntries DEF AuditInit, RapidlyInv, RapidInv
<1>2. AuditSpec => []RapidlyInv
  BY <1>1, NextRapidly, PTL DEF AuditSpec
<1> QED BY <1>2, RapidlyMarked, PTL

-----------------------------------------------------------------------------
(* No check is lost *)

\* What is in the log stays there: a mark changes nothing Logged looks at.
LEMMA LoggedStays ==
  ASSUME AuditTypeInv, [AuditNext]_auditVars, NEW c, Logged(c)
  PROVE  Logged(c)'
<1>1. CASE AuditMark
  <2>1. \A l \in logs : Marked(l).time = l.time /\ Same(Marked(l), l)
    BY MarkedEntry DEF AuditTypeInv
  <2> QED BY <1>1, <2>1, MarkedLogs DEF Logged, StandsFor, Near, Same
<1>2. CASE AuditSave
  BY <1>2 DEF AuditSave, Logged, StandsFor, Near
<1>3. CASE logs' = logs
  BY <1>3 DEF Logged, StandsFor, Near
<1> QED BY <1>1, <1>2, <1>3, LogSteps

\* The places of a check on its way
OnItsWay(c) ==
  \/ \E j \in jobs : j.check = c
  \/ auditor.pc \in {"find", "save"} /\ auditor.check = c
  \/ Logged(c)

LEMMA NextLost == EntriesInv /\ NoCheckLost /\ [AuditNext]_auditVars => NoCheckLost'
<1> SUFFICES ASSUME EntriesInv, NoCheckLost, [AuditNext]_auditVars PROVE NoCheckLost'
  OBVIOUS
<1> USE DEF EntriesInv
<1>1. CASE AuditFails \/ AuditCrash
  BY <1>1, NumberAssumption DEF AuditFails, AuditCrash, Fault, NoCheckLost, AuditTypeInv, AuditTypeOK
<1>2. CASE ~(AuditFails \/ AuditCrash)
  <2> SUFFICES ASSUME faults = 0, NEW c \in recorded' PROVE OnItsWay(c)'
    <3>1. faults' = faults
      BY <1>2 DEF AuditNext, AuditWork, HandIn, AuditTake, AuditFind, AuditSave, AuditAnalyze,
                  AuditMark, AuditTick, auditVars
    <3> QED BY <3>1 DEF NoCheckLost, OnItsWay
  <2>1. c \in recorded => OnItsWay(c)
    BY DEF NoCheckLost, OnItsWay
  <2>2. CASE HandIn
    <3>1. PICK u \in Users, perm \in Permissions, granted \in BOOLEAN, t \in 0..now :
            LogPermissionCheck(u, perm, granted, t)
      BY <2>2 DEF HandIn
    <3>2. jobs \subseteq jobs' /\ UNCHANGED <<auditor, logs>>
      BY <2>2, <3>1 DEF HandIn, LogPermissionCheck
    <3>3. c \in recorded \/ \E j \in jobs' : j.check = c
      <4> DEFINE check == [id |-> Cardinality(recorded) + 1, user |-> u, perm |-> perm,
                           granted |-> granted, time |-> t]
                 job == [check |-> check, stalls |-> 0]
      <4>1. \/ recorded' = recorded
            \/ recorded' = recorded \cup {check} /\ jobs' = jobs \cup {job}
        BY <3>1 DEF LogPermissionCheck
      <4>2. job.check = check
        OBVIOUS
      <4> HIDE DEF check, job
      <4> QED BY <4>1, <4>2
    <3> QED BY <2>1, <3>2, <3>3 DEF OnItsWay, Logged, StandsFor, Near
  <2>3. CASE AuditTake
    <3>1. PICK j \in jobs :
            /\ jobs' = jobs \ {j}
            /\ auditor' = [pc |-> "find", check |-> j.check, stalls |-> j.stalls, log |-> 0]
      BY <2>3 DEF AuditTake
    <3>2. auditor.pc = "idle" /\ UNCHANGED <<recorded, logs>>
      BY <2>3 DEF AuditTake
    <3> QED BY <2>1, <3>1, <3>2 DEF OnItsWay, Logged, StandsFor, Near
  <2>4. CASE AuditFind
    <3>1. UNCHANGED <<recorded, jobs, logs>>
      BY <2>4 DEF AuditFind
    <3>2. CASE auditor' = [auditor EXCEPT !.pc = "save"]
      <4>1. auditor'.pc = "save" /\ auditor'.check = auditor.check
        BY <3>2 DEF AuditTypeInv, AuditTypeOK
      <4> QED BY <2>1, <3>1, <4>1 DEF OnItsWay, Logged, StandsFor, Near
    <3>3. CASE Duplicates(auditor.check) # {}
      <4>1. Logged(auditor.check)
        BY <3>3 DEF Duplicates, Logged, StandsFor
      <4> QED BY <2>1, <3>1, <4>1 DEF OnItsWay, Logged, StandsFor, Near
    <3> QED BY <2>4, <3>2, <3>3 DEF AuditFind
  <2>5. CASE AuditSave
    <3> DEFINE l == Entry(auditor.check)
    <3>1. auditor.check \in Checks /\ UNCHANGED <<recorded, jobs>>
      BY <2>5 DEF AuditSave, AuditTypeInv, AuditorBusy
    <3>2. l \in logs'
      BY <2>5, SavedEntry
    <3>3. l.time = RoundToSecond(auditor.check.time) /\ l.time \in Int /\ Same(l, auditor.check)
      BY <3>1, RoundType DEF Entry, Same, Checks
    <3> HIDE DEF l
    <3>4. l.time - RoundToSecond(auditor.check.time) \in -Window..Window
      BY <3>3, NumberAssumption
    <3>5. ASSUME auditor.check = c PROVE Logged(c)'
      BY <3>2, <3>3, <3>4, <3>5, NumberAssumption DEF Logged, StandsFor, Near, Same
    <3>6. Logged(c) => Logged(c)'
      BY LoggedStays
    <3> QED BY <2>1, <3>1, <3>5, <3>6 DEF OnItsWay
  <2>6. CASE AuditAnalyze \/ AuditMark
    <3>1. auditor.pc \notin {"find", "save"} /\ UNCHANGED <<recorded, jobs>>
      BY <2>6 DEF AuditAnalyze, AuditMark
    <3>2. Logged(c) => Logged(c)'
      BY LoggedStays
    <3> QED BY <2>1, <3>1, <3>2 DEF OnItsWay
  <2>7. CASE AuditTick \/ UNCHANGED auditVars
    BY <2>1, <2>7 DEF AuditTick, auditVars, OnItsWay, Logged, StandsFor, Near
  <2> QED BY <1>2, <2>2, <2>3, <2>4, <2>5, <2>6, <2>7 DEF AuditNext, AuditWork
<1> QED BY <1>1, <1>2

\* While nothing fails, every check that was handed in is waiting, in the hands
\* of the worker or in the log, also when the entry it finds is of another check.
THEOREM ChecksStay == AuditSpec => []NoCheckLost
<1>1. AuditInit => EntriesInv /\ NoCheckLost
  BY InitEntries DEF AuditInit, NoCheckLost
<1>2. AuditSpec => [](EntriesInv /\ NoCheckLost)
  BY <1>1, NextEntries, NextLost, PTL DEF AuditSpec
<1> QED BY <1>2, PTL

=============================================================================
