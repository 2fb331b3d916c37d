------------------------ MODULE RequestGuardProofs -------------------------
(***************************************************************************)
(* Theorems about RequestGuard, for any users, permissions, environments   *)
(* and permission lists, and any number of requests in flight.             *)
(***************************************************************************)
EXTENDS RequestGuard, AuditPipelineProofs

-----------------------------------------------------------------------------
(* Type correctness *)

HandlerOK(h) ==
  /\ h.pc # "idle" => h.user \in Users /\ h.perm \in Permissions
  /\ h.pc = "run" => h.granted
  /\ h.time <= now

\* Besides the types: no request comes from the future.
TypeInv ==
  /\ GuardTypeOK
  /\ now \in 0..MaxTime
  /\ \A p \in Handlers : hs[p].time <= now

LEMMA IdleType == Idle \in HandlerStates
  BY NumberAssumption DEF Idle, HandlerStates, HandlerPcs

\* One handler moves on to a state that is well typed.
LEMMA MoveType ==
  ASSUME TypeInv, NEW p \in Handlers, NEW h \in HandlerStates, HandlerOK(h),
         hs' = [hs EXCEPT ![p] = h], UNCHANGED <<now, accounts, lists, tokens>>
  PROVE  TypeInv'
<1>1. hs' \in [Handlers -> HandlerStates]
  BY DEF TypeInv, GuardTypeOK
<1>2. \A q \in Handlers : hs'[q] = h \/ hs'[q] = hs[q]
  BY DEF TypeInv, GuardTypeOK
<1>3. \A q \in Handlers :
        /\ hs'[q].pc # "idle" => hs'[q].user \in Users /\ hs'[q].perm \in Permissions
        /\ hs'[q].pc = "run" => hs'[q].granted
        /\ hs'[q].time <= now'
  BY <1>2 DEF TypeInv, GuardTypeOK, HandlerOK
<1> QED BY <1>1, <1>3 DEF TypeInv, GuardTypeOK

\* A handler that answers, or whose request fails
LEMMA LeaveType ==
  ASSUME TypeInv, NEW p \in Handlers, hs' = [hs EXCEPT ![p] = Idle],
         UNCHANGED <<now, accounts, lists, tokens>>
  PROVE  TypeInv'
<1>1. HandlerOK(Idle)
  BY NumberAssumption DEF HandlerOK, Idle, TypeInv
<1> QED BY <1>1, IdleType, MoveType

LEMMA SettleType ==
  ASSUME TypeInv, NEW p \in Handlers, NEW pc \in {"audit", "answer"}, NEW t \in Nat,
         hs[p].pc # "idle", Settle(p, pc, t), UNCHANGED <<now, accounts, lists, tokens>>
  PROVE  TypeInv'
<1> DEFINE h == [hs[p] EXCEPT !.pc = pc, !.carried = None, !.granted = Decision(p, t)]
<1>1. hs[p] \in HandlerStates
  BY DEF TypeInv, GuardTypeOK
<1>2. Decision(p, t) \in BOOLEAN
  BY DEF Decision
<1>3. h \in HandlerStates
  BY <1>1, <1>2 DEF HandlerStates, HandlerPcs
<1>4. h.pc = pc /\ h.user = hs[p].user /\ h.perm = hs[p].perm /\ h.time = hs[p].time
  BY <1>1 DEF HandlerStates
<1>5. hs' = [hs EXCEPT ![p] = h]
  BY <1>1 DEF Settle, TypeInv, GuardTypeOK, HandlerStates
<1>6. HandlerOK(h)
  BY <1>4 DEF HandlerOK, TypeInv, GuardTypeOK
<1> HIDE DEF h
<1> QED BY <1>3, <1>5, <1>6, MoveType

LEMMA EnterType ==
  ASSUME TypeInv, NEW p \in Handlers, NEW pc \in {"guard", "ask"}, NEW t \in tokens,
         NEW perm \in Permissions, NEW env \in Environments, Enter(p, pc, t, perm, env)
  PROVE  TypeInv'
<1> DEFINE carried == Carry(Validated(t), env)
           h == [Idle EXCEPT !.pc = pc, !.user = t.user, !.perm = perm,
                             !.carried = carried, !.time = now]
<1>1. t.user \in Users
  BY DEF TypeInv, GuardTypeOK, Tokens
<1>2. carried \in Carried
  <2>1. Validated(t).dept \in Departments \cup {None} /\ Validated(t).mfa \in BOOLEAN
    BY <1>1 DEF Validated, TypeInv, GuardTypeOK, Tokens, Accounts
  <2> QED BY <2>1 DEF Carry, Carried
<1> HIDE DEF carried
<1>3. h \in HandlerStates
  BY <1>1, <1>2, IdleType DEF HandlerStates, HandlerPcs, TypeInv
<1>4. HandlerOK(h)
  BY <1>1 DEF HandlerOK, Idle, TypeInv
<1>5. hs' = [hs EXCEPT ![p] = h] /\ UNCHANGED <<now, accounts, lists, tokens>>
  BY DEF Enter, auditVars, carried
<1> HIDE DEF h
<1> QED BY <1>3, <1>4, <1>5, MoveType

LEMMA InitType == Init => TypeInv
  BY IdleType, AccountAssumption, NumberAssumption
  DEF Init, AuditInit, TypeInv, GuardTypeOK, Tokens, Idle

\* The controller changes accounts to accounts.
LEMMA RunType ==
  ASSUME TypeInv, NEW p \in Handlers, Run(p)
  PROVE  TypeInv'
<1>1. accounts' \in [Users -> Accounts]
  <2>1. \A u \in Users, active \in BOOLEAN, dept \in Departments \cup {None} :
          [accounts EXCEPT ![u].active = active, ![u].dept = dept] \in [Users -> Accounts]
    BY DEF TypeInv, GuardTypeOK, Accounts
  <2>2. \A u \in Users : [accounts EXCEPT ![u].active = FALSE] \in [Users -> Accounts]
    BY DEF TypeInv, GuardTypeOK, Accounts
  <2>3. accounts \in [Users -> Accounts]
    BY DEF TypeInv, GuardTypeOK
  <2>4. \/ \E u \in Users, active \in BOOLEAN : \E dept \in Departments \cup {accounts[u].dept} :
             accounts' = [accounts EXCEPT ![u].active = active, ![u].dept = dept]
        \/ \E u \in Users : accounts' = [accounts EXCEPT ![u].active = FALSE]
        \/ accounts' = accounts
    BY Zenon DEF Run
  <2>5. CASE \E u \in Users, active \in BOOLEAN :
               \E dept \in Departments \cup {accounts[u].dept} :
                 accounts' = [accounts EXCEPT ![u].active = active, ![u].dept = dept]
    <3>1. PICK u \in Users, active \in BOOLEAN : \E dept \in Departments \cup {accounts[u].dept} :
            accounts' = [accounts EXCEPT ![u].active = active, ![u].dept = dept]
      BY <2>5
    <3>2. PICK dept \in Departments \cup {accounts[u].dept} :
            accounts' = [accounts EXCEPT ![u].active = active, ![u].dept = dept]
      BY <3>1
    <3>3. dept \in Departments \cup {None}
      BY <2>3 DEF Accounts
    <3>4. [accounts EXCEPT ![u].active = active, ![u].dept = dept] \in [Users -> Accounts]
      BY <2>1, <3>3
    <3> QED BY ONLY <3>2, <3>4
  <2>6. CASE \E u \in Users : accounts' = [accounts EXCEPT ![u].active = FALSE]
    BY <2>2, <2>6
  <2> QED BY <2>3, <2>4, <2>5, <2>6
<1>2. hs' = [hs EXCEPT ![p] = Idle] /\ UNCHANGED <<now, lists, tokens>>
  BY DEF Run, auditVars
<1>3. hs' \in [Handlers -> HandlerStates]
  BY <1>2, IdleType DEF TypeInv, GuardTypeOK
<1>4. \A q \in Handlers : hs'[q] = Idle \/ hs'[q] = hs[q]
  BY <1>2 DEF TypeInv, GuardTypeOK
<1>5. HandlerOK(Idle)
  BY NumberAssumption DEF HandlerOK, Idle, TypeInv
<1>6. \A q \in Handlers :
        /\ hs'[q].pc # "idle" => hs'[q].user \in Users /\ hs'[q].perm \in Permissions
        /\ hs'[q].pc = "run" => hs'[q].granted
        /\ hs'[q].time <= now'
  BY <1>2, <1>4, <1>5 DEF HandlerOK, TypeInv, GuardTypeOK
<1> QED BY <1>1, <1>2, <1>3, <1>6 DEF TypeInv, GuardTypeOK

LEMMA AuditType ==
  ASSUME TypeInv, NEW p \in Handlers, Audit(p)
  PROVE  TypeInv'
<1>1. UNCHANGED <<now, accounts, lists, tokens>>
  BY DEF Audit
<1>2. CASE hs[p].granted
  <2> DEFINE h == [hs[p] EXCEPT !.pc = "run"]
  <2>1. hs' = [hs EXCEPT ![p] = h]
    BY <1>2 DEF Audit
  <2>2. h \in HandlerStates /\ HandlerOK(h)
    BY <1>2 DEF Audit, TypeInv, GuardTypeOK, HandlerStates, HandlerPcs, HandlerOK
  <2> HIDE DEF h
  <2> QED BY <1>1, <2>1, <2>2, MoveType
<1>3. CASE ~hs[p].granted
  BY <1>1, <1>3, LeaveType DEF Audit
<1> QED BY <1>2, <1>3

LEMMA NextType == TypeInv /\ [Next]_vars => TypeInv'
<1> SUFFICES ASSUME TypeInv, [Next]_vars PROVE TypeInv'
  OBVIOUS
<1>1. ASSUME NEW u \in Users, Login(u) PROVE TypeInv'
  <2>1. accounts[u] \in Accounts
    BY DEF TypeInv, GuardTypeOK
  <2>2. [user |-> u, dept |-> accounts[u].dept, mfa |-> accounts[u].mfa] \in Tokens
    BY <2>1 DEF Accounts, Tokens
  <2> QED BY <1>1, <2>2 DEF Login, auditVars, TypeInv, GuardTypeOK
<1>2. ASSUME NEW u \in Users, ListChanges(u) PROVE TypeInv'
  BY <1>2 DEF ListChanges, auditVars, TypeInv, GuardTypeOK
<1>3. CASE TokenExpires
  BY <1>3 DEF TokenExpires, auditVars, TypeInv, GuardTypeOK
<1>4. ASSUME NEW p \in Handlers, NEW t \in tokens, NEW perm \in Permissions,
             NEW env \in Environments, Arrive(p, t, perm, env) \/ Ask(p, t, perm, env)
      PROVE  TypeInv'
  BY <1>4, EnterType DEF Arrive, Ask
<1>5. ASSUME NEW p \in Handlers, Decide(p) \/ Answer(p) PROVE TypeInv'
  <2>1. now \in Nat /\ hs[p].time \in Nat
    BY NumberAssumption DEF TypeInv, GuardTypeOK, HandlerStates
  <2> QED BY <1>5, <2>1, SettleType DEF Decide, Answer, auditVars
<1>6. ASSUME NEW p \in Handlers, Audit(p) PROVE TypeInv'
  BY <1>6, AuditType
<1>7. ASSUME NEW p \in Handlers, Run(p) PROVE TypeInv'
  BY <1>7, RunType
<1>8. ASSUME NEW p \in Handlers, Respond(p) \/ CallFails(p) PROVE TypeInv'
  BY <1>8, LeaveType DEF Respond, CallFails, auditVars
<1>9. CASE Pipeline
  <2>1. now' \in {now, now + 1} /\ now' \in 0..MaxTime
    <3>1. now' = now \/ (now < MaxTime /\ now' = now + 1)
      <4>1. AuditWork => now' = now
        BY DEF AuditWork, AuditTake, AuditFind, AuditSave, AuditAnalyze, AuditMark
      <4> QED BY <1>9, <4>1 DEF Pipeline, AuditTick, AuditFails
    <3> QED BY <3>1, NumberAssumption DEF TypeInv
  <2>2. \A p \in Handlers : hs[p].time \in 0..MaxTime
    BY DEF TypeInv, GuardTypeOK, HandlerStates
  <2> QED BY <1>9, <2>1, <2>2, NumberAssumption DEF Pipeline, TypeInv, GuardTypeOK
<1>10. CASE Crash
  <2>1. hs' = [p \in Handlers |-> Idle] /\ UNCHANGED <<now, accounts, lists, tokens>>
    BY <1>10 DEF Crash, AuditCrash
  <2>2. \A p \in Handlers : hs'[p] = Idle
    BY <2>1
  <2>3. Idle.pc = "idle" /\ Idle.time = 0
    BY DEF Idle
  <2>4. hs' \in [Handlers -> HandlerStates]
    BY <2>1, IdleType
  <2> QED BY <2>1, <2>2, <2>3, <2>4, NumberAssumption DEF TypeInv, GuardTypeOK
<1>11. CASE UNCHANGED vars
  BY <1>11 DEF vars, auditVars, TypeInv, GuardTypeOK
<1> QED
  BY <1>1, <1>2, <1>3, <1>4, <1>5, <1>6, <1>7, <1>8, <1>9, <1>10, <1>11 DEF Next, Serve

\* Accounts, lists, tokens and handlers keep their types, and a controller runs
\* only for a request that the guard granted.
THEOREM GuardTypeCorrect == Spec => []GuardTypeOK
<1>1. Spec => []TypeInv
  BY InitType, NextType, PTL DEF Spec
<1> QED BY <1>1, PTL DEF TypeInv

-----------------------------------------------------------------------------
(* Every change of an account has left its entry *)

\* The entry that the guard handed in for a request
EntryOf(h, c) == c.granted /\ c.user = h.user /\ c.perm = h.perm /\ c.time = h.time

\* The strengthening: by the time the controller runs, the entry is there.
RunInv ==
  \A p \in Handlers :
    hs[p].pc = "run" /\ hs[p].perm \notin ReadPermissions =>
      \E c \in recorded : EntryOf(hs[p], c)

LEMMA RecordedGrows == [Next]_vars => recorded \subseteq recorded'
<1> SUFFICES ASSUME [Next]_vars PROVE recorded \subseteq recorded'
  OBVIOUS
<1>1. \A u \in Users : Login(u) \/ ListChanges(u) => recorded' = recorded
  BY DEF Login, ListChanges, auditVars
<1>2. TokenExpires => recorded' = recorded
  BY DEF TokenExpires, auditVars
<1>3. \A p \in Handlers, t \in tokens, perm \in Permissions, env \in Environments :
        Arrive(p, t, perm, env) \/ Ask(p, t, perm, env) => recorded' = recorded
  BY DEF Arrive, Ask, Enter, auditVars
<1>4. \A p \in Handlers : Audit(p) => recorded \subseteq recorded'
  BY DEF Audit, LogPermissionCheck
<1>5. \A p \in Handlers :
        Decide(p) \/ Run(p) \/ Answer(p) \/ Respond(p) \/ CallFails(p) => recorded' = recorded
  BY DEF Decide, Run, Answer, Respond, CallFails, auditVars
<1>6. Pipeline \/ Crash => recorded' = recorded
  BY DEF Pipeline, Crash, AuditCrash, AuditWork, AuditTake, AuditFind, AuditSave,
         AuditAnalyze, AuditMark, AuditTick, AuditFails
<1>7. UNCHANGED vars => recorded' = recorded
  BY DEF vars, auditVars
<1> QED BY <1>1, <1>2, <1>3, <1>4, <1>5, <1>6, <1>7 DEF Next, Serve

\* Only Audit brings a handler to its controller.
LEMMA OnlyAuditRuns ==
  ASSUME TypeInv, [Next]_vars, NEW p \in Handlers, hs'[p].pc = "run"
  PROVE  hs'[p] = hs[p] \/ Audit(p)
<1>1. \A q \in Handlers : hs' = [hs EXCEPT ![q] = Idle] => hs'[p] = hs[p]
  BY DEF TypeInv, GuardTypeOK, Idle
<1>2. ASSUME NEW q \in Handlers, NEW pc \in {"guard", "ask"}, NEW t \in tokens,
             NEW perm \in Permissions, NEW env \in Environments,
             Enter(q, pc, t, perm, env)
      PROVE  hs'[p] = hs[p]
  BY <1>2 DEF Enter, TypeInv, GuardTypeOK, Idle
<1>3. ASSUME NEW q \in Handlers, NEW pc \in {"audit", "answer"}, NEW t \in Nat, Settle(q, pc, t)
      PROVE  hs'[p] = hs[p]
  BY <1>3 DEF Settle, TypeInv, GuardTypeOK, HandlerStates
<1>4. ASSUME NEW q \in Handlers, Audit(q), q # p PROVE hs'[p] = hs[p]
  BY <1>4 DEF Audit, TypeInv, GuardTypeOK
<1>5. \A u \in Users : Login(u) \/ ListChanges(u) => hs' = hs
  BY DEF Login, ListChanges
<1>6. TokenExpires \/ Pipeline \/ UNCHANGED vars => hs' = hs
  BY DEF TokenExpires, Pipeline, vars
<1>7. ~Crash
  BY DEF Crash, Idle
<1>8. \A q \in Handlers : Run(q) \/ Respond(q) \/ CallFails(q) => hs'[p] = hs[p]
  BY <1>1 DEF Run, Respond, CallFails
<1>9. \A q \in Handlers : Decide(q) \/ Answer(q) => hs'[p] = hs[p]
  <2>1. \A q \in Handlers : now \in Nat /\ hs[q].time \in Nat
    BY NumberAssumption DEF TypeInv, GuardTypeOK, HandlerStates
  <2> QED BY <1>3, <2>1 DEF Decide, Answer
<1>10. \A q \in Handlers, t \in tokens, perm \in Permissions, env \in Environments :
         Arrive(q, t, perm, env) \/ Ask(q, t, perm, env) => hs'[p] = hs[p]
  BY <1>2 DEF Arrive, Ask
<1> QED BY <1>4, <1>5, <1>6, <1>7, <1>8, <1>9, <1>10 DEF Next, Serve

LEMMA NextRun == TypeInv /\ RunInv /\ [Next]_vars => RunInv'
<1> SUFFICES ASSUME TypeInv, RunInv, [Next]_vars, NEW p \in Handlers,
                    hs'[p].pc = "run", hs'[p].perm \notin ReadPermissions
             PROVE  \E c \in recorded' : EntryOf(hs'[p], c)
  BY DEF RunInv
<1>1. CASE hs'[p] = hs[p]
  <2>1. \E c \in recorded : EntryOf(hs[p], c)
    BY <1>1 DEF RunInv
  <2> QED BY <1>1, <2>1, RecordedGrows
<1>2. CASE Audit(p)
  <2> DEFINE h == hs[p]
             check == [id |-> Cardinality(recorded) + 1, user |-> h.user, perm |-> h.perm,
                       granted |-> h.granted, time |-> h.time]
  <2>1. h \in HandlerStates
    BY DEF TypeInv, GuardTypeOK
  <2>2. hs'[p] = [h EXCEPT !.pc = "run"] /\ h.granted
    BY <1>2 DEF Audit, TypeInv, GuardTypeOK, Idle
  <2>3. /\ hs'[p].perm = h.perm /\ hs'[p].user = h.user /\ hs'[p].time = h.time
    BY <2>1, <2>2 DEF HandlerStates
  <2>4. recorded' = recorded \cup {check}
    BY <1>2, <2>3 DEF Audit, LogPermissionCheck
  <2>5. EntryOf(hs'[p], check)
    BY <2>2, <2>3 DEF EntryOf
  <2> QED BY <2>4, <2>5
<1> QED BY <1>1, <1>2, OnlyAuditRuns

\* Neither of the permissions that change accounts is a read.
LEMMA ChangesAreNoReads ==
  /\ Permission("users", "update") \notin ReadPermissions
  /\ Permission("users", "delete") \notin ReadPermissions
  BY ReadAssumption DEF Permission

\* Only a controller changes accounts.
LEMMA OnlyRunChanges ==
  ASSUME [Next]_vars, accounts' # accounts
  PROVE  \E p \in Handlers : Run(p)
<1>1. \A u \in Users : ~(Login(u) \/ ListChanges(u))
  BY DEF Login, ListChanges
<1>2. ~(TokenExpires \/ Pipeline \/ Crash \/ UNCHANGED vars)
  BY DEF TokenExpires, Pipeline, Crash, vars
<1>3. \A p \in Handlers :
        ~(Decide(p) \/ Audit(p) \/ Answer(p) \/ Respond(p) \/ CallFails(p))
  BY DEF Decide, Audit, Answer, Respond, CallFails
<1>4. \A p \in Handlers, t \in tokens, perm \in Permissions, env \in Environments :
        ~(Arrive(p, t, perm, env) \/ Ask(p, t, perm, env))
  BY DEF Arrive, Ask, Enter
<1> QED BY <1>1, <1>2, <1>3, <1>4 DEF Next, Serve

\* No account changes without an entry in the audit queue that says who was let
\* through to change it, whatever fails on the way.
THEOREM ChangesAudited == Spec => AccountChangesAudited
<1>1. Init => RunInv
  BY DEF Init, RunInv, Idle
<1>2. Spec => [](TypeInv /\ RunInv)
  BY <1>1, InitType, NextType, NextRun, PTL DEF Spec
<1>3. TypeInv /\ RunInv /\ [Next]_vars => [ChangeAudited]_vars
  <2> SUFFICES ASSUME TypeInv, RunInv, [Next]_vars, accounts' # accounts PROVE ChangeAudited
    BY DEF ChangeAudited
  <2>1. PICK p \in Handlers : Run(p)
    BY OnlyRunChanges
  <2>2. hs[p].perm \in {Permission("users", "update"), Permission("users", "delete")}
    BY <2>1 DEF Run
  <2>3. PICK c \in recorded : EntryOf(hs[p], c)
    BY <2>1, <2>2, ChangesAreNoReads DEF Run, RunInv
  <2>4. hs'[p] = Idle
    BY <2>1 DEF Run, TypeInv, GuardTypeOK
  <2>5. hs[p].pc = "run"
    BY <2>1 DEF Run
  <2> QED BY <2>2, <2>3, <2>4, <2>5 DEF EntryOf, ChangeAudited, LetThrough
<1> QED BY <1>2, <1>3, PTL DEF Spec, AccountChangesAudited

-----------------------------------------------------------------------------
(* The guard uses the audit pipeline as it is meant to be used *)

LEMMA AuditStep == TypeInv /\ [Next]_vars => [AuditNext]_auditVars
<1> SUFFICES ASSUME TypeInv, [Next]_vars PROVE [AuditNext]_auditVars
  OBVIOUS
<1>1. \A u \in Users : Login(u) \/ ListChanges(u) => UNCHANGED auditVars
  BY DEF Login, ListChanges
<1>2. TokenExpires \/ UNCHANGED vars => UNCHANGED auditVars
  BY DEF TokenExpires, vars
<1>3. \A p \in Handlers, t \in tokens, perm \in Permissions, env \in Environments :
        Arrive(p, t, perm, env) \/ Ask(p, t, perm, env) => UNCHANGED auditVars
  BY DEF Arrive, Ask, Enter
<1>4. \A p \in Handlers :
        Decide(p) \/ Run(p) \/ Answer(p) \/ Respond(p) \/ CallFails(p) => UNCHANGED auditVars
  BY DEF Decide, Run, Answer, Respond, CallFails
<1>5. ASSUME NEW p \in Handlers, Audit(p) PROVE HandIn
  <2>1. hs[p].user \in Users /\ hs[p].perm \in Permissions
    BY <1>5 DEF Audit, TypeInv, GuardTypeOK
  <2>2. hs[p].granted \in BOOLEAN /\ hs[p].time \in 0..now
    BY NumberAssumption DEF TypeInv, GuardTypeOK, HandlerStates
  <2>3. /\ Cardinality(recorded) < MaxChecks
        /\ LogPermissionCheck(hs[p].user, hs[p].perm, hs[p].granted, hs[p].time)
        /\ UNCHANGED <<now, auditor, logs, faults>>
    BY <1>5 DEF Audit
  <2> QED BY <2>1, <2>2, <2>3 DEF HandIn
<1>6. Pipeline \/ Crash => AuditNext
  BY DEF Pipeline, Crash, AuditNext
<1> QED BY <1>1, <1>2, <1>3, <1>4, <1>5, <1>6 DEF Next, Serve, AuditNext

\* The composition takes only steps the pipeline takes on its own: a request
\* hands in a check, of no more than its own time, or leaves the pipeline alone.
LEMMA GuardUsesPipeline == Spec => AuditSpec
<1>1. Init => AuditInit
  BY DEF Init
<1>2. Spec => []TypeInv
  BY InitType, NextType, PTL DEF Spec
<1> QED BY <1>1, <1>2, AuditStep, PTL DEF Spec, AuditSpec

\* What the pipeline promises on its own it keeps behind the guard, where the
\* checks come from requests in flight and a crash takes those along: no entry
\* twice, no check lost, no rapid denials unmarked and no mark without the checks
\* that are its cause.
THEOREM GuardedLog ==
  Spec => [](NoDuplicateLogs /\ NoCheckLost /\ RapidDenialsMarked /\ MarkedForCause
               /\ MarkedForDeniedChecks)
  BY GuardUsesPipeline, LogsDistinct, ChecksStay, RapidDenialsAreMarked, MarkedOnlyForCause,
     MarkedOnlyForChecks, PTL

\* Whoever changes an account leaves a trace that is not lost
ChangeTraced ==
  accounts' # accounts /\ faults = 0 =>
    \E c \in recorded : /\ c.granted
                        /\ \E p \in Handlers : LetThrough(c, p)
                        /\ OnItsWay(c)

\* When an account changes and nothing has failed so far, the check that let the
\* request through is at that moment waiting, in the hands of the worker or in
\* the audit log; ChangesAudited and ChecksStay together.
THEOREM ChangesLeaveATrace == Spec => [][ChangeTraced]_vars
<1>1. Spec => []NoCheckLost
  BY GuardedLog, PTL
<1>2. NoCheckLost /\ [ChangeAudited]_vars => [ChangeTraced]_vars
  <2> SUFFICES ASSUME NoCheckLost, ChangeAudited, accounts' # accounts, faults = 0
               PROVE  ChangeTraced
    BY DEF ChangeTraced, vars
  <2>1. PICK c \in recorded : c.granted /\ \E p \in Handlers : LetThrough(c, p)
    BY DEF ChangeAudited
  <2>2. OnItsWay(c)
    BY DEF NoCheckLost, OnItsWay
  <2> QED BY <2>1, <2>2 DEF ChangeTraced
<1> QED BY <1>1, <1>2, ChangesAudited, PTL DEF AccountChangesAudited
=============================================================================
