---------------------------- MODULE RequestGuard ----------------------------
(***************************************************************************)
(* What a request goes through before its controller runs: JwtStrategy,    *)
(* PermissionsGuard with ContextEvaluatorService, and the audit call; and  *)
(* POST /auth/check-permission, which decides the same way for other       *)
(* services.  Composed with AuditPipeline.                                 *)
(*                                                                         *)
(* A token carries claims copied from the account at the login.  A request *)
(* brings a token and an environment: where it comes from, how old the     *)
(* session is, and what its body says of the resource.                     *)
(***************************************************************************)
EXTENDS AuditPipeline, Sequences

CONSTANTS
  Departments,
  Environments,    \* the environments requests may come with
  FirstAccounts,   \* the accounts users start with
  Lists,           \* the permission lists users may hold, wildcards included
  DayAt,           \* the day of the week at each time, Sunday 0
  Handlers         \* HTTP requests in flight

VARIABLES
  accounts,   \* the user documents
  lists,      \* what getUserPermissions answers for a user
  tokens,     \* the tokens issued and not yet expired
  hs          \* the HTTP handlers

vars == <<auditVars, accounts, lists, tokens, hs>>

-----------------------------------------------------------------------------
(* Permissions and rules *)

\* Permission strings, split at the colon
Permission(resource, action) == <<resource, action>>
Star == "*"

ASSUME PermissionPairs == \A perm \in Permissions : Len(perm) = 2
ASSUME ReadAssumption == \A perm \in ReadPermissions : perm[2] = "read"
ASSUME DayAssumption == DayAt \in [0..MaxTime -> 0..6]

\* hasPermission: direct match, resource wildcard, super admin wildcard
Matches(held, perm) ==
  \/ perm \in held
  \/ Permission(perm[1], Star) \in held
  \/ Permission(Star, Star) \in held

Rule(condition) == [condition |-> condition]
Between(start, end) == [condition |-> "BUSINESS_HOURS", start |-> start, end |-> end]

PERMISSION_RULES(perm) ==
  CASE perm = Permission("access", "approve") ->
         <<Rule("MFA_REQUIRED"), Rule("WEEKDAY_ONLY")>>
    [] perm = Permission("access", "revoke") -> <<Rule("MFA_REQUIRED")>>
    [] perm = Permission("users", "delete") ->
         <<Rule("SAME_DEPARTMENT"), Between(9, 18), Rule("MFA_REQUIRED")>>
    [] perm = Permission("users", "update") -> <<Between(9, 18)>>
    [] perm = Permission("invoices", "approve") ->
         <<Rule("MFA_REQUIRED"), Rule("WEEKDAY_ONLY"),
           [condition |-> "MAX_SESSION_AGE", maxMinutes |-> 30]>>
    [] perm = Permission("reports", "export") ->
         <<[condition |-> "TRUSTED_IP", allowed |-> {<<192, 168, 1>>, <<10, 0, 0>>}]>>
    [] OTHER -> <<>>

\* evaluateRule; c is the PermissionContext.  No rule of the table asks for the
\* owner of a resource.  Of an address only the first
\* three numbers count, whatever the prefix length of the range.
Passes(rule, c) ==
  CASE rule.condition = "SAME_DEPARTMENT" ->
         None \notin {c.dept, c.resourceDept} /\ c.dept = c.resourceDept
    [] rule.condition = "BUSINESS_HOURS" -> c.hour >= rule.start /\ c.hour < rule.end
    [] rule.condition = "MFA_REQUIRED" -> c.mfa
    [] rule.condition = "TRUSTED_IP" -> c.ip \in rule.allowed
    [] rule.condition = "MAX_SESSION_AGE" -> c.sessionAge <= rule.maxMinutes
    [] rule.condition = "WEEKDAY_ONLY" -> c.day \in 1..5

\* evaluatePermission: granted if no rule fails
Granted(perm, c) ==
  LET rules == PERMISSION_RULES(perm)
  IN  \A i \in 1..Len(rules) : Passes(rules[i], c)

-----------------------------------------------------------------------------
(* Values *)

Accounts == [active : BOOLEAN, dept : Departments \cup {None}, mfa : BOOLEAN]
ASSUME AccountAssumption == FirstAccounts \subseteq Accounts
Tokens == [user : Users, dept : Departments \cup {None}, mfa : BOOLEAN]

\* What a request carries to the decision, and the PermissionContext made of it
Carried == [dept : Departments \cup {None}, mfa : BOOLEAN, env : Environments]
Context(r, time) ==
  [dept |-> r.dept, mfa |-> r.mfa, resourceDept |-> r.env.resourceDept, ip |-> r.env.ip,
   sessionAge |-> r.env.sessionAge, hour |-> HourAt[time], day |-> DayAt[time]]

HandlerPcs == {"idle", "guard", "audit", "run", "ask", "answer"}
Idle == [pc |-> "idle", user |-> None, perm |-> None, carried |-> None, time |-> 0,
         granted |-> FALSE]
HandlerStates ==
  [pc : HandlerPcs, user : Users \cup {None}, perm : Permissions \cup {None},
   carried : Carried \cup {None}, time : 0..MaxTime, granted : BOOLEAN]

\* Besides the types: a controller runs only for a request that was granted.
GuardTypeOK ==
  /\ accounts \in [Users -> Accounts]
  /\ lists \in [Users -> Lists]
  /\ tokens \subseteq Tokens
  /\ hs \in [Handlers -> HandlerStates]
  /\ \A p \in Handlers : /\ hs[p].pc # "idle" => hs[p].user \in Users /\ hs[p].perm \in Permissions
                         /\ hs[p].pc = "run" => hs[p].granted

Init ==
  /\ AuditInit
  /\ accounts \in [Users -> FirstAccounts]
  /\ lists \in [Users -> Lists]
  /\ tokens = {}
  /\ hs = [p \in Handlers |-> Idle]

-----------------------------------------------------------------------------
(* Sessions *)

\* The claims come from the account as the login read it; that the token is
\* signed later, once bcrypt has compared the passwords, is part of its wait
\* for a first use.
Login(u) ==
  /\ accounts[u].active
  /\ tokens' = tokens \cup {[user |-> u, dept |-> accounts[u].dept, mfa |-> accounts[u].mfa]}
  /\ UNCHANGED <<auditVars, accounts, lists, hs>>

TokenExpires ==
  /\ \E t \in tokens : tokens' = tokens \ {t}
  /\ UNCHANGED <<auditVars, accounts, lists, hs>>

\* JwtStrategy.validate looks the account up, then takes the claims; only a
\* department that is null is read from the account.
Validated(t) == IF t.dept # None THEN t ELSE [t EXCEPT !.dept = accounts[t.user].dept]

Carry(t, env) == [dept |-> t.dept, mfa |-> t.mfa, env |-> env]

Enter(p, pc, t, perm, env) ==
  /\ hs[p].pc = "idle"
  /\ t \in tokens /\ accounts[t.user].active
  /\ hs' = [hs EXCEPT ![p] = [Idle EXCEPT !.pc = pc, !.user = t.user, !.perm = perm,
                                          !.carried = Carry(Validated(t), env),
                                          !.time = now]]
  /\ UNCHANGED <<auditVars, accounts, lists, tokens>>

-----------------------------------------------------------------------------
(* PermissionsGuard; every route names one permission *)

Arrive(p, t, perm, env) == Enter(p, "guard", t, perm, env)

\* hasPermission, then the rules at the time of the context
Decision(p, time) ==
  /\ Matches(lists[hs[p].user], hs[p].perm)
  /\ Granted(hs[p].perm, Context(hs[p].carried, time))
Settle(p, pc, time) ==
  hs' = [hs EXCEPT ![p].pc = pc, ![p].carried = None, ![p].granted = Decision(p, time)]

\* The list is read, the rest follows without an await.  The context is as old
\* as the request.
Decide(p) ==
  /\ hs[p].pc = "guard"
  /\ Settle(p, "audit", hs[p].time)
  /\ UNCHANGED <<auditVars, accounts, lists, tokens>>

\* Faulty variants: what was granted is not handed in; a denial does not end
\* the request.
AuditDenials(p) ==
  LET h == hs[p] IN
  /\ h.pc = "audit"
  /\ IF h.granted THEN UNCHANGED <<recorded, jobs>>
     ELSE /\ Cardinality(recorded) < MaxChecks
          /\ LogPermissionCheck(h.user, h.perm, h.granted, h.time)
  /\ hs' = [hs EXCEPT ![p] = IF h.granted THEN [h EXCEPT !.pc = "run"] ELSE Idle]
  /\ UNCHANGED <<now, auditor, logs, faults, accounts, lists, tokens>>

AuditThenRun(p) ==
  LET h == hs[p] IN
  /\ h.pc = "audit"
  /\ Cardinality(recorded) < MaxChecks
  /\ LogPermissionCheck(h.user, h.perm, h.granted, h.time)
  /\ hs' = [hs EXCEPT ![p].pc = "run"]
  /\ UNCHANGED <<now, auditor, logs, faults, accounts, lists, tokens>>

\* The guard waits for the queue; then a denial answers 403.
Audit(p) ==
  LET h == hs[p] IN
  /\ h.pc = "audit"
  /\ Cardinality(recorded) < MaxChecks
  /\ LogPermissionCheck(h.user, h.perm, h.granted, h.time)
  /\ hs' = [hs EXCEPT ![p] = IF h.granted THEN [h EXCEPT !.pc = "run"] ELSE Idle]
  /\ UNCHANGED <<now, auditor, logs, faults, accounts, lists, tokens>>

\* The controller.  UsersController changes accounts: PATCH sets those fields
\* that its body has, DELETE switches the account off.
Run(p) ==
  /\ hs[p].pc = "run"
  /\ \/ /\ hs[p].perm = Permission("users", "update")
        /\ \E u \in Users, active \in BOOLEAN :
             \E dept \in Departments \cup {accounts[u].dept} :
               accounts' = [accounts EXCEPT ![u].active = active, ![u].dept = dept]
     \/ /\ hs[p].perm = Permission("users", "delete")
        /\ \E u \in Users : accounts' = [accounts EXCEPT ![u].active = FALSE]
     \/ /\ hs[p].perm \notin {Permission("users", "update"), Permission("users", "delete")}
        /\ UNCHANGED accounts
  /\ hs' = [hs EXCEPT ![p] = Idle]
  /\ UNCHANGED <<auditVars, lists, tokens>>

-----------------------------------------------------------------------------
(* POST /auth/check-permission: needs a token, and no permission of its own *)

Ask(p, t, perm, env) == Enter(p, "ask", t, perm, env)

\* The context is built once the list is there.
Answer(p) ==
  /\ hs[p].pc = "ask"
  /\ Settle(p, "answer", now)
  /\ UNCHANGED <<auditVars, accounts, lists, tokens>>

Respond(p) ==
  /\ hs[p].pc = "answer"
  /\ hs' = [hs EXCEPT ![p] = Idle]
  /\ UNCHANGED <<auditVars, accounts, lists, tokens>>

-----------------------------------------------------------------------------
(* The rest of the system *)

\* Roles change, and with them, sooner or later, what the cache answers.
ListChanges(u) ==
  /\ \E list \in Lists : lists' = [lists EXCEPT ![u] = list]
  /\ UNCHANGED <<auditVars, accounts, tokens, hs>>

\* The list cannot be read or the queue not be reached: the request fails.
CallFails(p) ==
  /\ hs[p].pc \in {"guard", "audit", "run", "ask"}
  /\ hs' = [hs EXCEPT ![p] = Idle]
  /\ UNCHANGED <<auditVars, accounts, lists, tokens>>

Crash ==
  /\ AuditCrash
  /\ hs' = [p \in Handlers |-> Idle]
  /\ UNCHANGED <<accounts, lists, tokens>>

Pipeline ==
  /\ AuditWork \/ AuditTick \/ AuditFails
  /\ UNCHANGED <<accounts, lists, tokens, hs>>

Serve(p) == Decide(p) \/ Audit(p) \/ Run(p) \/ Answer(p) \/ Respond(p)

Next ==
  \/ \E u \in Users : Login(u) \/ ListChanges(u)
  \/ TokenExpires
  \/ \E p \in Handlers, t \in tokens, perm \in Permissions, env \in Environments :
       Arrive(p, t, perm, env) \/ Ask(p, t, perm, env)
  \/ \E p \in Handlers : Serve(p) \/ CallFails(p)
  \/ Pipeline
  \/ Crash

Spec == Init /\ [][Next]_vars

-----------------------------------------------------------------------------
(* Properties *)

LetThrough(c, p) ==
  /\ hs[p].pc = "run" /\ hs'[p] = Idle
  /\ hs[p].user = c.user /\ hs[p].perm = c.perm /\ hs[p].time = c.time

ChangeAudited ==
  accounts' # accounts =>
    \E c \in recorded :
      /\ c.granted
      /\ c.perm \in {Permission("users", "update"), Permission("users", "delete")}
      /\ \E p \in Handlers : LetThrough(c, p)

\* No account changes without an entry in the audit queue that says who was
\* let through to change it, whatever fails on the way.
AccountChangesAudited == [][ChangeAudited]_vars
=============================================================================
