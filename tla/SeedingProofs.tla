---------------------------- MODULE SeedingProofs ----------------------------
(***************************************************************************)
(* Bootstrapping, for any lists of permissions and roles, any number of    *)
(* runs, overlaps and failures.                                            *)
(***************************************************************************)
EXTENDS Seeding, TLAPS

-----------------------------------------------------------------------------
(* The lists, and what a move does to a run *)

LEMMA SeqOfElements ==
  ASSUME NEW S, NEW s, s \in Seq(ElementsOf(s)), ElementsOf(s) \subseteq S, s # <<>>
  PROVE  s \in Seq(S) /\ Len(s) \in Nat /\ Len(s) >= 1
<1>1. s \in Seq(S) /\ Len(s) \in Nat OBVIOUS
<1>2. Len(s) # 0 OBVIOUS
<1> QED BY <1>1, <1>2

LEMMA ListTypes ==
  ASSUME NEW g \in Programs
  PROVE  /\ PermsOf(g) \in Seq(Perms) /\ Len(PermsOf(g)) \in Nat /\ Len(PermsOf(g)) >= 1
         /\ RolesOf(g) \in Seq(RoleNames) /\ Len(RolesOf(g)) \in Nat /\ Len(RolesOf(g)) >= 1
<1>1. /\ ServicePerms \in Seq(Perms) /\ Len(ServicePerms) \in Nat /\ Len(ServicePerms) >= 1
  BY ListAssumption, SeqOfElements DEF Perms
<1>2. StandalonePerms \in Seq(Perms) /\ Len(StandalonePerms) \in Nat /\ Len(StandalonePerms) >= 1
  BY ListAssumption, SeqOfElements DEF Perms
<1>3. /\ StandaloneRoles \in Seq(RoleNames)
      /\ Len(StandaloneRoles) \in Nat /\ Len(StandaloneRoles) >= 1
  BY ListAssumption, SeqOfElements DEF RoleNames
<1>4. <<CreatedPerm>> \in Seq(Perms) /\ Len(<<CreatedPerm>>) = 1
  BY DEF Perms
<1>5. <<SuperAdmin>> \in Seq(RoleNames) /\ Len(<<SuperAdmin>>) = 1
  BY DEF RoleNames
<1>6. PermsOf(g) \in {ServicePerms, StandalonePerms, <<CreatedPerm>>}
  BY DEF PermsOf
<1>7. RolesOf(g) \in {StandaloneRoles, <<SuperAdmin>>}
  BY DEF RolesOf
<1>8. /\ PermsOf(g) \in Seq(Perms) /\ Len(PermsOf(g)) \in Nat /\ Len(PermsOf(g)) >= 1
  <2>1. CASE PermsOf(g) = ServicePerms BY <2>1, <1>1
  <2>2. CASE PermsOf(g) = StandalonePerms BY <2>2, <1>2
  <2>3. CASE PermsOf(g) = <<CreatedPerm>> BY <2>3, <1>4
  <2> QED BY <1>6, <2>1, <2>2, <2>3
<1>9. RolesOf(g) \in Seq(RoleNames) /\ Len(RolesOf(g)) \in Nat /\ Len(RolesOf(g)) >= 1
  <2>1. CASE RolesOf(g) = StandaloneRoles BY <2>1, <1>3
  <2>2. CASE RolesOf(g) = <<SuperAdmin>> BY <2>2, <1>5
  <2> QED BY <1>7, <2>1, <2>2
<1> QED BY <1>8, <1>9

LEMMA MovedFacts ==
  ASSUME NEW r \in RunStates, NEW pc \in Pcs
  PROVE  /\ Moved(r, pc) \in RunStates
         /\ Moved(r, pc).pc = pc /\ Moved(r, pc).program = r.program
         /\ pc \notin Ended =>
              /\ Moved(r, pc).perm = r.perm /\ Moved(r, pc).role = r.role
              /\ Moved(r, pc).seen = r.seen /\ Moved(r, pc).builds = r.builds
         /\ pc = "failed" => Moved(r, pc).perm = r.perm
         /\ pc \in Ended => Moved(r, pc).builds = {}
<1> DEFINE m == [r EXCEPT !.pc = pc]
<1>1. /\ m \in RunStates /\ m.pc = pc /\ m.program = r.program
      /\ m.perm = r.perm /\ m.role = r.role /\ m.seen = r.seen /\ m.builds = r.builds
  BY DEF RunStates
<1>2. /\ Over(m) \in RunStates /\ Over(m).pc = pc /\ Over(m).program = r.program
      /\ Over(m).builds = {}
      /\ (pc = "failed" => Over(m).perm = r.perm)
  BY <1>1 DEF Over, RunStates, RoleStates
<1>3. Moved(r, pc) = IF pc \in Ended THEN Over(m) ELSE m
  BY DEF Moved
<1> HIDE DEF m
<1> QED BY <1>1, <1>2, <1>3

-----------------------------------------------------------------------------
(* Type correctness *)

Listing == {"new", "drop", "find", "insert"}
InBounds(r) ==
  /\ r.pc \in Listing => r.perm \in 1..Len(PermsOf(r.program))
  /\ r.pc \in Listing \cup {"role", "saveRole"} => r.role \in 1..Len(RolesOf(r.program))

RunsOK == rs \in [Runs -> RunStates] /\ \A p \in Runs : InBounds(rs[p])

DataOK ==
  /\ catalogue \subseteq Documents /\ indexes \subseteq Indexes
  /\ roles \in [RoleNames -> RoleStates] /\ admin \in Runs \cup {None} /\ links \subseteq Runs
  /\ indexed \in BOOLEAN /\ overlapped \in BOOLEAN /\ faults \in 0..MaxFaults

LEMMA TypeParts == (TypeOK <=> DataOK /\ RunsOK) /\ (TypeOK' <=> DataOK' /\ RunsOK')
  BY DEF TypeOK, DataOK, RunsOK, InBounds, InLists, PermList, RoleList, Listing

LEMMA MoveOK ==
  ASSUME RunsOK, NEW p \in Runs, NEW s \in RunStates, InBounds(s), rs' = [rs EXCEPT ![p] = s]
  PROVE  RunsOK'
<1>1. rs' \in [Runs -> RunStates] BY DEF RunsOK
<1>2. \A q \in Runs : rs'[q] = IF q = p THEN s ELSE rs[q] BY DEF RunsOK
<1>3. \A q \in Runs : InBounds(rs'[q]) BY <1>2 DEF RunsOK
<1> QED BY <1>1, <1>3 DEF RunsOK, InBounds

LEMMA GoOK ==
  ASSUME RunsOK, NEW p \in Runs, NEW pc \in Pcs \ {"role", "saveRole"},
         pc \in Listing => rs[p].pc \in Listing, Go(p, pc)
  PROVE  RunsOK'
<1>1. rs[p] \in RunStates /\ InBounds(rs[p]) BY DEF RunsOK
<1>2. rs' = [rs EXCEPT ![p] = Moved(rs[p], pc)] BY DEF Go
<1>3. /\ Moved(rs[p], pc) \in RunStates
      /\ Moved(rs[p], pc).pc = pc /\ Moved(rs[p], pc).program = rs[p].program
      /\ pc \in Listing => /\ Moved(rs[p], pc).perm = rs[p].perm
                           /\ Moved(rs[p], pc).role = rs[p].role
  BY <1>1, MovedFacts DEF Listing, Ended
<1>4. InBounds(Moved(rs[p], pc)) BY <1>1, <1>3 DEF InBounds
<1> QED BY <1>2, <1>3, <1>4, MoveOK

LEMMA NextPermOK ==
  ASSUME RunsOK, NEW p \in Runs, rs[p].pc \in {"find", "insert"}, NextPerm(p)
  PROVE  RunsOK'
<1> DEFINE r == [rs[p] EXCEPT !.perm = @ + 1]
           pc == AfterPerm(p)
<1>1. rs[p] \in RunStates /\ InBounds(rs[p]) BY DEF RunsOK
<1>2. rs' = [rs EXCEPT ![p] = Moved(r, pc)] BY DEF NextPerm
<1>3. /\ r \in RunStates /\ r.perm = rs[p].perm + 1
      /\ r.role = rs[p].role /\ r.program = rs[p].program
  BY <1>1 DEF RunStates
<1>4. pc \in {"find", "done", "role"} /\ pc \in Pcs BY DEF AfterPerm, Pcs, Ended
<1>5. pc = "find" => rs[p].perm < Len(PermsOf(rs[p].program)) BY DEF AfterPerm, PermList
<1> HIDE DEF r, pc
<1>6. /\ Moved(r, pc) \in RunStates
      /\ Moved(r, pc).pc = pc /\ Moved(r, pc).program = rs[p].program
      /\ pc # "done" => Moved(r, pc).perm = rs[p].perm + 1 /\ Moved(r, pc).role = rs[p].role
  BY <1>3, <1>4, MovedFacts DEF Ended
<1>7. rs[p].program \in Programs /\ rs[p].perm \in Nat
  BY <1>1 DEF RunStates
<1>8. InBounds(Moved(r, pc))
  BY <1>1, <1>4, <1>5, <1>6, <1>7, ListTypes DEF InBounds, Listing
<1> QED BY <1>2, <1>6, <1>8, MoveOK

LEMMA NextRoleOK ==
  ASSUME RunsOK, NEW p \in Runs, rs[p].pc \in {"role", "saveRole"}, NextRole(p)
  PROVE  RunsOK'
<1> DEFINE s == [rs[p] EXCEPT !.role = @ + 1, !.pc = AfterRole(p)]
<1>1. rs[p] \in RunStates /\ InBounds(rs[p]) BY DEF RunsOK
<1>2. rs' = [rs EXCEPT ![p] = s] BY DEF NextRole
<1>3. /\ AfterRole(p) \in {"role", "admin"} /\ AfterRole(p) \in Pcs
      /\ AfterRole(p) = "role" => rs[p].role < Len(RolesOf(rs[p].program))
  BY DEF AfterRole, RoleList, Pcs
<1>4. /\ s \in RunStates /\ s.role = rs[p].role + 1 /\ s.program = rs[p].program
      /\ s.pc = AfterRole(p)
  <2>1. rs[p].role + 1 \in Nat BY <1>1 DEF RunStates
  <2>2. AfterRole(p) \in Pcs BY <1>3
  <2> HIDE DEF AfterRole
  <2> QED BY <1>1, <2>1, <2>2 DEF RunStates
<1> HIDE DEF s
<1>5. rs[p].program \in Programs /\ rs[p].role \in Nat
  BY <1>1 DEF RunStates
<1>6. InBounds(s)
  BY <1>1, <1>3, <1>4, <1>5, ListTypes DEF InBounds, Listing
<1> QED BY <1>2, <1>4, <1>6, MoveOK

LEMMA PermInList ==
  ASSUME RunsOK, NEW p \in Runs, rs[p].pc \in Listing
  PROVE  Perm(p) \in Perms
<1>1. rs[p].program \in Programs /\ rs[p].perm \in 1..Len(PermsOf(rs[p].program))
  BY DEF RunsOK, RunStates, InBounds
<1> QED BY <1>1, ListTypes DEF Perm, PermList

LEMMA RoleInList ==
  ASSUME RunsOK, NEW p \in Runs, rs[p].pc \in {"role", "saveRole"}
  PROVE  Role(p) \in RoleNames
<1>1. rs[p].program \in Programs /\ rs[p].role \in 1..Len(RolesOf(rs[p].program))
  BY DEF RunsOK, RunStates, InBounds
<1> QED BY <1>1, ListTypes DEF Role, RoleList

LEMMA TypeInit == Init => TypeOK
<1> SUFFICES ASSUME Init PROVE TypeOK
  OBVIOUS
<1>1. PICK program \in [Runs -> Programs] :
        rs = [p \in Runs |-> [program |-> program[p], pc |-> "new", perm |-> 1, role |-> 1,
                              seen |-> "absent", builds |-> {}]]
  BY DEF Init
<1>2. RunsOK
  <2> SUFFICES ASSUME NEW p \in Runs PROVE rs[p] \in RunStates /\ InBounds(rs[p])
    BY <1>1 DEF RunsOK
  <2>1. rs[p] = [program |-> program[p], pc |-> "new", perm |-> 1, role |-> 1,
                 seen |-> "absent", builds |-> {}]
    BY <1>1
  <2>2. program[p] \in Programs OBVIOUS
  <2>3. rs[p] \in RunStates BY <2>1, <2>2 DEF RunStates, Pcs, RoleStates
  <2>4. InBounds(rs[p]) BY <2>1, <2>2, ListTypes DEF InBounds
  <2> QED BY <2>3, <2>4
<1>3. indexed \in BOOLEAN /\ overlapped \in BOOLEAN
  BY Zenon DEF Init
<1>4. DataOK
  BY <1>3, MaxFaultsAssumption DEF Init, DataOK
<1> QED BY <1>2, <1>4, TypeParts

LEMMA StartOK ==
  ASSUME RunsOK, NEW p \in Runs, Start(p)
  PROVE  RunsOK'
<1>1. rs[p] \in RunStates /\ InBounds(rs[p]) /\ rs[p].pc = "new"
  BY DEF RunsOK, Start
<1> DEFINE s == [rs[p] EXCEPT !.pc = IF Standalone(p) THEN "drop" ELSE "find",
                              !.builds = IF Standalone(p) THEN {"pair"} ELSE {"name", "link"}]
<1>2. rs' = [rs EXCEPT ![p] = s] BY DEF Start, RunsOK
<1>3. /\ s \in RunStates /\ s.perm = rs[p].perm /\ s.role = rs[p].role
      /\ s.program = rs[p].program /\ s.pc \in {"drop", "find"}
  BY <1>1 DEF RunStates, Pcs, Indexes
<1> HIDE DEF s
<1>4. InBounds(s) BY <1>1, <1>3 DEF InBounds, Listing
<1> QED BY <1>2, <1>3, <1>4, MoveOK

LEMMA BuildOK ==
  ASSUME RunsOK, NEW p \in Runs, NEW i \in Indexes, Build(p, i)
  PROVE  RunsOK'
<1> DEFINE s == [rs[p] EXCEPT !.builds = @ \ {i}]
<1>1. rs[p] \in RunStates /\ InBounds(rs[p]) BY DEF RunsOK
<1>2. rs' = [rs EXCEPT ![p] = s] BY DEF Build, RunsOK
<1>3. /\ s \in RunStates /\ s.perm = rs[p].perm /\ s.role = rs[p].role
      /\ s.program = rs[p].program /\ s.pc = rs[p].pc
  BY <1>1 DEF RunStates
<1> HIDE DEF s
<1>4. InBounds(s) BY <1>1, <1>3 DEF InBounds
<1> QED BY <1>2, <1>3, <1>4, MoveOK

LEMMA StepOK ==
  ASSUME RunsOK, roles \in [RoleNames -> RoleStates], NEW p \in Runs, Step(p)
  PROVE  RunsOK'
<1> USE DEF Pcs, Listing, Ended
<1>1. CASE DropName(p) BY <1>1, GoOK DEF DropName
<1>2. CASE FindPerm(p) BY <1>2, GoOK, NextPermOK DEF FindPerm
<1>3. CASE InsertPerm(p)
  <2>1. CASE NextPerm(p) BY <1>3, <2>1, NextPermOK DEF InsertPerm
  <2>2. CASE \E i \in Refusing(p) : Go(p, IF i = "name" /\ Upserts(p) THEN "find" ELSE "failed")
    <3>1. Go(p, "find") \/ Go(p, "failed") BY <2>2
    <3> QED BY <1>3, <3>1, GoOK DEF InsertPerm
  <2> QED BY <1>3, <2>1, <2>2 DEF InsertPerm
<1>4. CASE FindRole(p)
  <2>1. CASE NextRole(p) BY <1>4, <2>1, NextRoleOK DEF FindRole
  <2>2. CASE rs' = [rs EXCEPT ![p].pc = "saveRole", ![p].seen = roles[Role(p)]]
    <3> DEFINE s == [rs[p] EXCEPT !.pc = "saveRole", !.seen = roles[Role(p)]]
    <3>1. rs[p] \in RunStates /\ InBounds(rs[p]) /\ rs[p].pc = "role"
      BY <1>4 DEF RunsOK, FindRole
    <3>2. roles[Role(p)] \in RoleStates BY <3>1, RoleInList
    <3>3. rs' = [rs EXCEPT ![p] = s] BY <2>2 DEF RunsOK
    <3>4. /\ s \in RunStates /\ s.role = rs[p].role /\ s.program = rs[p].program
          /\ s.pc = "saveRole"
      BY <3>1, <3>2 DEF RunStates
    <3> HIDE DEF s
    <3>5. InBounds(s) BY <3>1, <3>4 DEF InBounds
    <3> QED BY <3>3, <3>4, <3>5, MoveOK
  <2> QED BY <1>4, <2>1, <2>2 DEF FindRole
<1>5. CASE SaveRole(p) BY <1>5, GoOK, NextRoleOK DEF SaveRole
<1>6. CASE FindAdmin(p)
  <2>1. Go(p, "createAdmin") \/ Go(p, "link") BY <1>6 DEF FindAdmin
  <2> QED BY <2>1, GoOK
<1>7. CASE CreateAdmin(p) BY <1>7, GoOK DEF CreateAdmin
<1>8. CASE FindLink(p)
  <2>1. Go(p, "createLink") \/ Go(p, "done") BY <1>8 DEF FindLink
  <2> QED BY <2>1, GoOK
<1>9. CASE CreateLink(p)
  <2>1. Go(p, "failed") \/ Go(p, "done") \/ Go(p, "index") BY <1>9 DEF CreateLink
  <2> QED BY <2>1, GoOK
<1>10. CASE AddToIndex(p) BY <1>10, GoOK DEF AddToIndex
<1> QED BY <1>1, <1>2, <1>3, <1>4, <1>5, <1>6, <1>7, <1>8, <1>9, <1>10 DEF Step

LEMMA DataStep ==
  ASSUME DataOK, RunsOK, [Next]_vars
  PROVE  DataOK'
<1> USE DEF DataOK
<1>1. ASSUME NEW p \in Runs, Start(p) PROVE DataOK'
  <2>1. overlapped' \in BOOLEAN BY <1>1, Zenon DEF Start
  <2> QED BY <1>1, <2>1 DEF Start
<1>2. ASSUME NEW p \in Runs, NEW i \in Indexes, Build(p, i) PROVE DataOK'
  BY <1>2 DEF Build
<1>3. ASSUME NEW p \in Runs, Crash(p) PROVE DataOK'
  BY <1>3, MaxFaultsAssumption DEF Crash
<1>4. ASSUME NEW p \in Runs, InsertPerm(p) PROVE DataOK'
  <2>1. Perm(p) \in Perms BY <1>4, PermInList DEF InsertPerm, Listing
  <2>2. NewDocument(p) \in Documents BY <2>1 DEF NewDocument, Documents
  <2> QED BY <1>4, <2>2 DEF InsertPerm
<1>5. ASSUME NEW p \in Runs, SaveRole(p) PROVE DataOK'
  <2>1. Role(p) \in RoleNames BY <1>5, RoleInList DEF SaveRole
  <2>2. roles' \in [RoleNames -> RoleStates] BY <1>5, <2>1 DEF SaveRole, RoleStates
  <2> QED BY <1>5, <2>2 DEF SaveRole
<1>6. ASSUME NEW p \in Runs,
             DropName(p) \/ FindPerm(p) \/ FindRole(p) \/ FindAdmin(p) \/ CreateAdmin(p)
               \/ FindLink(p) \/ CreateLink(p) \/ AddToIndex(p)
      PROVE  DataOK'
  BY <1>6 DEF DropName, FindPerm, FindRole, FindAdmin, CreateAdmin, FindLink, CreateLink, AddToIndex
<1>7. CASE UNCHANGED vars BY <1>7 DEF vars
<1> QED BY <1>1, <1>2, <1>3, <1>4, <1>5, <1>6, <1>7 DEF Next, Step

LEMMA RunsStep ==
  ASSUME DataOK, RunsOK, [Next]_vars
  PROVE  RunsOK'
<1>1. ASSUME NEW p \in Runs, Crash(p) PROVE RunsOK'
  BY <1>1, GoOK DEF Crash, Pcs, Ended, Listing
<1>2. CASE UNCHANGED vars BY <1>2 DEF vars, RunsOK, InBounds
<1> QED BY <1>1, <1>2, StartOK, BuildOK, StepOK DEF Next, DataOK

\* The catalogue, the roles, the account, the assignment and the runs are
\* well-typed, and no run reads past the end of its lists.
THEOREM SeedingTyped == Spec => []TypeOK
<1>1. TypeOK /\ [Next]_vars => TypeOK'
  BY TypeParts, DataStep, RunsStep
<1> QED BY <1>1, TypeInit, PTL DEF Spec

-----------------------------------------------------------------------------
(* What a script has left behind at each point, in a database with the      *)
(* permissions c, the roles o, the account a and the assignments l          *)

Scripts == {"seed", "standalone"}
AfterPerms == {"role", "saveRole", "admin", "createAdmin", "link", "createLink", "index"}
AfterRoles == {"admin", "createAdmin", "link", "createLink", "index"}

Has(g, x, c) == \E d \in c : d.perm = x /\ (g = "standalone" \/ d.named)
PermsUpTo(g, n, c) == \A i \in 1..Len(PermsOf(g)) : i < n => Has(g, PermsOf(g)[i], c)
RolesUpTo(g, n, o) == \A i \in 1..Len(RolesOf(g)) : i < n => o[RolesOf(g)[i]] = "complete"

Progress(r, c, o, a, l) ==
  LET g == r.program IN
  g \in Scripts =>
    /\ r.pc \notin Ended => PermsUpTo(g, r.perm, c) /\ RolesUpTo(g, r.role, o)
    /\ r.pc \in AfterPerms => r.perm > Len(PermsOf(g))
    /\ r.pc \in AfterRoles => r.role > Len(RolesOf(g))
    /\ r.pc \in {"link", "createLink", "index"} => a # None
    /\ r.pc = "index" => l # {}
    /\ r.pc = "done" => /\ PermsUpTo(g, Len(PermsOf(g)) + 1, c)
                        /\ RolesUpTo(g, Len(RolesOf(g)) + 1, o)
                        /\ a # None /\ l # {}

ProgressInv == \A p \in Runs : Progress(rs[p], catalogue, roles, admin, links)

LEMMA ProgressGrows ==
  ASSUME NEW r \in RunStates, NEW c, NEW c2, c \subseteq c2, NEW o, NEW o2,
         \A n \in RoleNames : o[n] = "complete" => o2[n] = "complete",
         NEW a, NEW a2, a # None => a2 # None, NEW l, NEW l2, l \subseteq l2,
         Progress(r, c, o, a, l)
  PROVE  Progress(r, c2, o2, a2, l2)
<1>1. r.program \in Programs BY DEF RunStates
<1>2. \A n \in Nat : PermsUpTo(r.program, n, c) => PermsUpTo(r.program, n, c2)
  BY DEF PermsUpTo, Has
<1>3. \A i \in 1..Len(RolesOf(r.program)) : RolesOf(r.program)[i] \in RoleNames
  BY <1>1, ListTypes
<1>4. \A n \in Nat : RolesUpTo(r.program, n, o) => RolesUpTo(r.program, n, o2)
  BY <1>3 DEF RolesUpTo
<1>5. Len(PermsOf(r.program)) + 1 \in Nat /\ Len(RolesOf(r.program)) + 1 \in Nat
  BY <1>1, ListTypes
<1>6. r.perm \in Nat /\ r.role \in Nat BY DEF RunStates
<1> QED BY <1>2, <1>4, <1>5, <1>6 DEF Progress

LEMMA DatabaseGrows ==
  ASSUME DataOK, RunsOK, [Next]_vars
  PROVE  /\ catalogue \subseteq catalogue' /\ links \subseteq links'
         /\ \A n \in RoleNames : roles[n] = "complete" => roles'[n] = "complete"
         /\ admin # None => admin' # None
<1>1. catalogue \subseteq catalogue'
  BY DEF Next, vars, Start, Build, Crash, Step, DropName, FindPerm, InsertPerm, FindRole,
         SaveRole, FindAdmin, CreateAdmin, FindLink, CreateLink, AddToIndex
<1>2. links \subseteq links'
  BY DEF Next, vars, Start, Build, Crash, Step, DropName, FindPerm, InsertPerm, FindRole,
         SaveRole, FindAdmin, CreateAdmin, FindLink, CreateLink, AddToIndex
<1>3. admin' = admin \/ \E p \in Runs : admin' = p
  BY DEF Next, vars, Start, Build, Crash, Step, DropName, FindPerm, InsertPerm, FindRole,
         SaveRole, FindAdmin, CreateAdmin, FindLink, CreateLink, AddToIndex
<1>4. roles' = roles \/ \E p \in Runs : roles' = [roles EXCEPT ![Role(p)] = "complete"]
  BY DEF Next, vars, Start, Build, Crash, Step, DropName, FindPerm, InsertPerm, FindRole,
         SaveRole, FindAdmin, CreateAdmin, FindLink, CreateLink, AddToIndex
<1>5. \A n \in RoleNames : roles[n] = "complete" => roles'[n] = "complete"
  BY <1>4 DEF DataOK
<1> QED BY <1>1, <1>2, <1>3, <1>5, NoneAssumption

\* The runs that do not move stay where they are, in a database that grows.
LEMMA OthersProgress ==
  ASSUME DataOK, RunsOK, ProgressInv, [Next]_vars, NEW q \in Runs, rs'[q] = rs[q]
  PROVE  Progress(rs'[q], catalogue', roles', admin', links')
<1>1. rs[q] \in RunStates /\ Progress(rs[q], catalogue, roles, admin, links)
  BY DEF RunsOK, ProgressInv
<1> QED BY <1>1, DatabaseGrows, ProgressGrows

\* Moves that only turn to the next call
LEMMA GoProgress ==
  ASSUME DataOK, RunsOK, ProgressInv, [Next]_vars, NEW p \in Runs, NEW pc \in Pcs, Go(p, pc),
         rs[p].pc \notin Ended, pc # "done",
         pc \in AfterPerms => rs[p].pc \in AfterPerms,
         pc \in AfterRoles => rs[p].pc \in AfterRoles,
         rs[p].program \in Scripts /\ pc \in {"link", "createLink", "index"} => admin' # None,
         pc = "index" => links' # {}
  PROVE  Progress(rs'[p], catalogue', roles', admin', links')
<1>1. rs[p] \in RunStates BY DEF RunsOK
<1>2. Progress(rs[p], catalogue', roles', admin', links')
  <2>1. Progress(rs[p], catalogue, roles, admin, links) BY DEF ProgressInv
  <2> QED BY <1>1, <2>1, DatabaseGrows, ProgressGrows
<1>3. rs'[p] = Moved(rs[p], pc) BY DEF Go, RunsOK
<1>4. /\ rs'[p].pc = pc /\ rs'[p].program = rs[p].program
      /\ pc \notin Ended => rs'[p].perm = rs[p].perm /\ rs'[p].role = rs[p].role
  BY <1>1, <1>3, MovedFacts
<1> QED BY <1>2, <1>4 DEF Progress, Ended, AfterPerms, AfterRoles

\* The last move of a script
LEMMA DoneProgress ==
  ASSUME DataOK, RunsOK, ProgressInv, [Next]_vars, NEW p \in Runs, Go(p, "done"),
         rs[p].pc \in {"link", "createLink", "index"}, links' # {}
  PROVE  Progress(rs'[p], catalogue', roles', admin', links')
<1>1. rs[p] \in RunStates BY DEF RunsOK
<1>2. Progress(rs[p], catalogue', roles', admin', links')
  <2>1. Progress(rs[p], catalogue, roles, admin, links) BY DEF ProgressInv
  <2> QED BY <1>1, <2>1, DatabaseGrows, ProgressGrows
<1>3. rs'[p] = Moved(rs[p], "done") BY DEF Go, RunsOK
<1>4. rs'[p].pc = "done" /\ rs'[p].program = rs[p].program
  BY <1>1, <1>3, MovedFacts DEF Pcs, Ended
<1>5. CASE rs[p].program \in Scripts
  <2>1. /\ PermsUpTo(rs[p].program, rs[p].perm, catalogue') /\ RolesUpTo(rs[p].program, rs[p].role, roles')
        /\ rs[p].perm > Len(PermsOf(rs[p].program)) /\ rs[p].role > Len(RolesOf(rs[p].program))
        /\ admin' # None
    BY <1>2, <1>5 DEF Progress, Ended, AfterPerms, AfterRoles
  <2>2. /\ PermsUpTo(rs[p].program, Len(PermsOf(rs[p].program)) + 1, catalogue')
        /\ RolesUpTo(rs[p].program, Len(RolesOf(rs[p].program)) + 1, roles')
    <3>1. rs[p].program \in Programs /\ rs[p].perm \in Nat /\ rs[p].role \in Nat
      BY <1>1 DEF RunStates
    <3> QED BY <2>1, <3>1, ListTypes DEF PermsUpTo, RolesUpTo
  <2> QED BY <1>4, <2>1, <2>2 DEF Progress, Ended, AfterPerms, AfterRoles
<1>6. CASE rs[p].program \notin Scripts BY <1>4, <1>6 DEF Progress
<1> QED BY <1>5, <1>6

\* Past a permission that is there, and past a role that is complete
LEMMA NextPermProgress ==
  ASSUME DataOK, RunsOK, ProgressInv, [Next]_vars, NEW p \in Runs,
         rs[p].pc \in {"find", "insert"}, NextPerm(p),
         rs[p].program \in Scripts => Has(rs[p].program, Perm(p), catalogue')
  PROVE  Progress(rs'[p], catalogue', roles', admin', links')
<1> DEFINE r == [rs[p] EXCEPT !.perm = @ + 1]
           g == rs[p].program
<1>1. rs[p] \in RunStates /\ InBounds(rs[p]) BY DEF RunsOK
<1>2. Progress(rs[p], catalogue', roles', admin', links')
  <2>1. Progress(rs[p], catalogue, roles, admin, links) BY DEF ProgressInv
  <2> QED BY <1>1, <2>1, DatabaseGrows, ProgressGrows
<1>3. rs'[p] = Moved(r, AfterPerm(p)) BY DEF NextPerm, RunsOK
<1>4. /\ r \in RunStates /\ r.perm = rs[p].perm + 1 /\ r.role = rs[p].role /\ r.program = g
  BY <1>1 DEF RunStates
<1>5. CASE g \notin Scripts
  <2>1. AfterPerm(p) \in Pcs BY DEF AfterPerm, Pcs, Ended
  <2> HIDE DEF r
  <2>2. rs'[p].program = g BY <1>3, <1>4, <2>1, MovedFacts
  <2> QED BY <1>5, <2>2 DEF Progress
<1>6. CASE g \in Scripts
  <2>1. AfterPerm(p) = IF rs[p].perm < Len(PermsOf(g)) THEN "find" ELSE "role"
    BY <1>6 DEF AfterPerm, PermList, Scripts
  <2> HIDE DEF r, g
  <2>2. /\ rs'[p].pc = AfterPerm(p) /\ rs'[p].program = g
        /\ rs'[p].perm = rs[p].perm + 1 /\ rs'[p].role = rs[p].role
    BY <1>3, <1>4, <2>1, MovedFacts DEF Pcs, Ended
  <2>3. /\ g \in Programs /\ rs[p].perm \in 1..Len(PermsOf(g)) /\ Len(PermsOf(g)) \in Nat
        /\ g = rs[p].program
    BY <1>1, ListTypes DEF RunStates, InBounds, Listing, g
  <2>4. PermsUpTo(g, rs[p].perm, catalogue') /\ RolesUpTo(g, rs[p].role, roles')
    BY <1>2, <1>6, <2>3 DEF Progress, Ended
  <2>5. Has(g, PermsOf(g)[rs[p].perm], catalogue')
    BY <1>6, <2>3 DEF Perm, PermList
  <2>6. PermsUpTo(g, rs[p].perm + 1, catalogue')
    BY <2>3, <2>4, <2>5 DEF PermsUpTo
  <2>7. CASE rs[p].perm < Len(PermsOf(g))
    BY <2>1, <2>2, <2>4, <2>6, <2>7 DEF Progress, Ended, AfterPerms, AfterRoles
  <2>8. CASE rs[p].perm = Len(PermsOf(g))
    <3>1. rs'[p].pc = "role" BY <2>1, <2>2, <2>3, <2>8
    <3>2. rs'[p].perm > Len(PermsOf(g)) BY <2>2, <2>3, <2>8
    <3> QED BY <2>2, <2>4, <2>6, <3>1, <3>2 DEF Progress, Ended, AfterPerms, AfterRoles
  <2> QED BY <2>3, <2>7, <2>8
<1> QED BY <1>5, <1>6

LEMMA NextRoleProgress ==
  ASSUME DataOK, RunsOK, ProgressInv, [Next]_vars, NEW p \in Runs,
         rs[p].pc \in {"role", "saveRole"}, NextRole(p), roles'[Role(p)] = "complete"
  PROVE  Progress(rs'[p], catalogue', roles', admin', links')
<1> DEFINE g == rs[p].program
<1>1. rs[p] \in RunStates /\ InBounds(rs[p]) BY DEF RunsOK
<1>2. Progress(rs[p], catalogue', roles', admin', links')
  <2>1. Progress(rs[p], catalogue, roles, admin, links) BY DEF ProgressInv
  <2> QED BY <1>1, <2>1, DatabaseGrows, ProgressGrows
<1>3. /\ rs'[p].pc = AfterRole(p) /\ rs'[p].program = g
      /\ rs'[p].perm = rs[p].perm /\ rs'[p].role = rs[p].role + 1
  <2>1. rs'[p] = [rs[p] EXCEPT !.role = @ + 1, !.pc = AfterRole(p)]
    BY DEF NextRole, RunsOK
  <2> HIDE DEF AfterRole
  <2> QED BY <1>1, <2>1 DEF RunStates
<1>4. AfterRole(p) = IF rs[p].role < Len(RolesOf(g)) THEN "role" ELSE "admin"
  BY DEF AfterRole, RoleList
<1>5. CASE g \notin Scripts BY <1>3, <1>5 DEF Progress
<1>6. CASE g \in Scripts
  <2>1. /\ g \in Programs /\ rs[p].role \in 1..Len(RolesOf(g)) /\ Len(RolesOf(g)) \in Nat
    BY <1>1, ListTypes DEF RunStates, InBounds
  <2>2. /\ PermsUpTo(g, rs[p].perm, catalogue') /\ RolesUpTo(g, rs[p].role, roles')
        /\ rs[p].perm > Len(PermsOf(g))
    BY <1>2, <1>6 DEF Progress, Ended, AfterPerms
  <2>3. RolesUpTo(g, rs[p].role + 1, roles')
    BY <2>1, <2>2 DEF RolesUpTo, Role, RoleList
  <2> HIDE DEF g
  <2>4. CASE rs[p].role < Len(RolesOf(g))
    BY <1>3, <1>4, <2>2, <2>3, <2>4 DEF Progress, Ended, AfterPerms, AfterRoles
  <2>5. CASE rs[p].role = Len(RolesOf(g))
    <3>1. rs'[p].pc = "admin" BY <1>3, <1>4, <2>1, <2>5
    <3>2. rs'[p].role > Len(RolesOf(g)) BY <1>3, <2>1, <2>5
    <3> QED BY <1>3, <2>2, <2>3, <3>1, <3>2 DEF Progress, Ended, AfterPerms, AfterRoles
  <2> QED BY <2>1, <2>4, <2>5
<1> QED BY <1>5, <1>6

LEMMA AccountThere ==
  ASSUME DataOK, RunsOK, ProgressInv, [Next]_vars, NEW p \in Runs,
         rs[p].pc \in {"link", "createLink", "index"}, rs[p].program \in Scripts
  PROVE  admin' # None
<1>1. admin # None BY DEF ProgressInv, Progress
<1> QED BY <1>1, DatabaseGrows

\* One step of a run
LEMMA StepProgress ==
  ASSUME DataOK, RunsOK, ProgressInv, [Next]_vars, NEW p \in Runs, Step(p)
  PROVE  Progress(rs'[p], catalogue', roles', admin', links')
<1> USE DEF Pcs, Ended, AfterPerms, AfterRoles
<1>0. rs[p] \in RunStates /\ rs[p].program \in Programs BY DEF RunsOK, RunStates
<1>1. CASE DropName(p) BY <1>1, GoProgress DEF DropName
<1>2. CASE FindPerm(p)
  <2>1. CASE NextPerm(p) /\ Found(p) # {}
    <3>1. rs[p].program \in Scripts => Has(rs[p].program, Perm(p), catalogue')
      BY <1>2, <2>1 DEF FindPerm, Found, OfPerm, Named, Has, Standalone, Scripts
    <3> QED BY <1>2, <2>1, <3>1, NextPermProgress DEF FindPerm
  <2>2. CASE Go(p, "insert") BY <1>2, <2>2, GoProgress DEF FindPerm
  <2>3. CASE Go(p, "failed") BY <1>2, <2>3, GoProgress DEF FindPerm
  <2> QED BY <1>2, <2>1, <2>2, <2>3 DEF FindPerm
<1>3. CASE InsertPerm(p)
  <2>1. CASE NextPerm(p) /\ catalogue' = catalogue \cup {NewDocument(p)}
    <3>1. NewDocument(p) \in catalogue' BY <2>1
    <3>2. NewDocument(p).perm = Perm(p) /\ (Standalone(p) \/ NewDocument(p).named)
      BY DEF NewDocument
    <3>3. Has(rs[p].program, Perm(p), catalogue')
      BY <3>1, <3>2 DEF Has, Standalone
    <3> QED BY <1>3, <2>1, <3>3, NextPermProgress DEF InsertPerm
  <2>2. CASE \E i \in Refusing(p) : Go(p, IF i = "name" /\ Upserts(p) THEN "find" ELSE "failed")
    <3>1. Go(p, "find") \/ Go(p, "failed") BY <2>2
    <3> QED BY <1>3, <3>1, GoProgress DEF InsertPerm
  <2> QED BY <1>3, <2>1, <2>2 DEF InsertPerm
<1>4. CASE FindRole(p)
  <2>1. CASE NextRole(p) /\ roles[Role(p)] = "complete"
    BY <1>4, <2>1, NextRoleProgress DEF FindRole
  <2>2. CASE rs' = [rs EXCEPT ![p].pc = "saveRole", ![p].seen = roles[Role(p)]]
    <3>1. /\ rs'[p].pc = "saveRole" /\ rs'[p].program = rs[p].program
          /\ rs'[p].perm = rs[p].perm /\ rs'[p].role = rs[p].role /\ rs[p].pc = "role"
      BY <1>0, <1>4, <2>2 DEF RunsOK, RunStates, FindRole
    <3>2. Progress(rs[p], catalogue', roles', admin', links')
      <4>1. Progress(rs[p], catalogue, roles, admin, links) BY DEF ProgressInv
      <4> QED BY <1>0, <4>1, DatabaseGrows, ProgressGrows
    <3> QED BY <3>1, <3>2 DEF Progress
  <2> QED BY <1>4, <2>1, <2>2 DEF FindRole
<1>5. CASE SaveRole(p)
  <2>1. CASE roles' = [roles EXCEPT ![Role(p)] = "complete"] /\ NextRole(p)
    <3>1. Role(p) \in RoleNames BY <1>5, RoleInList DEF SaveRole
    <3>2. roles'[Role(p)] = "complete" BY <2>1, <3>1 DEF DataOK
    <3> QED BY <1>5, <2>1, <3>2, NextRoleProgress DEF SaveRole
  <2>2. CASE Go(p, "failed") BY <1>5, <2>2, GoProgress DEF SaveRole
  <2> QED BY <1>5, <2>1, <2>2 DEF SaveRole
<1>6. CASE FindAdmin(p)
  <2>1. CASE Go(p, "createAdmin") BY <1>6, <2>1, GoProgress DEF FindAdmin
  <2>2. CASE Go(p, "link") /\ admin # None
    <3>1. admin' # None BY <2>2, DatabaseGrows
    <3> QED BY <1>6, <2>2, <3>1, GoProgress DEF FindAdmin
  <2> QED BY <1>6, <2>1, <2>2 DEF FindAdmin
<1>7. CASE CreateAdmin(p)
  <2>1. CASE Go(p, "failed") BY <1>7, <2>1, GoProgress DEF CreateAdmin
  <2>2. CASE Go(p, "link") /\ admin' = p
    <3>1. admin' # None BY <2>2, NoneAssumption
    <3> QED BY <1>7, <2>2, <3>1, GoProgress DEF CreateAdmin
  <2> QED BY <1>7, <2>1, <2>2 DEF CreateAdmin
<1>8. CASE FindLink(p)
  <2>1. CASE Go(p, "createLink")
    BY <1>8, <2>1, AccountThere, GoProgress DEF FindLink
  <2>2. CASE Go(p, "done") /\ links # {}
    BY <1>8, <2>2, DoneProgress DEF FindLink
  <2> QED BY <1>8, <2>1, <2>2 DEF FindLink
<1>9. CASE CreateLink(p)
  <2>1. CASE Go(p, "failed") BY <1>9, <2>1, GoProgress DEF CreateLink
  <2>2. CASE Go(p, "done") /\ links' = links \cup {p}
    BY <1>9, <2>2, DoneProgress DEF CreateLink
  <2>3. CASE Go(p, "index") /\ links' = links \cup {p}
    BY <1>9, <2>3, AccountThere, GoProgress DEF CreateLink
  <2> QED BY <1>9, <2>1, <2>2, <2>3 DEF CreateLink
<1>10. CASE AddToIndex(p)
  <2>1. CASE links' # {} BY <1>10, <2>1, DoneProgress DEF AddToIndex
  <2>2. CASE rs[p].program \notin Scripts
    <3>1. rs'[p] = Moved(rs[p], "done") BY <1>10 DEF AddToIndex, Go, RunsOK
    <3>2. rs'[p].program = rs[p].program BY <1>0, <3>1, MovedFacts
    <3> QED BY <2>2, <3>2 DEF Progress
  <2>3. rs[p].program \in Scripts => links' # {}
    <3>1. rs[p].program \in Scripts => links # {}
      BY <1>10 DEF AddToIndex, ProgressInv, Progress
    <3> QED BY <3>1, DatabaseGrows
  <2> QED BY <2>1, <2>2, <2>3
<1> QED BY <1>1, <1>2, <1>3, <1>4, <1>5, <1>6, <1>7, <1>8, <1>9, <1>10 DEF Step

\* Every step moves one run.
LEMMA OneRun ==
  ASSUME NEW p \in Runs, RunsOK,
         Start(p) \/ Step(p) \/ Crash(p) \/ \E i \in Indexes : Build(p, i)
  PROVE  \A q \in Runs : q # p => rs'[q] = rs[q]
<1> USE DEF RunsOK, Go
<1>1. CASE Start(p) BY <1>1 DEF Start
<1>2. CASE Crash(p) BY <1>2 DEF Crash
<1>3. CASE \E i \in Indexes : Build(p, i) BY <1>3 DEF Build
<1>4. CASE Step(p)
  <2>1. CASE DropName(p) BY <2>1 DEF DropName
  <2>2. CASE FindPerm(p) BY <2>2 DEF FindPerm, NextPerm
  <2>3. CASE InsertPerm(p)
    <3>1. CASE NextPerm(p) BY <3>1 DEF NextPerm
    <3>2. CASE \E i \in Refusing(p) : Go(p, IF i = "name" /\ Upserts(p) THEN "find" ELSE "failed")
      BY <3>2
    <3> QED BY <2>3, <3>1, <3>2 DEF InsertPerm
  <2>4. CASE FindRole(p) BY <2>4 DEF FindRole, NextRole
  <2>5. CASE SaveRole(p) BY <2>5 DEF SaveRole, NextRole
  <2>6. CASE FindAdmin(p) BY <2>6 DEF FindAdmin
  <2>7. CASE CreateAdmin(p) BY <2>7 DEF CreateAdmin
  <2>8. CASE FindLink(p) BY <2>8 DEF FindLink
  <2>9. CASE CreateLink(p) BY <2>9 DEF CreateLink
  <2>10. CASE AddToIndex(p) BY <2>10 DEF AddToIndex
  <2> QED BY <1>4, <2>1, <2>2, <2>3, <2>4, <2>5, <2>6, <2>7, <2>8, <2>9, <2>10 DEF Step
<1> QED BY <1>1, <1>2, <1>3, <1>4

LEMMA ProgressStep ==
  ASSUME DataOK, RunsOK, ProgressInv, [Next]_vars
  PROVE  ProgressInv'
<1>1. CASE UNCHANGED vars BY <1>1 DEF vars, ProgressInv
<1>2. CASE Next
  <2>1. PICK p \in Runs : Start(p) \/ Step(p) \/ Crash(p) \/ \E i \in Indexes : Build(p, i)
    BY <1>2 DEF Next
  <2>2. \A q \in Runs : q # p => Progress(rs'[q], catalogue', roles', admin', links')
    BY <2>1, OneRun, OthersProgress
  <2>3. rs[p] \in RunStates /\ Progress(rs[p], catalogue', roles', admin', links')
    <3>1. Progress(rs[p], catalogue, roles, admin, links) /\ rs[p] \in RunStates
      BY DEF ProgressInv, RunsOK
    <3> QED BY <3>1, DatabaseGrows, ProgressGrows
  <2>4. Progress(rs'[p], catalogue', roles', admin', links')
    <3>1. CASE Start(p)
      <4>1. /\ rs'[p].pc \in {"drop", "find"} /\ rs'[p].program = rs[p].program
            /\ rs'[p].perm = rs[p].perm /\ rs'[p].role = rs[p].role /\ rs[p].pc = "new"
        BY <2>3, <3>1 DEF Start, RunsOK, RunStates
      <4> QED BY <2>3, <4>1 DEF Progress, Ended, AfterPerms, AfterRoles
    <3>2. CASE Step(p) BY <3>2, StepProgress
    <3>3. CASE Crash(p) BY <3>3, GoProgress DEF Crash, Active, Pcs, Ended, AfterPerms, AfterRoles
    <3>4. CASE \E i \in Indexes : Build(p, i)
      <4>1. /\ rs'[p].pc = rs[p].pc /\ rs'[p].program = rs[p].program
            /\ rs'[p].perm = rs[p].perm /\ rs'[p].role = rs[p].role
        BY <2>3, <3>4 DEF Build, RunsOK, RunStates
      <4> QED BY <2>3, <4>1 DEF Progress
    <3> QED BY <2>1, <3>1, <3>2, <3>3, <3>4
  <2> QED BY <2>2, <2>4 DEF ProgressInv
<1> QED BY <1>1, <1>2

LEMMA ProgressInit == Init => ProgressInv
<1> SUFFICES ASSUME Init, NEW p \in Runs
             PROVE  Progress(rs[p], catalogue, roles, admin, links)
  BY DEF ProgressInv
<1>1. rs[p].pc = "new" /\ rs[p].perm = 1 /\ rs[p].role = 1
  BY DEF Init
<1> QED BY <1>1 DEF Progress, Ended, AfterPerms, AfterRoles, PermsUpTo, RolesUpTo

LEMMA ProgressSeeded == TypeOK /\ ProgressInv => DoneMeansSeeded
<1> SUFFICES ASSUME TypeOK, ProgressInv, NEW p \in Runs,
                    rs[p].pc = "done", rs[p].program \in {"seed", "standalone"}
             PROVE  /\ \A x \in ElementsOf(PermList(p)) : \E d \in OfPerm(x) : Standalone(p) \/ d.named
                    /\ \A r \in ElementsOf(RoleList(p)) : roles[r] = "complete"
                    /\ admin # None /\ links # {}
  BY DEF DoneMeansSeeded
<1> DEFINE g == rs[p].program
<1>1. /\ PermsUpTo(g, Len(PermsOf(g)) + 1, catalogue) /\ RolesUpTo(g, Len(RolesOf(g)) + 1, roles)
      /\ admin # None /\ links # {}
  BY DEF ProgressInv, Progress, Scripts, Ended
<1>2. g \in Programs BY DEF Programs
<1>3. \A x \in ElementsOf(PermsOf(g)) : Has(g, x, catalogue)
  BY <1>1, <1>2, ListTypes DEF PermsUpTo, ElementsOf
<1>4. \A x \in ElementsOf(RolesOf(g)) : roles[x] = "complete"
  BY <1>1, <1>2, ListTypes DEF RolesUpTo, ElementsOf
<1> QED BY <1>1, <1>3, <1>4 DEF Has, OfPerm, Standalone, PermList, RoleList

\* A script that says "Seed complete" has seeded everything it lists, whatever
\* runs overlapped with it and wherever earlier ones were killed (seed.ts).
THEOREM CompleteMeansSeeded == Spec => []DoneMeansSeeded
<1>1. Init => ProgressInv BY ProgressInit
<1>2. TypeOK /\ ProgressInv /\ [Next]_vars => ProgressInv'
  BY TypeParts, ProgressStep
<1> QED BY <1>1, <1>2, SeedingTyped, ProgressSeeded, PTL DEF Spec

-----------------------------------------------------------------------------
(* Runs that do not overlap: nothing changes between a find and the create  *)
(* that follows it.                                                         *)

Cause(p) ==
  /\ ~Standalone(p)
  /\ \E d \in OfPerm(Perm(p)) : ~d.named \/ rs[p].program = "create"

CallInv(p) ==
  /\ rs[p].pc = "insert" => Found(p) = {}
  /\ rs[p].pc = "saveRole" => roles[Role(p)] = rs[p].seen
  /\ rs[p].pc = "createAdmin" => admin = None
  /\ rs[p].pc = "createLink" => links = {}
  /\ Standalone(p) => /\ rs[p].builds \subseteq {"pair"}
                      /\ Active(p) /\ rs[p].pc # "drop" => "name" \notin indexes
  /\ rs[p].pc = "failed" => Cause(p)

Twins ==
  \A d, e \in catalogue : d # e /\ d.perm = e.perm =>
    d.named # e.named /\ "pair" \notin indexes

SerialInv ==
  ~overlapped =>
    /\ \A p, q \in Runs : Active(p) /\ Active(q) => p = q
    /\ \A p \in Runs : CallInv(p)
    /\ Twins
    /\ \A p, q \in links : p = q

LEMMA IdleCalls ==
  ASSUME NEW q \in Runs, rs'[q] = rs[q], ~Active(q), CallInv(q), catalogue \subseteq catalogue'
  PROVE  CallInv(q)'
<1>1. rs[q].pc \in {"new"} \cup Ended BY DEF Active
<1>2. rs[q].pc = "failed" => Cause(q)'
  BY DEF CallInv, Cause, OfPerm, Perm, PermList, Standalone
<1>3. Standalone(q)' => rs'[q].builds \subseteq {"pair"}
  BY DEF CallInv, Standalone
<1> QED BY <1>1, <1>2, <1>3 DEF CallInv, Active, Ended

\* What is at stake for the run that moves
LEMMA StartCalls ==
  ASSUME RunsOK, NEW p \in Runs, Start(p), CallInv(p)
  PROVE  CallInv(p)' /\ UNCHANGED <<catalogue, indexes, links>>
<1>1. /\ rs'[p].pc = IF Standalone(p) THEN "drop" ELSE "find"
      /\ rs'[p].builds = IF Standalone(p) THEN {"pair"} ELSE {"name", "link"}
      /\ rs'[p].program = rs[p].program
  BY DEF Start, RunsOK, RunStates
<1>2. Standalone(p)' <=> Standalone(p)
  BY <1>1 DEF Standalone
<1>3. CASE Standalone(p)
  <2>1. rs'[p].pc = "drop" /\ rs'[p].builds \subseteq {"pair"} BY <1>1, <1>3
  <2>2. UNCHANGED <<catalogue, indexes, links>> BY DEF Start
  <2> QED BY <2>1, <2>2 DEF CallInv
<1>4. CASE ~Standalone(p)
  BY <1>1, <1>2, <1>4 DEF CallInv, Start
<1> QED BY <1>3, <1>4

LEMMA BuildCalls ==
  ASSUME DataOK, RunsOK, NEW p \in Runs, NEW i \in Indexes, Build(p, i), CallInv(p), Twins
  PROVE  CallInv(p)' /\ Twins'
<1>1. /\ rs'[p].pc = rs[p].pc /\ rs'[p].program = rs[p].program /\ rs'[p].seen = rs[p].seen
      /\ rs'[p].perm = rs[p].perm /\ rs'[p].role = rs[p].role
      /\ rs'[p].builds \subseteq rs[p].builds
  BY DEF Build, RunsOK, RunStates
<1>2. Standalone(p) => "name" \notin indexes' \/ "name" \in indexes
  BY DEF Build, CallInv
<1>3. CallInv(p)'
  BY <1>1, <1>2 DEF Build, CallInv, Found, OfPerm, Named, Perm, PermList, Role, RoleList,
                    Standalone, Active, Cause
<1>4. Twins'
  <2>1. "pair" \in indexes' /\ "pair" \notin indexes =>
          \A d, e \in catalogue : d.perm = e.perm => d = e
    BY DEF Build, Buildable
  <2> QED BY <2>1 DEF Twins, Build
<1> QED BY <1>3, <1>4

\* A move to a point without a condition
LEMMA GoCalls ==
  ASSUME RunsOK, NEW p \in Runs, CallInv(p), NEW pc \in Pcs, Go(p, pc), UNCHANGED indexes,
         pc \notin {"insert", "saveRole", "createAdmin", "createLink", "failed"},
         Active(p), rs[p].pc # "drop"
  PROVE  CallInv(p)'
<1>1. rs[p] \in RunStates /\ rs'[p] = Moved(rs[p], pc)
  BY DEF RunsOK, Go
<1>2. /\ rs'[p].pc = pc /\ rs'[p].program = rs[p].program
      /\ rs'[p].builds \subseteq rs[p].builds
  BY <1>1, MovedFacts
<1> QED BY <1>2 DEF CallInv, Standalone, Active

LEMMA NextPermCalls ==
  ASSUME RunsOK, NEW p \in Runs, CallInv(p), NextPerm(p), UNCHANGED indexes,
         rs[p].pc \in {"find", "insert"}
  PROVE  CallInv(p)'
<1> DEFINE r == [rs[p] EXCEPT !.perm = @ + 1]
<1>1. /\ rs[p] \in RunStates /\ rs'[p] = Moved(r, AfterPerm(p))
      /\ AfterPerm(p) \in {"find", "done", "role"} /\ AfterPerm(p) \in Pcs
  BY DEF RunsOK, NextPerm, AfterPerm, Pcs, Ended
<1>2. r \in RunStates /\ r.program = rs[p].program /\ r.builds = rs[p].builds
  BY <1>1 DEF RunStates
<1> HIDE DEF r
<1>3. /\ rs'[p].pc = AfterPerm(p) /\ rs'[p].program = rs[p].program
      /\ rs'[p].builds \subseteq rs[p].builds
  BY <1>1, <1>2, MovedFacts
<1> QED BY <1>1, <1>3 DEF CallInv, Standalone, Active, Ended

LEMMA NextRoleCalls ==
  ASSUME RunsOK, NEW p \in Runs, CallInv(p), NextRole(p), UNCHANGED indexes,
         rs[p].pc \in {"role", "saveRole"}
  PROVE  CallInv(p)'
<1>1. rs'[p] = [rs[p] EXCEPT !.role = @ + 1, !.pc = AfterRole(p)] /\ rs[p] \in RunStates
  BY DEF NextRole, RunsOK
<1>2. rs'[p].pc = AfterRole(p) /\ rs'[p].program = rs[p].program /\ rs'[p].builds = rs[p].builds
  <2> HIDE DEF AfterRole
  <2> QED BY <1>1 DEF RunStates
<1> QED BY <1>2 DEF CallInv, Standalone, Active, AfterRole, Ended

\* The calls of a run that is alone
LEMMA StepCalls ==
  ASSUME DataOK, RunsOK, NEW p \in Runs, Step(p), CallInv(p), Twins,
         \A q \in links, l \in links : q = l
  PROVE  CallInv(p)' /\ Twins' /\ \A q, l \in links' : q = l
<1> USE DEF Pcs, Ended
<1>0. rs[p] \in RunStates BY DEF RunsOK
<1>1. CASE DropName(p)
  <2>1. rs'[p] = Moved(rs[p], "find") BY <1>1 DEF DropName, Go, RunsOK
  <2>2. /\ rs'[p].pc = "find" /\ rs'[p].program = rs[p].program
        /\ rs'[p].builds = rs[p].builds
    BY <1>0, <2>1, MovedFacts
  <2> QED BY <1>1, <2>2 DEF DropName, CallInv, Standalone, Twins
<1>2. CASE FindPerm(p)
  <2>0. UNCHANGED <<catalogue, indexes, links>> /\ Active(p) /\ rs[p].pc = "find"
    BY <1>2 DEF FindPerm, Active
  <2>1. CASE NextPerm(p)
    BY <2>0, <2>1, NextPermCalls DEF Twins
  <2>2. CASE Go(p, "insert") /\ Found(p) = {}
    <3>1. rs'[p] = Moved(rs[p], "insert") BY <2>2 DEF Go, RunsOK
    <3>2. /\ rs'[p].pc = "insert" /\ rs'[p].program = rs[p].program
          /\ rs'[p].builds = rs[p].builds /\ rs'[p].perm = rs[p].perm
      BY <1>0, <3>1, MovedFacts
    <3>3. Found(p)' = Found(p)
      BY <2>0, <3>2 DEF Found, OfPerm, Named, Standalone, Perm, PermList
    <3> QED BY <2>0, <2>2, <3>2, <3>3 DEF CallInv, Standalone, Twins, Active
  <2>3. CASE Go(p, "failed") /\ Found(p) # {} /\ rs[p].program = "create"
    <3>1. rs'[p] = Moved(rs[p], "failed") BY <2>3 DEF Go, RunsOK
    <3>2. /\ rs'[p].pc = "failed" /\ rs'[p].program = rs[p].program
          /\ rs'[p].builds = {} /\ rs'[p].perm = rs[p].perm
      BY <1>0, <3>1, MovedFacts
    <3>3. Cause(p)'
      BY <2>0, <2>3, <3>2 DEF Found, OfPerm, Standalone, Perm, PermList, Cause
    <3> QED BY <2>0, <2>3, <3>2, <3>3 DEF CallInv, Standalone, Twins, Active
  <2> QED BY <1>2, <2>1, <2>2, <2>3 DEF FindPerm
<1>3. CASE InsertPerm(p)
  <2>0. /\ UNCHANGED <<indexes, links>> /\ Active(p) /\ rs[p].pc = "insert" /\ Found(p) = {}
        /\ Perm(p) \in Perms
    BY <1>3, PermInList DEF InsertPerm, Active, CallInv, Listing
  <2>1. CASE Refusing(p) = {} /\ catalogue' = catalogue \cup {NewDocument(p)} /\ NextPerm(p)
    <3>1. CallInv(p)' BY <2>0, <2>1, NextPermCalls
    <3>2. NewDocument(p).perm = Perm(p) /\ NewDocument(p).named = ~Standalone(p)
      BY DEF NewDocument
    <3>3. ASSUME NEW d \in catalogue, d.perm = Perm(p)
          PROVE  ~Standalone(p) /\ ~d.named /\ "pair" \notin indexes
      <4>1. d \in OfPerm(Perm(p)) BY <3>3 DEF OfPerm
      <4>2. ~Standalone(p) /\ ~d.named
        BY <2>0, <4>1 DEF Found, Named, OfPerm
      <4>3. "pair" \notin indexes
        BY <2>1, <3>2, <4>1 DEF Refusing
      <4> QED BY <4>2, <4>3
    <3>4. \A d \in catalogue : d.named \in BOOLEAN
      BY DEF DataOK, Documents
    <3>5. Twins'
      <4> SUFFICES ASSUME NEW d \in catalogue', NEW e \in catalogue', d # e, d.perm = e.perm
                   PROVE  d.named # e.named /\ "pair" \notin indexes'
        BY DEF Twins
      <4>1. CASE d \in catalogue /\ e \in catalogue
        BY <2>0, <4>1 DEF Twins
      <4>2. CASE d = NewDocument(p) /\ e \in catalogue
        <5>1. ~Standalone(p) /\ ~e.named /\ "pair" \notin indexes BY <4>2, <3>2, <3>3
        <5> QED BY <2>0, <4>2, <3>2, <5>1
      <4>3. CASE e = NewDocument(p) /\ d \in catalogue
        <5>1. ~Standalone(p) /\ ~d.named /\ "pair" \notin indexes BY <4>3, <3>2, <3>3
        <5> QED BY <2>0, <4>3, <3>2, <5>1
      <4> QED BY <2>1, <4>1, <4>2, <4>3
    <3> QED BY <2>0, <3>1, <3>5
  <2>2. CASE /\ \E i \in Refusing(p) :
                  Go(p, IF i = "name" /\ Upserts(p) THEN "find" ELSE "failed")
             /\ UNCHANGED catalogue
    <3>1. PICK i \in Refusing(p) : Go(p, IF i = "name" /\ Upserts(p) THEN "find" ELSE "failed")
      BY <2>2
    <3>2. i = "name" \/ i = "pair" BY DEF Refusing
    <3>3. ~Standalone(p)
      <4>1. Standalone(p) => i # "name"
        BY <2>0, <3>1 DEF CallInv, Refusing
      <4>2. Standalone(p) => i # "pair"
        BY <2>0, <3>1 DEF Refusing, NewDocument, Found
      <4> QED BY <3>2, <4>1, <4>2
    <3>4. i # "name"
      <4> SUFFICES ASSUME i = "name" PROVE FALSE
        OBVIOUS
      <4>1. PICK d \in catalogue : NameOf(d) = NameOf(NewDocument(p))
        BY <3>1 DEF Refusing
      <4>2. NameOf(NewDocument(p)) = Perm(p) /\ Perm(p) # None
        BY <2>0, <3>3, NoneAssumption DEF NameOf, NewDocument
      <4>3. d.named /\ d.perm = Perm(p)
        BY <4>1, <4>2 DEF NameOf
      <4> QED BY <2>0, <3>3, <4>3 DEF Found, OfPerm, Named
    <3>5. Go(p, "failed") /\ OfPerm(Perm(p)) # {}
      BY <3>1, <3>2, <3>4 DEF Refusing, NewDocument
    <3>6. PICK d \in OfPerm(Perm(p)) : ~d.named
      BY <2>0, <3>3, <3>5 DEF Found, Named, OfPerm
    <3>7. rs'[p] = Moved(rs[p], "failed") BY <3>5 DEF Go, RunsOK
    <3>8. /\ rs'[p].pc = "failed" /\ rs'[p].program = rs[p].program
          /\ rs'[p].builds = {} /\ rs'[p].perm = rs[p].perm
      BY <1>0, <3>7, MovedFacts
    <3>9. Cause(p)'
      BY <2>2, <3>3, <3>6, <3>8 DEF OfPerm, Standalone, Perm, PermList, Cause
    <3> QED BY <2>0, <2>2, <3>3, <3>8, <3>9 DEF CallInv, Standalone, Twins, Active
  <2> QED BY <1>3, <2>1, <2>2 DEF InsertPerm
<1>4. CASE FindRole(p)
  <2>0. UNCHANGED <<catalogue, indexes, links, roles>> /\ Active(p) /\ rs[p].pc = "role"
    BY <1>4 DEF FindRole, Active
  <2>1. CASE NextRole(p)
    BY <2>0, <2>1, NextRoleCalls DEF Twins
  <2>2. CASE rs' = [rs EXCEPT ![p].pc = "saveRole", ![p].seen = roles[Role(p)]]
    <3>1. /\ rs'[p].pc = "saveRole" /\ rs'[p].program = rs[p].program
          /\ rs'[p].builds = rs[p].builds /\ rs'[p].role = rs[p].role
          /\ rs'[p].seen = roles[Role(p)]
      BY <1>0, <2>2 DEF RunsOK, RunStates
    <3>2. Role(p)' = Role(p)
      BY <3>1 DEF Role, RoleList
    <3> QED BY <2>0, <3>1, <3>2 DEF CallInv, Standalone, Twins, Active
  <2> QED BY <1>4, <2>1, <2>2 DEF FindRole
<1>5. CASE SaveRole(p)
  <2>0. UNCHANGED <<catalogue, indexes, links>> /\ Active(p) /\ rs[p].pc = "saveRole"
    BY <1>5 DEF SaveRole, Active
  <2>1. NextRole(p)
    BY <1>5, <2>0 DEF SaveRole, CallInv
  <2> QED BY <2>0, <2>1, NextRoleCalls DEF Twins
<1>6. CASE FindAdmin(p)
  <2>0. UNCHANGED <<catalogue, indexes, links, admin>> /\ Active(p) /\ rs[p].pc = "admin"
    BY <1>6 DEF FindAdmin, Active
  <2>1. CASE Go(p, "createAdmin") /\ admin = None
    <3>1. rs'[p] = Moved(rs[p], "createAdmin") BY <2>1 DEF Go, RunsOK
    <3>2. /\ rs'[p].pc = "createAdmin" /\ rs'[p].program = rs[p].program
          /\ rs'[p].builds = rs[p].builds
      BY <1>0, <3>1, MovedFacts
    <3> QED BY <2>0, <2>1, <3>2 DEF CallInv, Standalone, Twins, Active
  <2>2. CASE Go(p, "link") BY <2>0, <2>2, GoCalls DEF Twins
  <2> QED BY <1>6, <2>1, <2>2 DEF FindAdmin
<1>7. CASE CreateAdmin(p)
  <2>0. UNCHANGED <<catalogue, indexes, links>> /\ Active(p) /\ rs[p].pc = "createAdmin"
    BY <1>7 DEF CreateAdmin, Active
  <2>1. Go(p, "link")
    BY <1>7, <2>0 DEF CreateAdmin, CallInv
  <2> QED BY <2>0, <2>1, GoCalls DEF Twins
<1>8. CASE FindLink(p)
  <2>0. UNCHANGED <<catalogue, indexes, links>> /\ Active(p) /\ rs[p].pc = "link"
    BY <1>8 DEF FindLink, Active
  <2>1. CASE Go(p, "createLink") /\ links = {}
    <3>1. rs'[p] = Moved(rs[p], "createLink") BY <2>1 DEF Go, RunsOK
    <3>2. /\ rs'[p].pc = "createLink" /\ rs'[p].program = rs[p].program
          /\ rs'[p].builds = rs[p].builds
      BY <1>0, <3>1, MovedFacts
    <3> QED BY <2>0, <2>1, <3>2 DEF CallInv, Standalone, Twins, Active
  <2>2. CASE Go(p, "done") BY <2>0, <2>2, GoCalls DEF Twins
  <2> QED BY <1>8, <2>1, <2>2 DEF FindLink
<1>9. CASE CreateLink(p)
  <2>0. /\ UNCHANGED <<catalogue, indexes>> /\ Active(p) /\ rs[p].pc = "createLink"
        /\ links = {}
    BY <1>9 DEF CreateLink, Active, CallInv
  <2>1. links' = {p} /\ (Go(p, "done") \/ Go(p, "index"))
    BY <1>9, <2>0 DEF CreateLink
  <2> QED BY <2>0, <2>1, GoCalls DEF Twins
<1>10. CASE AddToIndex(p)
  <2>0. UNCHANGED <<catalogue, indexes, links>> /\ Active(p) /\ rs[p].pc = "index"
    BY <1>10 DEF AddToIndex, Active
  <2> QED BY <1>10, <2>0, GoCalls DEF AddToIndex, Twins
<1> QED BY <1>1, <1>2, <1>3, <1>4, <1>5, <1>6, <1>7, <1>8, <1>9, <1>10 DEF Step

LEMMA SerialStep ==
  ASSUME DataOK, RunsOK, SerialInv, [Next]_vars
  PROVE  SerialInv'
<1> SUFFICES ASSUME ~overlapped' PROVE SerialInv'
  BY DEF SerialInv
<1>1. CASE UNCHANGED vars
  BY <1>1 DEF vars, SerialInv, CallInv, Twins, Active, Found, OfPerm, Named, Role, RoleList,
              Perm, PermList, Standalone, Cause
<1>2. CASE Next
  <2>1. PICK p \in Runs : Start(p) \/ Step(p) \/ Crash(p) \/ \E i \in Indexes : Build(p, i)
    BY <1>2 DEF Next
  <2>2. ~overlapped
    BY <2>1 DEF Start, Step, Crash, Build, DropName, FindPerm, InsertPerm, FindRole, SaveRole,
                FindAdmin, CreateAdmin, FindLink, CreateLink, AddToIndex
  <2>3. CallInv(p) /\ Twins /\ \A q, l \in links : q = l
    BY <2>2 DEF SerialInv
  <2>4. \A q \in Runs : q # p => ~Active(q)
    <3>1. CASE Start(p)
      <4>1. ~ \E q \in Runs : Active(q) BY <3>1, Zenon DEF Start
      <4> QED BY <4>1
    <3>2. CASE Step(p) \/ Crash(p) \/ \E i \in Indexes : Build(p, i)
      <4>1. Active(p)
        BY <3>2 DEF Active, Ended, Step, Crash, Build, DropName, FindPerm, InsertPerm, FindRole,
                    SaveRole, FindAdmin, CreateAdmin, FindLink, CreateLink, AddToIndex
      <4> QED BY <2>2, <4>1 DEF SerialInv
    <3> QED BY <2>1, <3>1, <3>2
  <2>5. \A q \in Runs : q # p => rs'[q] = rs[q]
    BY <2>1, OneRun
  <2>6. \A q \in Runs : q # p => CallInv(q)'
    <3> SUFFICES ASSUME NEW q \in Runs, q # p PROVE CallInv(q)'
      OBVIOUS
    <3>1. CallInv(q) BY <2>2 DEF SerialInv
    <3> QED BY <2>4, <2>5, <3>1, IdleCalls, DatabaseGrows
  <2>7. \A q \in Runs : q # p => ~Active(q)'
    BY <2>4, <2>5 DEF Active
  <2>8. CallInv(p)' /\ Twins' /\ \A q, l \in links' : q = l
    <3>1. CASE Start(p) BY <2>3, <3>1, StartCalls DEF Twins
    <3>2. CASE Step(p) BY <2>3, <3>2, StepCalls
    <3>3. CASE Crash(p)
      <4>1. rs[p] \in RunStates /\ rs'[p] = Moved(rs[p], "crashed")
        BY <3>3 DEF Crash, Go, RunsOK
      <4>2. rs'[p].pc = "crashed" /\ rs'[p].builds = {} /\ rs'[p].program = rs[p].program
        BY <4>1, MovedFacts DEF Pcs, Ended
      <4> QED BY <2>3, <3>3, <4>2 DEF Crash, CallInv, Active, Ended, Twins
    <3>4. CASE \E i \in Indexes : Build(p, i)
      <4>1. PICK i \in Indexes : Build(p, i) BY <3>4
      <4>2. UNCHANGED links BY <4>1 DEF Build
      <4> QED BY <2>3, <4>1, <4>2, BuildCalls
    <3> QED BY <2>1, <3>1, <3>2, <3>3, <3>4
  <2> QED BY <2>6, <2>7, <2>8 DEF SerialInv
<1> QED BY <1>1, <1>2

LEMMA SerialInit == Init => SerialInv
<1> SUFFICES ASSUME Init PROVE SerialInv
  OBVIOUS
<1>1. \A p \in Runs : rs[p].pc = "new" /\ rs[p].builds = {}
  BY DEF Init
<1>2. \A p \in Runs : ~Active(p) /\ CallInv(p)
  BY <1>1 DEF Active, CallInv
<1> QED BY <1>2 DEF SerialInv, Twins, Init

\* Repeated and killed at will, but one after the other, the programs create no
\* permission and no assignment twice ("It is IDEMPOTENT", seed.ts).
THEOREM SerialRunsUnique == Spec => []SeriallyUnique
<1>1. SerialInv => SeriallyUnique
  BY DEF SerialInv, SeriallyUnique, Twins
<1>2. TypeOK /\ SerialInv /\ [Next]_vars => SerialInv'
  BY TypeParts, SerialStep
<1> QED BY <1>1, <1>2, SerialInit, SeedingTyped, PTL DEF Spec

\* A run that no other one overlaps fails only on a permission that is there,
\* and the standalone seed never does.
THEOREM SerialRunsFailForCause == Spec => []FailsForCause
<1>1. SerialInv => FailsForCause
  BY DEF SerialInv, FailsForCause, CallInv, Cause
<1>2. TypeOK /\ SerialInv /\ [Next]_vars => SerialInv'
  BY TypeParts, SerialStep
<1> QED BY <1>1, <1>2, SerialInit, SeedingTyped, PTL DEF Spec
=============================================================================
