------------------------------- MODULE Seeding -------------------------------
(***************************************************************************)
(* Bootstrapping: seed.ts, seed-standalone.ts, POST /permissions/seed and  *)
(* POST /permissions on the same MongoDB, started by hand, killed,         *)
(* repeated and overlapping.                                               *)
(*                                                                         *)
(* Every part is a find-or-create of several calls without a transaction.  *)
(* What stops two runs from creating twice is the unique indexes, and the  *)
(* programs disagree on those: the service's schema keeps permission names *)
(* unique, the standalone one keeps (resource, action) pairs unique, drops *)
(* the index on names and writes permissions that have none.               *)
(*                                                                         *)
(* connect() starts the builds of the indexes and nobody awaits them.      *)
(* Those on roles.name and users.email are taken to be there, the programs *)
(* reach these collections last and both declare them.                     *)
(***************************************************************************)
EXTENDS Naturals, FiniteSets, Sequences

CONSTANTS
  Runs,             \* runs of one of the programs
  MayRun,           \* the programs a run may be of
  ServicePerms,     \* default permissions of PermissionsService, in their order
  StandalonePerms,  \* those of seed-standalone.ts
  CreatedPerm,      \* what POST /permissions asks for
  StandaloneRoles,  \* DEFAULT_ROLES of seed-standalone.ts, in their order
  SuperAdmin,       \* the role both scripts give to the administrator
  None,
  MaxFaults         \* bound: runs killed or stopped by a failing call

Programs == {"seed", "standalone", "endpoint", "create"}
ASSUME RunAssumption == MayRun \in [Runs -> SUBSET Programs]
ASSUME MaxFaultsAssumption == MaxFaults \in Nat

ElementsOf(s) == {s[i] : i \in DOMAIN s}
ASSUME ListAssumption ==
  \A s \in {ServicePerms, StandalonePerms, StandaloneRoles} :
    s \in Seq(ElementsOf(s)) /\ s # <<>>

Perms == ElementsOf(ServicePerms) \cup ElementsOf(StandalonePerms) \cup {CreatedPerm}
RoleNames == ElementsOf(StandaloneRoles) \cup {SuperAdmin}

ASSUME NoneAssumption == None \notin Runs \cup Perms

VARIABLES
  catalogue,   \* permission documents, each with the run that created it
  indexes,     \* unique indexes MongoDB enforces: "name", "pair", "link"
  roles,       \* per role name, whether it has the permissions of the seeds
  admin,       \* the run that created the administrator's account
  links,       \* runs that created a user-role of administrator and super-admin
  indexed,     \* seed.ts has put the administrator into the reverse index of super-admin
  rs,          \* the runs
  overlapped,  \* history: a run started while another one was active
  faults

vars == <<catalogue, indexes, roles, admin, links, indexed, rs, overlapped, faults>>

-----------------------------------------------------------------------------
Documents == [perm : Perms, named : BOOLEAN, by : Runs]
Indexes == {"name", "pair", "link"}
RoleStates == {"absent", "lacking", "complete"}

Ended == {"done", "failed", "crashed"}
Pcs == {"new", "drop", "find", "insert", "role", "saveRole", "admin", "createAdmin",
        "link", "createLink", "index"} \cup Ended
Active(p) == rs[p].pc \notin {"new"} \cup Ended

RunStates == [program : Programs, pc : Pcs, perm : Nat, role : Nat,
              seen : RoleStates, builds : SUBSET Indexes]

Standalone(p) == rs[p].program = "standalone"
PermsOf(program) ==
  CASE program = "standalone" -> StandalonePerms
    [] program = "create" -> <<CreatedPerm>>
    [] OTHER -> ServicePerms
RolesOf(program) == IF program = "standalone" THEN StandaloneRoles ELSE <<SuperAdmin>>
PermList(p) == PermsOf(rs[p].program)
RoleList(p) == RolesOf(rs[p].program)

\* Nobody reads past the end of a list.
InLists(p) ==
  /\ rs[p].pc \in {"new", "drop", "find", "insert"} => rs[p].perm \in 1..Len(PermList(p))
  /\ rs[p].pc \in {"new", "drop", "find", "insert", "role", "saveRole"} =>
       rs[p].role \in 1..Len(RoleList(p))

TypeOK ==
  /\ catalogue \subseteq Documents
  /\ indexes \subseteq Indexes
  /\ roles \in [RoleNames -> RoleStates]
  /\ admin \in Runs \cup {None}
  /\ links \subseteq Runs
  /\ indexed \in BOOLEAN
  /\ rs \in [Runs -> RunStates]
  /\ \A p \in Runs : InLists(p)
  /\ overlapped \in BOOLEAN
  /\ faults \in 0..MaxFaults

\* The roles may be there before, edited through the API or not.
Init ==
  /\ catalogue = {}
  /\ indexes = {}
  /\ roles \in [RoleNames -> RoleStates]
  /\ admin = None
  /\ links = {}
  /\ indexed = FALSE
  /\ \E program \in [Runs -> Programs] :
       /\ \A p \in Runs : program[p] \in MayRun[p]
       /\ rs = [p \in Runs |-> [program |-> program[p], pc |-> "new", perm |-> 1, role |-> 1,
                                seen |-> "absent", builds |-> {}]]
  /\ overlapped = FALSE
  /\ faults = 0

-----------------------------------------------------------------------------
(* The programs *)

Perm(p) == PermList(p)[rs[p].perm]
Role(p) == RoleList(p)[rs[p].role]

\* A process that ends takes the builds it has not sent with it; of a failed
\* one the message tells the permission.
Over(r) == [r EXCEPT !.builds = {}, !.role = 1, !.seen = "absent",
                     !.perm = IF r.pc = "failed" THEN @ ELSE 1]
Moved(r, pc) ==
  LET moved == [r EXCEPT !.pc = pc] IN IF pc \in Ended THEN Over(moved) ELSE moved
Go(p, pc) == rs' = [rs EXCEPT ![p] = Moved(@, pc)]

\* Past a permission or a role: the next one, or what follows the loop
AfterPerm(p) ==
  IF rs[p].perm < Len(PermList(p)) THEN "find"
  ELSE IF rs[p].program \in {"endpoint", "create"} THEN "done" ELSE "role"
NextPerm(p) ==
  rs' = [rs EXCEPT ![p] = Moved([rs[p] EXCEPT !.perm = @ + 1], AfterPerm(p))]

AfterRole(p) == IF rs[p].role < Len(RoleList(p)) THEN "role" ELSE "admin"
NextRole(p) ==
  rs' = [rs EXCEPT ![p] = [rs[p] EXCEPT !.role = @ + 1, !.pc = AfterRole(p)]]

\* connect(), or the boot of the service, which also declares the indexes
Start(p) ==
  /\ rs[p].pc = "new"
  /\ rs' = [rs EXCEPT ![p].pc = IF Standalone(p) THEN "drop" ELSE "find",
                      ![p].builds = IF Standalone(p) THEN {"pair"} ELSE {"name", "link"}]
  /\ overlapped' = (overlapped \/ \E q \in Runs : Active(q))
  /\ UNCHANGED <<catalogue, indexes, roles, admin, links, indexed, faults>>

Named == {d \in catalogue : d.named}
NameOf(d) == IF d.named THEN d.perm ELSE None
OfPerm(perm) == {d \in catalogue : d.perm = perm}

\* A unique index on name counts the documents without one as equal.
Buildable(i) ==
  CASE i = "name" -> \A d, e \in catalogue : NameOf(d) = NameOf(e) => d = e
    [] i = "pair" -> \A d, e \in catalogue : d.perm = e.perm => d = e
    [] i = "link" -> Cardinality(links) <= 1

Build(p, i) ==
  /\ Active(p) /\ i \in rs[p].builds
  /\ rs' = [rs EXCEPT ![p].builds = @ \ {i}]
  /\ indexes' = IF Buildable(i) THEN indexes \cup {i} ELSE indexes
  /\ UNCHANGED <<catalogue, roles, admin, links, indexed, overlapped, faults>>

\* Faulty variant: leaves the index on names.
DropNothing(p) ==
  /\ rs[p].pc = "drop"
  /\ Go(p, "find")
  /\ UNCHANGED <<catalogue, indexes, roles, admin, links, indexed, overlapped, faults>>

DropName(p) ==
  /\ rs[p].pc = "drop"
  /\ indexes' = indexes \ {"name"}
  /\ Go(p, "find")
  /\ UNCHANGED <<catalogue, roles, admin, links, indexed, overlapped, faults>>

\* Faulty variant: looks for a name in the standalone seed too.
FoundByName(p) == OfPerm(Perm(p)) \cap Named

\* Faulty variant: looks for what no document has.
FoundNever(p) == {d \in OfPerm(Perm(p)) : d.named /\ Standalone(p)}

\* What the find, or the first half of the upsert, looks for; a request to
\* create what is there is answered with 409.
Found(p) ==
  IF Standalone(p) THEN OfPerm(Perm(p)) ELSE OfPerm(Perm(p)) \cap Named

FindPerm(p) ==
  /\ rs[p].pc = "find"
  /\ IF Found(p) = {} THEN Go(p, "insert")
     ELSE IF rs[p].program = "create" THEN Go(p, "failed") ELSE NextPerm(p)
  /\ UNCHANGED <<catalogue, indexes, roles, admin, links, indexed, overlapped, faults>>

\* Faulty variant: writes a document without its permission.
NewDocumentBlank(p) == [perm |-> None, named |-> ~Standalone(p), by |-> p]

NewDocument(p) == [perm |-> Perm(p), named |-> ~Standalone(p), by |-> p]

Upserts(p) == rs[p].program \in {"seed", "endpoint"}

\* The indexes that refuse a new document
Refusing(p) ==
  LET n == NewDocument(p) IN
  {i \in indexes : \/ i = "name" /\ \E d \in catalogue : NameOf(d) = NameOf(n)
                   \/ i = "pair" /\ OfPerm(n.perm) # {}}

\* MongoDB repeats an upsert that the index of its own query refused; any
\* other duplicate key ends the program.
InsertPerm(p) ==
  /\ rs[p].pc = "insert"
  /\ \/ /\ Refusing(p) = {}
        /\ catalogue' = catalogue \cup {NewDocument(p)}
        /\ NextPerm(p)
     \/ /\ \E i \in Refusing(p) :
             Go(p, IF i = "name" /\ Upserts(p) THEN "find" ELSE "failed")
        /\ UNCHANGED catalogue
  /\ UNCHANGED <<indexes, roles, admin, links, indexed, overlapped, faults>>

FindRole(p) ==
  /\ rs[p].pc = "role"
  /\ IF roles[Role(p)] = "complete" THEN NextRole(p)
     ELSE rs' = [rs EXCEPT ![p].pc = "saveRole", ![p].seen = roles[Role(p)]]
  /\ UNCHANGED <<catalogue, indexes, roles, admin, links, indexed, overlapped, faults>>

\* Faulty variant: a role that is there is left as it is.
SaveNewRole(p) ==
  /\ rs[p].pc = "saveRole"
  /\ \/ roles[Role(p)] = "absent" /\ roles' = [roles EXCEPT ![Role(p)] = "complete"]
     \/ roles[Role(p)] # "absent" /\ UNCHANGED roles
  /\ NextRole(p)
  /\ UNCHANGED <<catalogue, indexes, admin, links, indexed, overlapped, faults>>

\* A create meets the unique name.  The array written as a whole carries the
\* version it was read with; the push of '*:*' does not.
SaveRole(p) ==
  /\ rs[p].pc = "saveRole"
  /\ IF roles[Role(p)] = rs[p].seen \/ (~Standalone(p) /\ rs[p].seen = "lacking")
     THEN roles' = [roles EXCEPT ![Role(p)] = "complete"] /\ NextRole(p)
     ELSE roles' = roles /\ Go(p, "failed")
  /\ UNCHANGED <<catalogue, indexes, admin, links, indexed, overlapped, faults>>

FindAdmin(p) ==
  /\ rs[p].pc = "admin"
  /\ Go(p, IF admin = None THEN "createAdmin" ELSE "link")
  /\ UNCHANGED <<catalogue, indexes, roles, admin, links, indexed, overlapped, faults>>

\* After bcrypt.hash; the unique e-mail address refuses a second account.
CreateAdmin(p) ==
  /\ rs[p].pc = "createAdmin"
  /\ IF admin = None THEN admin' = p /\ Go(p, "link")
     ELSE admin' = admin /\ Go(p, "failed")
  /\ UNCHANGED <<catalogue, indexes, roles, links, indexed, overlapped, faults>>

FindLink(p) ==
  /\ rs[p].pc = "link"
  /\ Go(p, IF links = {} THEN "createLink" ELSE "done")
  /\ UNCHANGED <<catalogue, indexes, roles, admin, links, indexed, overlapped, faults>>

CreateLink(p) ==
  /\ rs[p].pc = "createLink"
  /\ IF "link" \in indexes /\ links # {} THEN links' = links /\ Go(p, "failed")
     ELSE links' = links \cup {p} /\ Go(p, IF Standalone(p) THEN "done" ELSE "index")
  /\ UNCHANGED <<catalogue, indexes, roles, admin, indexed, overlapped, faults>>

\* addUserToRoleIndex
AddToIndex(p) ==
  /\ rs[p].pc = "index"
  /\ indexed' = TRUE
  /\ Go(p, "done")
  /\ UNCHANGED <<catalogue, indexes, roles, admin, links, overlapped, faults>>

\* The process is killed, or a call throws: process.exit(1), or a 500.
Crash(p) ==
  /\ Active(p)
  /\ faults < MaxFaults
  /\ faults' = faults + 1
  /\ Go(p, "crashed")
  /\ UNCHANGED <<catalogue, indexes, roles, admin, links, indexed, overlapped>>

Step(p) ==
  \/ DropName(p) \/ FindPerm(p) \/ InsertPerm(p)
  \/ FindRole(p) \/ SaveRole(p)
  \/ FindAdmin(p) \/ CreateAdmin(p)
  \/ FindLink(p) \/ CreateLink(p) \/ AddToIndex(p)

Next ==
  \E p \in Runs :
    \/ Start(p) \/ Step(p) \/ Crash(p)
    \/ \E i \in Indexes : Build(p, i)

Spec == Init /\ [][Next]_vars

\* A program that runs goes on to its end; nobody has to start one.
FairSpec == Spec /\ \A p \in Runs : WF_vars(Step(p))

-----------------------------------------------------------------------------
(* Properties *)

\* Find-or-create, repeated and killed at will but never overlapping, creates
\* no permission and no assignment twice ("It is IDEMPOTENT", seed.ts): only
\* a named permission and one of the standalone seed can be twins, while the
\* index on pairs of a standalone run that was killed early is missing.
SeriallyUnique ==
  ~overlapped =>
    /\ \A d, e \in catalogue : d # e /\ d.perm = e.perm =>
         d.named # e.named /\ "pair" \notin indexes
    /\ \A p, q \in links : p = q

\* Without an overlap the standalone seed never fails, whatever ran before and
\* wherever it was killed; the others fail only on a permission that is there
\* already, a default one only when it is there without a name.
FailsForCause ==
  \A p \in Runs : rs[p].pc = "failed" /\ ~overlapped =>
    /\ ~Standalone(p)
    /\ \E d \in OfPerm(Perm(p)) : ~d.named \/ rs[p].program = "create"

\* A script that ends with "Seed complete" has left every permission of its
\* list, the role with its permissions, the account and the assignment, also
\* when others ran at the same time.
DoneMeansSeeded ==
  \A p \in Runs : rs[p].pc = "done" /\ rs[p].program \in {"seed", "standalone"} =>
    /\ \A x \in ElementsOf(PermList(p)) : \E d \in OfPerm(x) : Standalone(p) \/ d.named
    /\ \A r \in ElementsOf(RoleList(p)) : roles[r] = "complete"
    /\ admin # None /\ links # {}

\* No two programs keep each other, or an upsert itself, from ending.
EveryRunEnds == \A p \in Runs : Active(p) ~> rs[p].pc \in Ended
=============================================================================
