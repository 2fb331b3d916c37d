-------------------------- MODULE PermissionCache --------------------------
(***************************************************************************)
(* Roles, role assignments and the cached permission list of a user:       *)
(* RolesService, UserRolesService and RbacCacheService.                    *)
(*                                                                         *)
(* MongoDB holds the roles and the assignments.  The cache holds, per user *)
(* a flat permission list with a TTL and, per role, the reverse index of   *)
(* its holders, which tells whose lists to delete when the role changes.   *)
(* A step of a handler is what one database or cache call does, where it   *)
(* is stored.  The answer of a database call comes later: whatever the     *)
(* handler does next is a step of its own, and others may come before it.  *)
(*                                                                         *)
(* RemoteCache tells where the cache lives.  The documentation describes   *)
(* Redis: every call is a round trip others can overtake, and the cache    *)
(* survives a restart.  CacheModule.register({isGlobal: true}) gives an    *)
(* in-memory store: from the answer of the database to its last cache call *)
(* a handler keeps the turn of the event loop, so no other one touches the *)
(* cache in between, though MongoDB goes on; and a restart empties it.     *)
(***************************************************************************)
EXTENDS Integers, FiniteSets

CONSTANTS
  Users, Roles, Permissions,
  Handlers,       \* HTTP requests in flight
  None,           \* null
  RemoteCache,    \* the cache is a server of its own, not this process
  Seeded,         \* assignments written before this process started
  CacheTtl,       \* time a permission list may stay cached
  MaxFaults       \* bound: failures in one behaviour

ASSUME NoneAssumption == None \notin Users \cup Roles \cup Permissions
ASSUME ModeAssumption == RemoteCache \in BOOLEAN
ASSUME SeedAssumption == Seeded \subseteq Users \X Roles
ASSUME BoundAssumption == CacheTtl \in Nat \ {0} /\ MaxFaults \in Nat

VARIABLES
  roles,      \* the role documents
  holders,    \* the UserRole documents, as pairs <<user, role>>
  cache,      \* user:{userId}:permissions
  index,      \* role:{roleId}:users
  hs,         \* the HTTP handlers
  patched,    \* history: roles whose permissions PATCH /roles/:id replaced
  raced,      \* history: pairs assigned or removed while another request had
              \* yet to enter or take the same pair in or from the index
  alone,      \* history: every request came when no other was under way
  faults      \* failures so far

vars == <<roles, holders, cache, index, hs, patched, raced, alone, faults>>

-----------------------------------------------------------------------------
(* Values *)

Idle == [pc |-> "idle", user |-> None, role |-> None, perm |-> None,
         set |-> {}, sys |-> FALSE, fresh |-> TRUE]

NotCached == [perms |-> {}, ttl |-> 0]

DatabasePcs == {"assign", "add", "remove", "update", "flag", "deactivate",
                "lookup", "populate"}
CachePcs == {"assignClear", "indexRead", "indexAdd",
             "removeClear", "unindexRead", "unindexWrite",
             "targets", "clear", "store"}

\* set: what the handler read last, permissions, users or roles by its pc;
\* fresh: no save has raised the role's __v since the handler read the role
HandlerStates ==
  [pc : {"idle"} \cup DatabasePcs \cup CachePcs, user : Users \cup {None},
   role : Roles \cup {None}, perm : Permissions \cup {None},
   set : (SUBSET Permissions) \cup (SUBSET Users) \cup (SUBSET Roles),
   sys : BOOLEAN, fresh : BOOLEAN]

\* What a handler knows at each await
HandlerOK(h) ==
  /\ h.pc \in {"assign", "assignClear", "indexRead", "indexAdd", "removeClear", "unindexRead",
              "unindexWrite", "lookup", "populate", "store"} => h.user \in Users
  /\ h.pc \in {"assign", "assignClear", "indexRead", "indexAdd", "removeClear", "unindexRead",
              "unindexWrite", "add", "remove", "update", "flag", "deactivate", "targets",
              "clear"} => h.role \in Roles
  /\ h.pc \in {"add", "remove"} => h.perm \in Permissions
  /\ h.pc \in {"remove", "update", "store"} => h.set \subseteq Permissions
  /\ h.pc \in {"indexAdd", "unindexWrite", "clear"} => h.set \subseteq Users
  /\ h.pc = "populate" => h.set \subseteq Roles

TypeOK ==
  /\ roles \in [Roles -> [perms : SUBSET Permissions, system : BOOLEAN,
                          active : BOOLEAN]]
  /\ holders \subseteq Users \X Roles
  /\ cache \in [Users -> [perms : SUBSET Permissions, ttl : 0..CacheTtl]]
  /\ \A u \in Users : cache[u].ttl = 0 => cache[u] = NotCached
  /\ index \in [Roles -> SUBSET Users]
  /\ hs \in [Handlers -> HandlerStates]
  /\ \A p \in Handlers : HandlerOK(hs[p])
  /\ patched \subseteq Roles /\ raced \subseteq Users \X Roles /\ alone \in BOOLEAN
  /\ faults \in 0..MaxFaults

\* A seeded database.  The seed script runs in a process of its own, so what
\* it put into an in-memory index is gone.
Init ==
  /\ roles \in [Roles -> [perms : SUBSET Permissions, system : BOOLEAN,
                          active : {TRUE}]]
  /\ holders = Seeded
  /\ cache = [u \in Users |-> NotCached]
  /\ index = [r \in Roles |->
                IF RemoteCache THEN {u \in Users : <<u, r>> \in Seeded} ELSE {}]
  /\ hs = [p \in Handlers |-> Idle]
  /\ patched = {} /\ raced = {} /\ alone = TRUE
  /\ faults = 0

Cached(u) == cache[u].ttl > 0
Held(u) == {r \in Roles : <<u, r>> \in holders}
PermissionsOf(rs) == UNION {roles[r].perms : r \in rs}

-----------------------------------------------------------------------------
(* The event loop and the handlers *)

\* After its first cache call an in-memory handler runs on to its last one;
\* before it the answer of a database call is on its way.
MidTurn == {"indexRead", "indexAdd", "unindexRead", "unindexWrite", "clear"}
Turn(p) ==
  RemoteCache \/ \A q \in Handlers \ {p} : hs[q].pc \notin MidTurn

\* What MongoDB does needs no turn.
Goto(p, s) == hs' = [hs EXCEPT ![p] = s]
At(p, pc) == hs[p].pc = pc /\ (pc \in CachePcs => Turn(p))
Start(p, s) ==
  /\ At(p, "idle")
  /\ Goto(p, s)
  /\ alone' = (alone /\ \A q \in Handlers \ {p} : hs[q].pc = "idle")

\* The requests that have changed an assignment, and not the index yet
Adding == {"assignClear", "indexRead", "indexAdd"}
Removing == {"removeClear", "unindexRead", "unindexWrite"}
Indexing(p, u, r) ==
  hs[p].pc \in Adding \cup Removing /\ hs[p].user = u /\ hs[p].role = r

\* One more change of the assignment of r to u
Changed(p, u, r) ==
  raced' = IF \E q \in Handlers \ {p} : Indexing(q, u, r) THEN raced \cup {<<u, r>>} ELSE raced

\* The cache calls that touch one user's permission list
Store(u, perms) == cache' = [cache EXCEPT ![u] = [perms |-> perms, ttl |-> CacheTtl]]
Invalidate(u) == cache' = [cache EXCEPT ![u] = NotCached]

-----------------------------------------------------------------------------
(* UserRolesService.assignRole *)

AssignRead(p, u, r) ==
  /\ <<u, r>> \notin holders
  /\ Start(p, [Idle EXCEPT !.pc = "assign", !.user = u, !.role = r])
  /\ UNCHANGED <<roles, holders, cache, index, patched, raced, faults>>

\* The unique index on (userId, roleId) turns the second of two saves away.
AssignSave(p) ==
  /\ At(p, "assign")
  /\ holders' = holders \cup {<<hs[p].user, hs[p].role>>}
  /\ IF holders' = holders THEN Goto(p, Idle) /\ UNCHANGED raced
     ELSE Goto(p, [hs[p] EXCEPT !.pc = "assignClear"]) /\ Changed(p, hs[p].user, hs[p].role)
  /\ UNCHANGED <<roles, cache, index, patched, alone, faults>>

AssignClear(p) ==
  /\ At(p, "assignClear")
  /\ Invalidate(hs[p].user)
  /\ Goto(p, [hs[p] EXCEPT !.pc = "indexRead"])
  /\ UNCHANGED <<roles, holders, index, patched, raced, alone, faults>>

\* addUserToRoleIndex: reads the list, and writes it back if the user is new
IndexRead(p) ==
  /\ At(p, "indexRead")
  /\ Goto(p, IF hs[p].user \in index[hs[p].role] THEN Idle
             ELSE [hs[p] EXCEPT !.pc = "indexAdd", !.set = index[hs[p].role]])
  /\ UNCHANGED <<roles, holders, cache, index, patched, raced, alone, faults>>

\* Faulty variant: writes the new user instead of the extended list.
IndexAddAlone(p) ==
  /\ At(p, "indexAdd")
  /\ index' = [index EXCEPT ![hs[p].role] = {hs[p].user}]
  /\ Goto(p, Idle)
  /\ UNCHANGED <<roles, holders, cache, patched, raced, alone, faults>>

IndexAdd(p) ==
  /\ At(p, "indexAdd")
  /\ index' = [index EXCEPT ![hs[p].role] = hs[p].set \cup {hs[p].user}]
  /\ Goto(p, Idle)
  /\ UNCHANGED <<roles, holders, cache, patched, raced, alone, faults>>

-----------------------------------------------------------------------------
(* UserRolesService.removeRole *)

RemoveRole(p, u, r) ==
  /\ <<u, r>> \in holders
  /\ holders' = holders \ {<<u, r>>}
  /\ Start(p, [Idle EXCEPT !.pc = "removeClear", !.user = u, !.role = r])
  /\ Changed(p, u, r)
  /\ UNCHANGED <<roles, cache, index, patched, faults>>

\* Faulty variant: leaves the list of the user in the cache.
RemoveClearNothing(p) ==
  /\ At(p, "removeClear")
  /\ Goto(p, [hs[p] EXCEPT !.pc = "unindexRead"])
  /\ UNCHANGED <<roles, holders, cache, index, patched, raced, alone, faults>>

RemoveClear(p) ==
  /\ At(p, "removeClear")
  /\ Invalidate(hs[p].user)
  /\ Goto(p, [hs[p] EXCEPT !.pc = "unindexRead"])
  /\ UNCHANGED <<roles, holders, index, patched, raced, alone, faults>>

UnindexRead(p) ==
  /\ At(p, "unindexRead")
  /\ Goto(p, [hs[p] EXCEPT !.pc = "unindexWrite", !.set = index[hs[p].role]])
  /\ UNCHANGED <<roles, holders, cache, index, patched, raced, alone, faults>>

UnindexWrite(p) ==
  /\ At(p, "unindexWrite")
  /\ index' = [index EXCEPT ![hs[p].role] = hs[p].set \ {hs[p].user}]
  /\ Goto(p, Idle)
  /\ UNCHANGED <<roles, holders, cache, patched, raced, alone, faults>>

-----------------------------------------------------------------------------
(* RolesService *)

\* A save that changes the permission array raises the document's __v, which
\* makes every copy read before out of date.
Outdated(r) ==
  [q \in Handlers |-> IF hs[q].role = r /\ hs[q].pc \in {"remove", "update"}
                     THEN [hs[q] EXCEPT !.fresh = FALSE] ELSE hs[q]]

SavePermissions(p, r, perms) ==
  /\ roles' = [roles EXCEPT ![r].perms = perms]
  /\ hs' = [Outdated(r) EXCEPT ![p] =
              [Idle EXCEPT !.pc = "targets", !.role = r]]

AddRead(p, r, perm) ==
  /\ perm \notin roles[r].perms
  /\ Start(p, [Idle EXCEPT !.pc = "add", !.role = r, !.perm = perm])
  /\ UNCHANGED <<roles, holders, cache, index, patched, raced, faults>>

\* $push: MongoDB appends to the array as it is, whatever the copy held.
AddSave(p) ==
  LET r == hs[p].role IN
  /\ At(p, "add")
  /\ SavePermissions(p, r, roles[r].perms \cup {hs[p].perm})
  /\ UNCHANGED <<holders, cache, index, patched, raced, alone, faults>>

\* A permission the role does not have leaves nothing to save.
RemoveRead(p, r, perm) ==
  /\ Start(p, IF perm \in roles[r].perms
              THEN [Idle EXCEPT !.pc = "remove", !.role = r, !.perm = perm,
                                !.set = roles[r].perms]
              ELSE [Idle EXCEPT !.pc = "targets", !.role = r])
  /\ UNCHANGED <<roles, holders, cache, index, patched, raced, faults>>

\* The filtered array replaces the stored one if __v is the one read.
\* Faulty variant: the array is replaced whatever happened since the read.
RemoveSaveUnversioned(p) ==
  /\ At(p, "remove")
  /\ SavePermissions(p, hs[p].role, hs[p].set \ {hs[p].perm})
  /\ UNCHANGED <<holders, cache, index, patched, raced, alone, faults>>

RemoveSave(p) ==
  /\ At(p, "remove")
  /\ IF hs[p].fresh
     THEN SavePermissions(p, hs[p].role, hs[p].set \ {hs[p].perm})
     ELSE Goto(p, Idle) /\ UNCHANGED roles
  /\ UNCHANGED <<holders, cache, index, patched, raced, alone, faults>>

\* PATCH /roles/:id may replace the permissions and may set isSystemRole.
\* The save sends what differs from the copy it read.
UpdateRead(p, r, perms, sys) ==
  /\ ~roles[r].system
  /\ perms # roles[r].perms \/ sys
  /\ Start(p, [Idle EXCEPT !.pc = IF perms = roles[r].perms THEN "flag" ELSE "update",
                           !.role = r, !.set = perms, !.sys = sys])
  /\ UNCHANGED <<roles, holders, cache, index, patched, raced, faults>>

\* No cached list is invalidated.
UpdateSave(p) ==
  LET r == hs[p].role IN
  /\ At(p, "update")
  /\ IF hs[p].fresh
     THEN /\ roles' = [roles EXCEPT ![r].perms = hs[p].set,
                                    ![r].system = @ \/ hs[p].sys]
          /\ hs' = [Outdated(r) EXCEPT ![p] = Idle]
          /\ patched' = patched \cup {r}
     ELSE Goto(p, Idle) /\ UNCHANGED <<roles, patched>>
  /\ UNCHANGED <<holders, cache, index, raced, alone, faults>>

FlagSave(p) ==
  /\ At(p, "flag")
  /\ roles' = [roles EXCEPT ![hs[p].role].system = TRUE]
  /\ Goto(p, Idle)
  /\ UNCHANGED <<holders, cache, index, patched, raced, alone, faults>>

\* DELETE /roles/:id switches the role off; its holders keep the role.
DeactivateRead(p, r) ==
  /\ ~roles[r].system /\ roles[r].active
  /\ Start(p, [Idle EXCEPT !.pc = "deactivate", !.role = r])
  /\ UNCHANGED <<roles, holders, cache, index, patched, raced, faults>>

DeactivateSave(p) ==
  /\ At(p, "deactivate")
  /\ roles' = [roles EXCEPT ![hs[p].role].active = FALSE]
  /\ Goto(p, Idle)
  /\ UNCHANGED <<holders, cache, index, patched, raced, alone, faults>>

\* invalidateRoleCache: the holders by the index, then one delete for each
Targets(p) ==
  /\ At(p, "targets")
  /\ Goto(p, IF index[hs[p].role] = {} THEN Idle
             ELSE [hs[p] EXCEPT !.pc = "clear", !.set = index[hs[p].role]])
  /\ UNCHANGED <<roles, holders, cache, index, patched, raced, alone, faults>>

ClearOne(p, u) ==
  /\ At(p, "clear") /\ u \in hs[p].set
  /\ Invalidate(u)
  /\ Goto(p, IF hs[p].set = {u} THEN Idle ELSE [hs[p] EXCEPT !.set = @ \ {u}])
  /\ UNCHANGED <<roles, holders, index, patched, raced, alone, faults>>

-----------------------------------------------------------------------------
(* UserRolesService.getUserPermissions; a hit changes nothing *)

Miss(p, u) ==
  /\ ~Cached(u) /\ Turn(p)
  /\ Start(p, [Idle EXCEPT !.pc = "lookup", !.user = u])
  /\ UNCHANGED <<roles, holders, cache, index, patched, raced, faults>>

\* getUserRoles: the assignments, then populate() reads the role documents,
\* whatever their isActive
Lookup(p) ==
  /\ At(p, "lookup")
  /\ Goto(p, [hs[p] EXCEPT !.pc = "populate", !.set = Held(hs[p].user)])
  /\ UNCHANGED <<roles, holders, cache, index, patched, raced, alone, faults>>

Populate(p) ==
  /\ At(p, "populate")
  /\ Goto(p, [hs[p] EXCEPT !.pc = "store", !.set = PermissionsOf(@)])
  /\ UNCHANGED <<roles, holders, cache, index, patched, raced, alone, faults>>

StoreList(p) ==
  /\ At(p, "store")
  /\ Store(hs[p].user, hs[p].set)
  /\ Goto(p, Idle)
  /\ UNCHANGED <<roles, holders, index, patched, raced, alone, faults>>

-----------------------------------------------------------------------------
(* Time and failures *)

\* Faulty variants: a TTL that runs on below zero, and lists without a TTL.
TickBelowZero ==
  /\ cache' = [u \in Users |-> [cache[u] EXCEPT !.ttl = @ - 1]]
  /\ UNCHANGED <<roles, holders, index, hs, patched, raced, alone, faults>>

TickWithoutTtl == UNCHANGED vars

Tick ==
  /\ cache' = [u \in Users |-> IF cache[u].ttl <= 1 THEN NotCached
                               ELSE [cache[u] EXCEPT !.ttl = @ - 1]]
  /\ UNCHANGED <<roles, holders, index, hs, patched, raced, alone, faults>>

Fault == faults < MaxFaults /\ faults' = faults + 1

\* A database call, or a call to a remote cache, throws: it was not made, or
\* its answer is lost.
CallFails(p) ==
  /\ hs[p].pc # "idle" /\ (RemoteCache \/ hs[p].pc \notin MidTurn)
  /\ Goto(p, Idle)
  /\ Fault
  /\ UNCHANGED <<roles, holders, cache, index, patched, raced, alone>>

Restart ==
  /\ hs' = [p \in Handlers |-> Idle]
  /\ IF RemoteCache THEN UNCHANGED <<cache, index>>
     ELSE /\ cache' = [u \in Users |-> NotCached]
          /\ index' = [r \in Roles |-> {}]
  /\ Fault
  /\ UNCHANGED <<roles, holders, patched, raced, alone>>

-----------------------------------------------------------------------------
Arrive(p) ==
  \/ \E u \in Users, r \in Roles : AssignRead(p, u, r) \/ RemoveRole(p, u, r)
  \/ \E r \in Roles, perm \in Permissions : AddRead(p, r, perm) \/ RemoveRead(p, r, perm)
  \/ \E r \in Roles, perms \in SUBSET Permissions, sys \in BOOLEAN :
       UpdateRead(p, r, perms, sys)
  \/ \E r \in Roles : DeactivateRead(p, r)
  \/ \E u \in Users : Miss(p, u)

Continue(p) ==
  \/ AssignSave(p) \/ AssignClear(p) \/ IndexRead(p) \/ IndexAdd(p)
  \/ RemoveClear(p) \/ UnindexRead(p) \/ UnindexWrite(p)
  \/ AddSave(p) \/ RemoveSave(p) \/ UpdateSave(p) \/ FlagSave(p) \/ DeactivateSave(p)
  \/ Targets(p) \/ \E u \in Users : ClearOne(p, u)
  \/ Lookup(p) \/ Populate(p) \/ StoreList(p)

Next ==
  \/ \E p \in Handlers : Arrive(p) \/ Continue(p) \/ CallFails(p)
  \/ Tick
  \/ Restart

Spec == Init /\ [][Next]_vars

\* Node runs every handler on to its end and TTLs run out.
Fairness == WF_vars(Tick) /\ \A p \in Handlers : WF_vars(Continue(p))

FairSpec == Spec /\ Fairness

-----------------------------------------------------------------------------
(* Properties *)

Quiet == \A p \in Handlers : hs[p].pc = "idle"

\* Requests that come one at a time, without a failure, and no assignment from
\* before the start: between requests a cached list is what MongoDB says, except
\* for permissions of a role that PATCH /roles/:id replaced.
CacheExact ==
  Quiet /\ alone =>
    \A u \in Users : Cached(u) =>
      (Held(u) \cap patched = {} => cache[u].perms = PermissionsOf(Held(u)))

\* However requests overlap in the in-memory mode, between requests the reverse
\* index names exactly the holders of a role, but for a pair that two requests
\* changed at once: their answers may come back in the other order.
IndexExact ==
  Quiet =>
    \A u \in Users, r \in Roles :
      <<u, r>> \notin raced => (u \in index[r] <=> r \in Held(u))

\* However role edits overlap, a permission comes back to a role only by a
\* request that grants it: no stale copy of the array restores what another
\* request removed (Mongoose's __v check).
NoResurrection ==
  [][\A r \in Roles, perm \in Permissions :
       perm \notin roles[r].perms /\ perm \in roles'[r].perms =>
         \E p \in Handlers : /\ hs[p].role = r
                             /\ \/ hs[p].pc = "add" /\ hs[p].perm = perm
                                \/ hs[p].pc = "update" /\ perm \in hs[p].set]_vars

Allowed(u, perm) == perm \in PermissionsOf(Held(u))
Shown(u, perm) == perm \in cache[u].perms

\* A permission that a user has lost for good leaves the user's cached list for
\* good, whatever raced or failed: the TTL is the last line of defence.  Lost
\* for good means that each role has been taken from the user, or the permission
\* from the role.  That the user never has both is not enough: a fill reads the
\* assignments and the roles at two moments.
LostPermissionLeaves ==
  \A u \in Users, perm \in Permissions :
    (\A r \in Roles : <>[](r \notin Held(u)) \/ <>[](perm \notin roles[r].perms))
      => <>[]~Shown(u, perm)

-----------------------------------------------------------------------------
(* What a comment says, and the code does not do *)

\* "With the reverse index maintained correctly, changes propagate
\* immediately." (rbac-cache.service.ts): between requests the list of a user
\* whom the index names for every role held shows nothing the user has lost,
\* replacements by PATCH apart.
StaleOnlyOutOfIndex ==
  Quiet /\ patched = {} =>
    \A u \in Users, perm \in Permissions :
      /\ Held(u) # {} /\ \A r \in Held(u) : u \in index[r]
      /\ Shown(u, perm)
      => Allowed(u, perm)
=============================================================================
