----------------------- MODULE PermissionCacheProofs -----------------------
(***************************************************************************)
(* Theorems about PermissionCache: typing and the absence of resurrected   *)
(* permissions for any number of concurrent requests and failures, the     *)
(* exactness of the index for overlapping requests of one process, and of  *)
(* the lists for requests that never overlap.                              *)
(***************************************************************************)
EXTENDS PermissionCache, TLAPS

-----------------------------------------------------------------------------
(* Type correctness *)

HandlersOK == hs \in [Handlers -> HandlerStates] /\ \A p \in Handlers : HandlerOK(hs[p])

LEMMA IdleType == Idle \in HandlerStates /\ HandlerOK(Idle)
  BY DEF Idle, HandlerStates, HandlerOK

\* What the program keeps, and what the history adds to it
StateOK ==
  /\ roles \in [Roles -> [perms : SUBSET Permissions, system : BOOLEAN,
                          active : BOOLEAN]]
  /\ holders \subseteq Users \X Roles
  /\ cache \in [Users -> [perms : SUBSET Permissions, ttl : 0..CacheTtl]]
  /\ \A u \in Users : cache[u].ttl = 0 => cache[u] = NotCached
  /\ index \in [Roles -> SUBSET Users]
  /\ HandlersOK
  /\ patched \subseteq Roles
  /\ faults \in 0..MaxFaults
HistoryOK == raced \subseteq Users \X Roles /\ alone \in BOOLEAN

LEMMA InitType == Init => TypeOK
<1> SUFFICES ASSUME Init PROVE TypeOK
  OBVIOUS
<1>1. cache \in [Users -> [perms : SUBSET Permissions, ttl : 0..CacheTtl]]
  BY BoundAssumption DEF Init, NotCached
<1>2. \A u \in Users : cache[u].ttl = 0 => cache[u] = NotCached
  BY DEF Init
<1>3. hs \in [Handlers -> HandlerStates] /\ \A p \in Handlers : HandlerOK(hs[p])
  BY IdleType DEF Init
<1>4. index \in [Roles -> SUBSET Users]
  BY DEF Init
<1>5. roles \in [Roles -> [perms : SUBSET Permissions, system : BOOLEAN, active : BOOLEAN]]
  BY DEF Init
<1> QED BY <1>1, <1>2, <1>3, <1>4, <1>5, SeedAssumption, BoundAssumption DEF Init, TypeOK

\* A step that moves one handler to a well-typed state keeps them all so.
LEMMA GotoType ==
  ASSUME HandlersOK, NEW p \in Handlers,
         NEW s \in HandlerStates, HandlerOK(s), Goto(p, s)
  PROVE  HandlersOK'
  BY DEF HandlersOK, Goto, HandlerOK

\* What a save does to the copies others have read
LEMMA OutdatedType ==
  ASSUME HandlersOK, NEW r \in Roles
  PROVE  /\ Outdated(r) \in [Handlers -> HandlerStates]
         /\ \A q \in Handlers : HandlerOK(Outdated(r)[q])
<1>1. ASSUME NEW q \in Handlers
      PROVE  [hs[q] EXCEPT !.fresh = FALSE] \in HandlerStates
             /\ HandlerOK([hs[q] EXCEPT !.fresh = FALSE])
  <2>1. hs[q] \in HandlerStates /\ HandlerOK(hs[q])
    BY DEF HandlersOK
  <2> QED BY <2>1 DEF HandlerStates, HandlerOK
<1> QED BY <1>1 DEF HandlersOK, Outdated

LEMMA OutdatedGoto ==
  ASSUME HandlersOK, NEW p \in Handlers, NEW r \in Roles,
         NEW s \in HandlerStates, HandlerOK(s), hs' = [Outdated(r) EXCEPT ![p] = s]
  PROVE  HandlersOK'
  BY OutdatedType DEF HandlersOK

LEMMA SaveType ==
  ASSUME TypeOK, NEW p \in Handlers, NEW r \in Roles, NEW perms \in SUBSET Permissions,
         SavePermissions(p, r, perms)
  PROVE  /\ HandlersOK'
         /\ roles' \in [Roles -> [perms : SUBSET Permissions, system : BOOLEAN,
                                  active : BOOLEAN]]
<1>1. [Idle EXCEPT !.pc = "targets", !.role = r] \in HandlerStates
      /\ HandlerOK([Idle EXCEPT !.pc = "targets", !.role = r])
  BY DEF Idle, HandlerStates, HandlerOK, DatabasePcs, CachePcs
<1>2. HandlersOK
  BY DEF TypeOK, HandlersOK
<1>3. HandlersOK'
  BY <1>1, <1>2, OutdatedGoto DEF SavePermissions
<1>4. roles' \in [Roles -> [perms : SUBSET Permissions, system : BOOLEAN, active : BOOLEAN]]
  BY DEF TypeOK, SavePermissions
<1> QED BY <1>3, <1>4

LEMMA ArriveState ==
  ASSUME TypeOK, NEW p \in Handlers, Arrive(p)
  PROVE  StateOK'
<1>1. HandlersOK BY DEF TypeOK, HandlersOK
<1>3. ASSUME NEW u \in Users, NEW r \in Roles, AssignRead(p, u, r)
      PROVE  StateOK'
  <2> DEFINE s == [Idle EXCEPT !.pc = "assign", !.user = u, !.role = r]
  <2>1. s \in HandlerStates /\ HandlerOK(s)
    BY DEF Idle, HandlerStates, HandlerOK, DatabasePcs
  <2>2. HandlersOK'
    BY <1>1, <1>3, <2>1, GotoType DEF AssignRead, Start
  <2> QED BY <1>3, <2>2 DEF AssignRead, TypeOK, StateOK, HandlersOK
<1>4. ASSUME NEW u \in Users, NEW r \in Roles, RemoveRole(p, u, r)
      PROVE  StateOK'
  <2> DEFINE s == [Idle EXCEPT !.pc = "removeClear", !.user = u, !.role = r]
  <2>1. s \in HandlerStates /\ HandlerOK(s)
    BY DEF Idle, HandlerStates, HandlerOK, CachePcs
  <2>2. HandlersOK'
    BY <1>1, <1>4, <2>1, GotoType DEF RemoveRole, Start
  <2> QED BY <1>4, <2>2 DEF RemoveRole, TypeOK, StateOK, HandlersOK
<1>5. ASSUME NEW r \in Roles, NEW perm \in Permissions, AddRead(p, r, perm)
      PROVE  StateOK'
  <2> DEFINE s == [Idle EXCEPT !.pc = "add", !.role = r, !.perm = perm]
  <2>1. s \in HandlerStates /\ HandlerOK(s)
    BY DEF Idle, HandlerStates, HandlerOK, DatabasePcs
  <2>2. HandlersOK'
    BY <1>1, <1>5, <2>1, GotoType DEF AddRead, Start
  <2> QED BY <1>5, <2>2 DEF AddRead, TypeOK, StateOK, HandlersOK
<1>6. ASSUME NEW r \in Roles, NEW perm \in Permissions, RemoveRead(p, r, perm)
      PROVE  StateOK'
  <2> DEFINE s == [Idle EXCEPT !.pc = "remove", !.role = r, !.perm = perm,
                               !.set = roles[r].perms]
             t == [Idle EXCEPT !.pc = "targets", !.role = r]
  <2>1. s \in HandlerStates /\ HandlerOK(s)
    BY DEF Idle, HandlerStates, HandlerOK, DatabasePcs, TypeOK
  <2>2. t \in HandlerStates /\ HandlerOK(t)
    BY DEF Idle, HandlerStates, HandlerOK, CachePcs
  <2>3. Goto(p, s) \/ Goto(p, t)
    BY <1>6 DEF RemoveRead, Start
  <2>4. HandlersOK'
    BY <1>1, <2>1, <2>2, <2>3, GotoType
  <2> QED BY <1>6, <2>4 DEF RemoveRead, TypeOK, StateOK, HandlersOK
<1>7. ASSUME NEW r \in Roles, NEW perms \in SUBSET Permissions, NEW sys \in BOOLEAN,
             UpdateRead(p, r, perms, sys)
      PROVE  StateOK'
  <2> DEFINE s(pc) == [Idle EXCEPT !.pc = pc, !.role = r, !.set = perms, !.sys = sys]
  <2>1. \A pc \in {"flag", "update"} : s(pc) \in HandlerStates /\ HandlerOK(s(pc))
    BY DEF Idle, HandlerStates, HandlerOK, DatabasePcs
  <2>2. \E pc \in {"flag", "update"} : Goto(p, s(pc))
    BY <1>7 DEF UpdateRead, Start
  <2>3. HandlersOK'
    BY <1>1, <2>1, <2>2, GotoType
  <2> QED BY <1>7, <2>3 DEF UpdateRead, TypeOK, StateOK, HandlersOK
<1>8. ASSUME NEW r \in Roles, DeactivateRead(p, r)
      PROVE  StateOK'
  <2> DEFINE s == [Idle EXCEPT !.pc = "deactivate", !.role = r]
  <2>1. s \in HandlerStates /\ HandlerOK(s)
    BY DEF Idle, HandlerStates, HandlerOK, DatabasePcs
  <2>2. HandlersOK'
    BY <1>1, <1>8, <2>1, GotoType DEF DeactivateRead, Start
  <2> QED BY <1>8, <2>2 DEF DeactivateRead, TypeOK, StateOK, HandlersOK
<1>9. ASSUME NEW u \in Users, Miss(p, u)
      PROVE  StateOK'
  <2> DEFINE s == [Idle EXCEPT !.pc = "lookup", !.user = u]
  <2>1. s \in HandlerStates /\ HandlerOK(s)
    BY DEF Idle, HandlerStates, HandlerOK, DatabasePcs
  <2>2. HandlersOK'
    BY <1>1, <1>9, <2>1, GotoType DEF Miss, Start
  <2> QED BY <1>9, <2>2 DEF Miss, TypeOK, StateOK, HandlersOK
<1> QED BY <1>3, <1>4, <1>5, <1>6, <1>7, <1>8, <1>9 DEF Arrive

\* The cache calls
LEMMA CacheType ==
  ASSUME TypeOK, NEW u \in Users, NEW perms \in SUBSET Permissions,
         Store(u, perms) \/ Invalidate(u)
  PROVE  /\ cache' \in [Users -> [perms : SUBSET Permissions, ttl : 0..CacheTtl]]
         /\ \A v \in Users : cache'[v].ttl = 0 => cache'[v] = NotCached
<1>1. /\ [perms |-> perms, ttl |-> CacheTtl] \in [perms : SUBSET Permissions, ttl : 0..CacheTtl]
      /\ NotCached \in [perms : SUBSET Permissions, ttl : 0..CacheTtl]
      /\ CacheTtl # 0
  BY BoundAssumption DEF NotCached
<1>2. cache \in [Users -> [perms : SUBSET Permissions, ttl : 0..CacheTtl]]
  BY DEF TypeOK
<1>3. PICK e \in {[perms |-> perms, ttl |-> CacheTtl], NotCached} :
        cache' = [cache EXCEPT ![u] = e]
  BY DEF Store, Invalidate
<1>4. e.ttl = 0 => e = NotCached
  BY <1>1, <1>3
<1> QED BY <1>1, <1>2, <1>3, <1>4 DEF TypeOK

\* A handler that has read a set
LEMMA ReadType ==
  ASSUME NEW h \in HandlerStates,
         NEW pc \in DatabasePcs \cup CachePcs,
         NEW set \in (SUBSET Permissions) \cup (SUBSET Users) \cup (SUBSET Roles)
  PROVE  [h EXCEPT !.pc = pc, !.set = set] \in HandlerStates
  BY DEF HandlerStates

\* The handlers after a later step
LEMMA ContinueHandlers ==
  ASSUME TypeOK, NEW p \in Handlers, Continue(p)
  PROVE  HandlersOK'
<1>1. HandlersOK BY DEF TypeOK, HandlersOK
<1>2. hs[p] \in HandlerStates /\ HandlerOK(hs[p])
  BY DEF TypeOK
<1>3. CASE Goto(p, Idle)
  BY <1>1, <1>3, IdleType, GotoType
<1>4. CASE AssignSave(p)
  <2> DEFINE s == [hs[p] EXCEPT !.pc = "assignClear"]
  <2>1. s \in HandlerStates /\ HandlerOK(s)
    BY <1>2, <1>4 DEF AssignSave, At, HandlerStates, HandlerOK, CachePcs
  <2> QED BY <1>1, <1>3, <1>4, <2>1, GotoType DEF AssignSave
<1>5. CASE AssignClear(p)
  <2> DEFINE s == [hs[p] EXCEPT !.pc = "indexRead"]
  <2>1. s \in HandlerStates /\ HandlerOK(s)
    BY <1>2, <1>5 DEF AssignClear, At, HandlerStates, HandlerOK, CachePcs
  <2> QED BY <1>1, <1>5, <2>1, GotoType DEF AssignClear
<1>6. CASE IndexRead(p)
  <2> DEFINE s == [hs[p] EXCEPT !.pc = "indexAdd", !.set = index[hs[p].role]]
  <2>1. hs[p].role \in Roles
    BY <1>2, <1>6 DEF IndexRead, At, HandlerOK
  <2>2. index[hs[p].role] \in SUBSET Users
    BY <2>1 DEF TypeOK
  <2>3. s \in HandlerStates
    <3>1. "indexAdd" \in DatabasePcs \cup CachePcs
      BY DEF CachePcs
    <3>2. index[hs[p].role] \in (SUBSET Permissions) \cup (SUBSET Users) \cup (SUBSET Roles)
      BY <2>2, Zenon
    <3> QED BY <1>2, <3>1, <3>2, ReadType, Zenon
  <2>4. HandlerOK(s)
    BY <1>2, <1>6, <2>1, <2>2 DEF IndexRead, At, HandlerStates, HandlerOK
  <2> QED BY <1>1, <1>3, <1>6, <2>3, <2>4, GotoType DEF IndexRead
<1>7. CASE RemoveClear(p)
  <2> DEFINE s == [hs[p] EXCEPT !.pc = "unindexRead"]
  <2>1. s \in HandlerStates /\ HandlerOK(s)
    BY <1>2, <1>7 DEF RemoveClear, At, HandlerStates, HandlerOK, CachePcs
  <2> QED BY <1>1, <1>7, <2>1, GotoType DEF RemoveClear
<1>8. CASE UnindexRead(p)
  <2> DEFINE s == [hs[p] EXCEPT !.pc = "unindexWrite", !.set = index[hs[p].role]]
  <2>1. hs[p].role \in Roles
    BY <1>2, <1>8 DEF UnindexRead, At, HandlerOK
  <2>2. index[hs[p].role] \in SUBSET Users
    BY <2>1 DEF TypeOK
  <2>3. s \in HandlerStates
    <3>1. "unindexWrite" \in DatabasePcs \cup CachePcs
      BY DEF CachePcs
    <3>2. index[hs[p].role] \in (SUBSET Permissions) \cup (SUBSET Users) \cup (SUBSET Roles)
      BY <2>2, Zenon
    <3> QED BY <1>2, <3>1, <3>2, ReadType, Zenon
  <2>4. HandlerOK(s)
    BY <1>2, <1>8, <2>1, <2>2 DEF UnindexRead, At, HandlerStates, HandlerOK
  <2> QED BY <1>1, <1>8, <2>3, <2>4, GotoType DEF UnindexRead
<1>9. CASE AddSave(p)
  <2>1. hs[p].role \in Roles /\ hs[p].perm \in Permissions
    BY <1>2, <1>9 DEF AddSave, At, HandlerOK
  <2>2. roles[hs[p].role].perms \cup {hs[p].perm} \in SUBSET Permissions
    BY <2>1 DEF TypeOK
  <2> QED BY <1>9, <2>1, <2>2, SaveType DEF AddSave
<1>10. CASE RemoveSave(p)
  <2>1. hs[p].role \in Roles /\ hs[p].set \ {hs[p].perm} \in SUBSET Permissions
    BY <1>2, <1>10 DEF RemoveSave, At, HandlerOK
  <2> QED BY <1>3, <1>10, <2>1, SaveType DEF RemoveSave
<1>11. CASE UpdateSave(p)
  <2>1. hs[p].role \in Roles
    BY <1>2, <1>11 DEF UpdateSave, At, HandlerOK
  <2> QED BY <1>1, <1>3, <1>11, <2>1, IdleType, OutdatedGoto DEF UpdateSave
<1>12. CASE Targets(p)
  <2> DEFINE s == [hs[p] EXCEPT !.pc = "clear", !.set = index[hs[p].role]]
  <2>1. hs[p].role \in Roles
    BY <1>2, <1>12 DEF Targets, At, HandlerOK
  <2>2. index[hs[p].role] \in SUBSET Users
    BY <2>1 DEF TypeOK
  <2>3. s \in HandlerStates
    <3>1. "clear" \in DatabasePcs \cup CachePcs
      BY DEF CachePcs
    <3>2. index[hs[p].role] \in (SUBSET Permissions) \cup (SUBSET Users) \cup (SUBSET Roles)
      BY <2>2, Zenon
    <3> QED BY <1>2, <3>1, <3>2, ReadType, Zenon
  <2>4. HandlerOK(s)
    BY <1>2, <1>12, <2>1, <2>2 DEF Targets, At, HandlerStates, HandlerOK
  <2> QED BY <1>1, <1>3, <1>12, <2>3, <2>4, GotoType DEF Targets
<1>13. ASSUME NEW u \in Users, ClearOne(p, u)
       PROVE  HandlersOK'
  <2> DEFINE s == [hs[p] EXCEPT !.set = @ \ {u}]
  <2>1. s \in HandlerStates /\ HandlerOK(s)
    BY <1>2, <1>13 DEF ClearOne, At, HandlerStates, HandlerOK
  <2> QED BY <1>1, <1>3, <1>13, <2>1, GotoType DEF ClearOne
<1>14. CASE Lookup(p)
  <2> DEFINE s == [hs[p] EXCEPT !.pc = "populate", !.set = Held(hs[p].user)]
  <2>1. Held(hs[p].user) \in SUBSET Roles
    BY DEF Held
  <2>2. s \in HandlerStates
    <3>1. "populate" \in DatabasePcs \cup CachePcs
      BY DEF DatabasePcs
    <3>2. Held(hs[p].user) \in (SUBSET Permissions) \cup (SUBSET Users) \cup (SUBSET Roles)
      BY <2>1, Zenon
    <3> QED BY <1>2, <3>1, <3>2, ReadType, Zenon
  <2>3. HandlerOK(s)
    BY <1>2, <1>14, <2>1 DEF Lookup, At, HandlerStates, HandlerOK
  <2> QED BY <1>1, <1>14, <2>2, <2>3, GotoType DEF Lookup
<1>15. CASE Populate(p)
  <2> DEFINE s == [hs[p] EXCEPT !.pc = "store", !.set = PermissionsOf(@)]
  <2>1. hs[p].set \subseteq Roles
    BY <1>2, <1>15 DEF Populate, At, HandlerOK
  <2>2. PermissionsOf(hs[p].set) \in SUBSET Permissions
    BY <2>1 DEF PermissionsOf, TypeOK
  <2>3. s \in HandlerStates /\ HandlerOK(s)
    BY <1>2, <1>15, <2>2 DEF Populate, At, HandlerStates, HandlerOK, CachePcs
  <2> QED BY <1>1, <1>15, <2>3, GotoType DEF Populate
<1>16. CASE IndexAdd(p) \/ UnindexWrite(p) \/ FlagSave(p) \/ DeactivateSave(p) \/ StoreList(p)
  BY <1>3, <1>16 DEF IndexAdd, UnindexWrite, FlagSave, DeactivateSave, StoreList
<1> QED BY <1>4, <1>5, <1>6, <1>7, <1>8, <1>9, <1>10, <1>11, <1>12, <1>13, <1>14, <1>15, <1>16
        DEF Continue

\* The roles, assignments, lists and index after a later step
LEMMA ContinueState ==
  ASSUME TypeOK, NEW p \in Handlers, Continue(p)
  PROVE  StateOK'
<1>1. HandlersOK'
  BY ContinueHandlers
<1>2. hs[p] \in HandlerStates /\ HandlerOK(hs[p])
  BY DEF TypeOK
<1>3. /\ roles' \in [Roles -> [perms : SUBSET Permissions, system : BOOLEAN,
                               active : BOOLEAN]]
      /\ patched' \subseteq Roles
  <2>1. CASE AddSave(p)
    <3>1. hs[p].role \in Roles /\ hs[p].perm \in Permissions
      BY <1>2, <2>1 DEF AddSave, At, HandlerOK
    <3>2. roles[hs[p].role].perms \cup {hs[p].perm} \in SUBSET Permissions
      BY <3>1 DEF TypeOK
    <3> QED BY <2>1, <3>1, <3>2, SaveType DEF AddSave, TypeOK
  <2>2. CASE RemoveSave(p)
    <3>1. hs[p].role \in Roles /\ hs[p].set \ {hs[p].perm} \in SUBSET Permissions
      BY <1>2, <2>2 DEF RemoveSave, At, HandlerOK
    <3> QED BY <2>2, <3>1, SaveType DEF RemoveSave, TypeOK
  <2>3. CASE UpdateSave(p)
    <3>1. hs[p].role \in Roles /\ hs[p].set \in SUBSET Permissions /\ hs[p].sys \in BOOLEAN
      BY <1>2, <2>3 DEF UpdateSave, At, HandlerOK, HandlerStates
    <3>2. (roles[hs[p].role].system \/ hs[p].sys) \in BOOLEAN
      OBVIOUS
    <3>3. CASE hs[p].fresh
      <4>1. roles' = [roles EXCEPT ![hs[p].role].perms = hs[p].set,
                                   ![hs[p].role].system = @ \/ hs[p].sys]
            /\ patched' = patched \cup {hs[p].role}
        BY <2>3, <3>3 DEF UpdateSave
      <4> QED BY <3>1, <3>2, <4>1 DEF TypeOK
    <3>4. CASE ~hs[p].fresh
      BY <2>3, <3>4 DEF UpdateSave, TypeOK
    <3> QED BY <3>3, <3>4
  <2>4. CASE FlagSave(p) \/ DeactivateSave(p)
    <3>1. hs[p].role \in Roles
      BY <1>2, <2>4 DEF FlagSave, DeactivateSave, At, HandlerOK
    <3>2. CASE FlagSave(p) BY <3>1, <3>2 DEF FlagSave, TypeOK
    <3>3. CASE DeactivateSave(p) BY <3>1, <3>3 DEF DeactivateSave, TypeOK
    <3> QED BY <2>4, <3>2, <3>3
  <2> QED BY <2>1, <2>2, <2>3, <2>4
          DEF Continue, TypeOK, AssignSave, AssignClear, IndexRead, IndexAdd, RemoveClear,
              UnindexRead, UnindexWrite, Targets, ClearOne, Lookup, Populate, StoreList
<1>4. holders' \subseteq Users \X Roles
  <2>1. CASE AssignSave(p)
    BY <1>2, <2>1 DEF AssignSave, At, HandlerOK, TypeOK
  <2> QED BY <2>1
          DEF Continue, TypeOK, AssignClear, IndexRead, IndexAdd, RemoveClear,
              UnindexRead, UnindexWrite, AddSave, RemoveSave, UpdateSave, FlagSave,
              DeactivateSave, Targets, ClearOne, Lookup, Populate, StoreList
<1>5. /\ cache' \in [Users -> [perms : SUBSET Permissions, ttl : 0..CacheTtl]]
      /\ \A v \in Users : cache'[v].ttl = 0 => cache'[v] = NotCached
  <2>1. CASE AssignClear(p) \/ RemoveClear(p)
    <3>1. hs[p].user \in Users
      BY <1>2, <2>1 DEF AssignClear, RemoveClear, At, HandlerOK
    <3> QED BY <2>1, <3>1, CacheType DEF AssignClear, RemoveClear
  <2>2. ASSUME NEW u \in Users, ClearOne(p, u)
        PROVE  <1>5!:
    BY <2>2, CacheType DEF ClearOne
  <2>3. CASE StoreList(p)
    <3>1. hs[p].user \in Users /\ hs[p].set \in SUBSET Permissions
      BY <1>2, <2>3 DEF StoreList, At, HandlerOK
    <3> QED BY <2>3, <3>1, CacheType DEF StoreList
  <2>4. CASE UNCHANGED cache
    BY <2>4 DEF TypeOK
  <2> QED BY <2>1, <2>2, <2>3, <2>4
          DEF Continue, AssignSave, IndexRead, IndexAdd, UnindexRead, UnindexWrite, AddSave,
              RemoveSave, UpdateSave, FlagSave, DeactivateSave, Targets, Lookup, Populate
<1>6. index' \in [Roles -> SUBSET Users]
  <2>1. CASE IndexAdd(p) \/ UnindexWrite(p)
    <3>1. hs[p].role \in Roles /\ hs[p].user \in Users /\ hs[p].set \subseteq Users
      BY <1>2, <2>1 DEF IndexAdd, UnindexWrite, At, HandlerOK
    <3> QED BY <2>1, <3>1 DEF IndexAdd, UnindexWrite, TypeOK
  <2> QED BY <2>1
          DEF Continue, TypeOK, AssignSave, AssignClear, IndexRead, RemoveClear,
              UnindexRead, AddSave, RemoveSave, UpdateSave, FlagSave, DeactivateSave,
              Targets, ClearOne, Lookup, Populate, StoreList
<1>7. faults' \in 0..MaxFaults
  BY DEF Continue, TypeOK, AssignSave, AssignClear, IndexRead, IndexAdd, RemoveClear,
         UnindexRead, UnindexWrite, AddSave, RemoveSave, UpdateSave, FlagSave,
         DeactivateSave, Targets, ClearOne, Lookup, Populate, StoreList
<1> QED BY <1>1, <1>3, <1>4, <1>5, <1>6, <1>7 DEF TypeOK, StateOK, HandlersOK

\* The history records pairs of a user and a role, whoever overtakes whom.
LEMMA HistoryStep == TypeOK /\ [Next]_vars => HistoryOK'
<1> SUFFICES ASSUME TypeOK, [Next]_vars PROVE HistoryOK'
  OBVIOUS
<1>1. raced' \subseteq Users \X Roles
  <2>1. ASSUME NEW p \in Handlers, NEW u \in Users, NEW r \in Roles, Changed(p, u, r)
        PROVE  raced' \subseteq Users \X Roles
    BY <2>1 DEF Changed, TypeOK
  <2>2. ASSUME NEW p \in Handlers, AssignSave(p)
        PROVE  raced' \subseteq Users \X Roles
    <3>1. hs[p].user \in Users /\ hs[p].role \in Roles
      BY <2>2 DEF AssignSave, At, TypeOK, HandlerOK
    <3> QED BY <2>1, <2>2, <3>1 DEF AssignSave, TypeOK
  <2>3. ASSUME NEW p \in Handlers, NEW u \in Users, NEW r \in Roles, RemoveRole(p, u, r)
        PROVE  raced' \subseteq Users \X Roles
    BY <2>1, <2>3 DEF RemoveRole
  <2>4. CASE UNCHANGED raced
    BY <2>4 DEF TypeOK
  <2> QED BY <2>2, <2>3, <2>4
          DEF Next, vars, Arrive, AssignRead, AddRead, RemoveRead, UpdateRead,
              DeactivateRead, Miss, Continue, AssignClear, IndexRead, IndexAdd,
              RemoveClear, UnindexRead, UnindexWrite, AddSave, RemoveSave, UpdateSave, FlagSave,
              DeactivateSave, Targets, ClearOne, Lookup, Populate, StoreList, CallFails, Tick,
              Restart
<1>2. alone' \in BOOLEAN
  <2>1. ASSUME NEW p \in Handlers, NEW s, Start(p, s)
        PROVE  alone' \in BOOLEAN
    BY <2>1, Zenon DEF Start
  <2>2. CASE UNCHANGED alone
    BY <2>2 DEF TypeOK
  <2> QED BY <2>1, <2>2
          DEF Next, vars, Arrive, AssignRead, RemoveRole, AddRead, RemoveRead, UpdateRead,
              DeactivateRead, Miss, Continue, AssignSave, AssignClear, IndexRead, IndexAdd,
              RemoveClear, UnindexRead, UnindexWrite, AddSave, RemoveSave, UpdateSave, FlagSave,
              DeactivateSave, Targets, ClearOne, Lookup, Populate, StoreList, CallFails, Tick,
              Restart
<1> QED BY <1>1, <1>2 DEF HistoryOK

LEMMA NextType == TypeOK /\ [Next]_vars => TypeOK'
<1> SUFFICES ASSUME TypeOK, [Next]_vars PROVE StateOK'
  BY HistoryStep DEF TypeOK, StateOK, HistoryOK, HandlersOK
<1>1. HandlersOK BY DEF TypeOK, HandlersOK
<1>2. ASSUME NEW p \in Handlers, CallFails(p)
      PROVE  StateOK'
  <2>1. HandlersOK'
    BY <1>1, <1>2, IdleType, GotoType DEF CallFails
  <2> QED BY <1>2, <2>1, BoundAssumption DEF CallFails, Fault, TypeOK, StateOK, HandlersOK
<1>3. CASE Tick
  <2>1. ASSUME NEW u \in Users
        PROVE  /\ cache'[u] \in [perms : SUBSET Permissions, ttl : 0..CacheTtl]
               /\ cache'[u].ttl = 0 => cache'[u] = NotCached
    <3>1. /\ cache[u] \in [perms : SUBSET Permissions, ttl : 0..CacheTtl]
          /\ NotCached \in [perms : SUBSET Permissions, ttl : 0..CacheTtl]
      BY BoundAssumption DEF TypeOK, NotCached
    <3>2. cache'[u] = IF cache[u].ttl <= 1 THEN NotCached ELSE [cache[u] EXCEPT !.ttl = @ - 1]
      BY <1>3 DEF Tick
    <3> QED BY <3>1, <3>2, BoundAssumption
  <2>2. cache' \in [Users -> [perms : SUBSET Permissions, ttl : 0..CacheTtl]]
    BY <1>3, <2>1 DEF Tick
  <2>3. HandlersOK'
    BY <1>1, <1>3 DEF Tick, HandlersOK, HandlerOK
  <2> QED BY <1>3, <2>1, <2>2, <2>3 DEF Tick, TypeOK, StateOK, HandlersOK
<1>4. CASE Restart
  <2>1. HandlersOK'
    BY <1>4, IdleType DEF Restart, HandlersOK, HandlerOK
  <2>2. NotCached \in [perms : SUBSET Permissions, ttl : 0..CacheTtl]
    BY BoundAssumption DEF NotCached
  <2>3. /\ cache' \in [Users -> [perms : SUBSET Permissions, ttl : 0..CacheTtl]]
        /\ \A v \in Users : cache'[v].ttl = 0 => cache'[v] = NotCached
        /\ index' \in [Roles -> SUBSET Users]
    BY <1>4, <2>2 DEF Restart, TypeOK
  <2> QED BY <1>4, <2>1, <2>3, BoundAssumption DEF Restart, Fault, TypeOK, StateOK, HandlersOK
<1>5. CASE UNCHANGED vars
  BY <1>1, <1>5 DEF vars, TypeOK, StateOK, HandlersOK, HandlerOK
<1> QED BY <1>2, <1>3, <1>4, <1>5, ArriveState, ContinueState DEF Next

\* Roles, assignments, lists, index and handlers keep their types, for any
\* number of users, roles, requests and failures and wherever the cache lives;
\* at each await a handler knows what its next step needs.
THEOREM CacheTyped == Spec => []TypeOK
<1> QED BY InitType, NextType, PTL DEF Spec

-----------------------------------------------------------------------------
(* Overlapping edits of a role *)

\* A copy nobody has outdated is the array as it is.  This is what makes the
\* versioned save of removePermission safe.
CopyInv ==
  \A p \in Handlers :
    hs[p].pc = "remove" /\ hs[p].fresh => hs[p].set \subseteq roles[hs[p].role].perms

\* A step that outdates the copies of a role may give it any permissions.
LEMMA SavedCopies ==
  ASSUME TypeOK, CopyInv, NEW p \in Handlers, NEW r \in Roles, NEW s,
         s.pc # "remove", hs' = [Outdated(r) EXCEPT ![p] = s],
         \A q \in Roles \ {r} : roles'[q].perms = roles[q].perms
  PROVE  CopyInv'
<1> SUFFICES ASSUME NEW q \in Handlers, hs'[q].pc = "remove", hs'[q].fresh
             PROVE  hs'[q].set \subseteq roles'[hs'[q].role].perms
  BY DEF CopyInv
<1>1. hs[q] \in HandlerStates /\ HandlerOK(hs[q])
  BY DEF TypeOK
<1>2. q # p /\ hs'[q] = Outdated(r)[q]
  BY DEF Outdated, TypeOK
<1>3. hs'[q] = hs[q] /\ hs[q].role # r
  BY <1>1, <1>2 DEF Outdated, HandlerStates
<1>4. hs[q].role \in Roles
  BY <1>1, <1>3 DEF HandlerOK
<1> QED BY <1>3, <1>4 DEF CopyInv

\* A step that moves one handler, and no permission, keeps the copies good if
\* that handler's is.
LEMMA MovedCopies ==
  ASSUME TypeOK, CopyInv, NEW p \in Handlers,
         \A q \in Handlers \ {p} : hs'[q] = hs[q],
         hs'[p].pc = "remove" => /\ hs'[p].role \in Roles
                                 /\ hs'[p].set \subseteq roles[hs'[p].role].perms,
         \A r \in Roles : roles'[r].perms = roles[r].perms
  PROVE  CopyInv'
<1> SUFFICES ASSUME NEW q \in Handlers, hs'[q].pc = "remove", hs'[q].fresh
             PROVE  hs'[q].set \subseteq roles'[hs'[q].role].perms
  BY DEF CopyInv
<1>1. CASE q = p
  BY <1>1
<1>2. CASE q # p
  <2>1. hs'[q] = hs[q]
    BY <1>2
  <2>2. hs[q].role \in Roles
    BY <2>1 DEF TypeOK, HandlerOK
  <2> QED BY <2>1, <2>2 DEF CopyInv
<1> QED BY <1>1, <1>2

LEMMA SavePermissionsCopies ==
  ASSUME TypeOK, CopyInv, NEW p \in Handlers, NEW r \in Roles, NEW perms,
         SavePermissions(p, r, perms)
  PROVE  CopyInv'
<1>1. [Idle EXCEPT !.pc = "targets", !.role = r].pc # "remove"
  BY DEF Idle
<1>2. \A q \in Roles \ {r} : roles'[q].perms = roles[q].perms
  BY DEF SavePermissions, TypeOK
<1>3. hs' = [Outdated(r) EXCEPT ![p] = [Idle EXCEPT !.pc = "targets", !.role = r]]
  BY DEF SavePermissions
<1> QED BY <1>1, <1>2, <1>3, SavedCopies

LEMMA CopiesStep == TypeOK /\ CopyInv /\ [Next]_vars => CopyInv'
<1> SUFFICES ASSUME TypeOK, CopyInv, [Next]_vars PROVE CopyInv'
  OBVIOUS
<1>1. ASSUME NEW p \in Handlers, Arrive(p)
      PROVE  CopyInv'
  <2>1. ASSUME NEW r \in Roles, NEW perm \in Permissions, RemoveRead(p, r, perm)
        PROVE  CopyInv'
    <3>1. /\ \A q \in Handlers \ {p} : hs'[q] = hs[q]
          /\ hs'[p].pc = "remove" => hs'[p].role = r /\ hs'[p].set = roles[r].perms
      BY <2>1 DEF RemoveRead, Start, Goto, TypeOK, Idle
    <3>2. \A q \in Roles : roles'[q].perms = roles[q].perms
      BY <2>1 DEF RemoveRead
    <3> QED BY <3>1, <3>2, MovedCopies
  <2>2. ASSUME ~\E r \in Roles, perm \in Permissions : RemoveRead(p, r, perm)
        PROVE  CopyInv'
    <3>1. \A q \in Roles : roles'[q].perms = roles[q].perms
      BY <1>1, <2>2 DEF Arrive, AssignRead, RemoveRole, AddRead, UpdateRead, DeactivateRead, Miss
    <3> DEFINE Moved == (\A q \in Handlers \ {p} : hs'[q] = hs[q]) /\ hs'[p].pc # "remove"
    <3> USE DEF Start, Goto, Idle, TypeOK
    <3>2. ASSUME NEW u \in Users, NEW r \in Roles, AssignRead(p, u, r) \/ RemoveRole(p, u, r)
          PROVE  Moved
      BY <3>2 DEF AssignRead, RemoveRole
    <3>3. ASSUME NEW r \in Roles, NEW perm \in Permissions, AddRead(p, r, perm)
          PROVE  Moved
      BY <3>3 DEF AddRead
    <3>4. ASSUME NEW r \in Roles, NEW perms \in SUBSET Permissions, NEW sys \in BOOLEAN,
                 UpdateRead(p, r, perms, sys)
          PROVE  Moved
      <4>1. PICK pc \in {"flag", "update"} :
              Goto(p, [Idle EXCEPT !.pc = pc, !.role = r, !.set = perms, !.sys = sys])
        BY <3>4 DEF UpdateRead
      <4> QED BY <4>1
    <3>5. ASSUME NEW r \in Roles, DeactivateRead(p, r)
          PROVE  Moved
      BY <3>5 DEF DeactivateRead
    <3>6. ASSUME NEW u \in Users, Miss(p, u)
          PROVE  Moved
      BY <3>6 DEF Miss
    <3>7. Moved
      BY <1>1, <2>2, <3>2, <3>3, <3>4, <3>5, <3>6 DEF Arrive
    <3> QED BY <3>1, <3>7, MovedCopies
  <2> QED BY <2>1, <2>2
<1>2. ASSUME NEW p \in Handlers, Continue(p)
      PROVE  CopyInv'
  <2>1. hs[p] \in HandlerStates /\ HandlerOK(hs[p]) /\ Idle.pc # "remove"
    BY DEF TypeOK, Idle
  <2>7. Goto(p, Idle) => (\A q \in Handlers \ {p} : hs'[q] = hs[q]) /\ hs'[p].pc # "remove"
    BY <2>1 DEF Goto, TypeOK
  <2>2. CASE AddSave(p)
    <3>1. hs[p].role \in Roles
      BY <2>1, <2>2 DEF AddSave, At, HandlerOK
    <3> QED BY <2>2, <3>1, SavePermissionsCopies DEF AddSave
  <2>3. CASE RemoveSave(p)
    <3>1. hs[p].role \in Roles
      BY <2>1, <2>3 DEF RemoveSave, At, HandlerOK
    <3>2. CASE hs[p].fresh
      BY <2>3, <3>1, <3>2, SavePermissionsCopies DEF RemoveSave
    <3>3. CASE ~hs[p].fresh
      BY <2>3, <2>7, <3>3, MovedCopies DEF RemoveSave
    <3> QED BY <3>2, <3>3
  <2>4. CASE UpdateSave(p)
    <3>1. hs[p].role \in Roles
      BY <2>1, <2>4 DEF UpdateSave, At, HandlerOK
    <3>2. CASE hs[p].fresh
      <4>1. \A q \in Roles \ {hs[p].role} : roles'[q].perms = roles[q].perms
        BY <2>4, <3>2 DEF UpdateSave, TypeOK
      <4>2. hs' = [Outdated(hs[p].role) EXCEPT ![p] = Idle]
        BY <2>4, <3>2 DEF UpdateSave
      <4> QED BY <2>1, <3>1, <4>1, <4>2, SavedCopies
    <3>3. CASE ~hs[p].fresh
      BY <2>4, <2>7, <3>3, MovedCopies DEF UpdateSave
    <3> QED BY <3>2, <3>3
  <2>5. CASE FlagSave(p) \/ DeactivateSave(p)
    <3>1. \A q \in Roles : roles'[q].perms = roles[q].perms
      <4>1. CASE FlagSave(p) BY <4>1 DEF FlagSave, TypeOK
      <4>2. CASE DeactivateSave(p) BY <4>2 DEF DeactivateSave, TypeOK
      <4> QED BY <2>5, <4>1, <4>2
    <3>2. Goto(p, Idle)
      BY <2>5 DEF FlagSave, DeactivateSave
    <3> QED BY <2>7, <3>1, <3>2, MovedCopies
  <2>6. ASSUME ~AddSave(p), ~RemoveSave(p), ~UpdateSave(p), ~FlagSave(p), ~DeactivateSave(p)
        PROVE  CopyInv'
    <3>1. \A q \in Roles : roles'[q].perms = roles[q].perms
      BY <1>2, <2>6 DEF Continue, AssignSave, AssignClear, IndexRead, IndexAdd, RemoveClear,
                        UnindexRead, UnindexWrite, Targets, ClearOne, Lookup, Populate, StoreList
    <3>2. (\A q \in Handlers \ {p} : hs'[q] = hs[q]) /\ hs'[p].pc # "remove"
      BY <1>2, <2>1, <2>6
      DEF Continue, AssignSave, AssignClear, IndexRead, IndexAdd, RemoveClear, UnindexRead,
          UnindexWrite, Targets, ClearOne, Lookup, Populate, StoreList, At, Idle, Goto, TypeOK, HandlerStates
    <3> QED BY <3>1, <3>2, MovedCopies
  <2> QED BY <2>2, <2>3, <2>4, <2>5, <2>6
<1>3. ASSUME NEW p \in Handlers, CallFails(p)
      PROVE  CopyInv'
  <2>1. (\A q \in Handlers \ {p} : hs'[q] = hs[q]) /\ hs'[p].pc # "remove" /\ UNCHANGED roles
    BY <1>3 DEF CallFails, Goto, Idle, TypeOK
  <2> QED BY <2>1, MovedCopies
<1>4. CASE Tick \/ UNCHANGED vars
  BY <1>4 DEF Tick, vars, CopyInv
<1>5. CASE Restart
  BY <1>5 DEF Restart, CopyInv, Idle
<1> QED BY <1>1, <1>2, <1>3, <1>4, <1>5 DEF Next

NoResurrectionStep ==
  \A r \in Roles, perm \in Permissions :
    perm \notin roles[r].perms /\ perm \in roles'[r].perms =>
      \E p \in Handlers : /\ hs[p].role = r
                          /\ \/ hs[p].pc = "add" /\ hs[p].perm = perm
                             \/ hs[p].pc = "update" /\ perm \in hs[p].set

LEMMA NothingResurrected == TypeOK /\ CopyInv /\ [Next]_vars => NoResurrectionStep
<1> SUFFICES ASSUME TypeOK, CopyInv, [Next]_vars, NEW r \in Roles, NEW perm \in Permissions,
                    perm \notin roles[r].perms, perm \in roles'[r].perms
             PROVE  \E p \in Handlers : /\ hs[p].role = r
                                        /\ \/ hs[p].pc = "add" /\ hs[p].perm = perm
                                           \/ hs[p].pc = "update" /\ perm \in hs[p].set
  BY DEF NoResurrectionStep
<1>1. roles' # roles
  OBVIOUS
<1>2. PICK p \in Handlers : AddSave(p) \/ RemoveSave(p) \/ UpdateSave(p) \/ FlagSave(p)
                            \/ DeactivateSave(p)
  BY <1>1 DEF Next, vars, Arrive, Continue, CallFails, Tick, Restart, AssignRead, RemoveRole,
              AddRead, RemoveRead, UpdateRead, DeactivateRead, Miss, AssignSave, AssignClear,
              IndexRead, IndexAdd, RemoveClear, UnindexRead, UnindexWrite, Targets, ClearOne,
              Lookup, Populate, StoreList
<1>3. hs[p].role \in Roles
  BY <1>2 DEF TypeOK, HandlerOK, AddSave, RemoveSave, UpdateSave, FlagSave, DeactivateSave, At
<1>4. CASE AddSave(p)
  BY <1>3, <1>4 DEF AddSave, At, SavePermissions, TypeOK
<1>5. CASE RemoveSave(p)
  <2>1. hs[p].fresh /\ roles' = [roles EXCEPT ![hs[p].role].perms = hs[p].set \ {hs[p].perm}]
    BY <1>1, <1>5 DEF RemoveSave, SavePermissions
  <2>2. hs[p].set \subseteq roles[hs[p].role].perms
    BY <1>5, <2>1 DEF CopyInv, RemoveSave, At
  <2> QED BY <1>3, <2>1, <2>2 DEF TypeOK
<1>6. CASE UpdateSave(p)
  BY <1>1, <1>3, <1>6 DEF UpdateSave, At, TypeOK
<1>7. CASE FlagSave(p) \/ DeactivateSave(p)
  BY <1>3, <1>7 DEF FlagSave, DeactivateSave, TypeOK
<1> QED BY <1>2, <1>4, <1>5, <1>6, <1>7

\* However many edits of one role overlap and fail, a permission comes back to
\* it only by a request that grants it.
THEOREM RemovedStaysRemoved == Spec => NoResurrection
<1>1. Init => CopyInv
  BY DEF Init, CopyInv, Idle
<1>2. TypeOK /\ CopyInv /\ [Next]_vars => [NoResurrectionStep]_vars
  BY NothingResurrected
<1>3. Spec => []CopyInv
  BY <1>1, CopiesStep, CacheTyped, PTL DEF Spec
<1>4. Spec => [][NoResurrectionStep]_vars
  BY <1>2, <1>3, CacheTyped, PTL DEF Spec
<1> QED BY <1>4 DEF NoResurrection, NoResurrectionStep

-----------------------------------------------------------------------------
(* The reverse index *)

\* Nobody comes between the cache calls of a request: they are calls of this
\* process, or there is one request at a time.
Undisturbed == ~RemoteCache \/ \E h : Handlers = {h}

\* The assignments from before this process started, unless a remote cache kept
\* the index of them
Forgotten == IF RemoteCache THEN {} ELSE Seeded

\* For the pair the index names holders only, and misses only what this process
\* never knew.
Agrees(u, r) ==
  /\ u \in index[r] => <<u, r>> \in holders
  /\ <<u, r>> \in holders /\ u \notin index[r] => <<u, r>> \in Forgotten

\* A pair that no two requests changed at once: one request at most has yet to
\* write it to the index, and it writes what the database says.
PairOK(u, r) ==
  /\ \A p, q \in Handlers : Indexing(p, u, r) /\ Indexing(q, u, r) => p = q
  /\ \A p \in Handlers :
       Indexing(p, u, r) => (hs[p].pc \in Adding <=> <<u, r>> \in holders)
  /\ (\A p \in Handlers : ~Indexing(p, u, r)) => Agrees(u, r)

\* One request at a time is between its cache calls, so the list that it writes
\* back is the one it has read.
TurnOK ==
  /\ \A p, q \in Handlers : hs[p].pc \in MidTurn /\ hs[q].pc \in MidTurn => p = q
  /\ \A p \in Handlers :
       hs[p].pc \in {"indexAdd", "unindexWrite"} => hs[p].set = index[hs[p].role]

PairInv ==
  faults = 0 =>
    /\ TurnOK
    /\ \A u \in Users, r \in Roles : <<u, r>> \notin raced => PairOK(u, r)

LEMMA PairInit == Init => PairInv
<1> SUFFICES ASSUME Init PROVE TurnOK /\ \A u \in Users, r \in Roles : PairOK(u, r)
  BY DEF PairInv
<1>1. \A p \in Handlers : hs[p].pc = "idle"
  BY DEF Init, Idle
<1>2. TurnOK
  BY <1>1 DEF TurnOK, MidTurn
<1>3. \A u \in Users, r \in Roles : Agrees(u, r)
  BY DEF Init, Agrees, Forgotten
<1> QED BY <1>1, <1>2, <1>3 DEF PairOK, Indexing, Adding, Removing

\* What one handler does touches no other but for a copy of a role that it makes
\* out of date.
Alike(s, t) == s.pc = t.pc /\ s.user = t.user /\ s.role = t.role /\ s.set = t.set

LEMMA OthersFrame ==
  ASSUME TypeOK, NEW p \in Handlers, Arrive(p) \/ Continue(p), NEW q \in Handlers, q # p
  PROVE  Alike(hs'[q], hs[q])
<1> USE DEF TypeOK, Goto, Start, Alike
<1>1. CASE Arrive(p)
  BY <1>1 DEF Arrive, AssignRead, RemoveRole, AddRead, RemoveRead, UpdateRead, DeactivateRead, Miss
<1>2. CASE Continue(p)
  <2>1. \A r \in Roles : \A s : hs' = [Outdated(r) EXCEPT ![p] = s] => Alike(hs'[q], hs[q])
    BY DEF Outdated, HandlerStates
  <2>2. hs[p].pc \in {"add", "remove", "update"} => hs[p].role \in Roles
    BY DEF HandlerOK
  <2>3. CASE AddSave(p) \/ RemoveSave(p) \/ UpdateSave(p)
    BY <2>1, <2>2, <2>3 DEF AddSave, RemoveSave, UpdateSave, SavePermissions, At
  <2>4. CASE ~(AddSave(p) \/ RemoveSave(p) \/ UpdateSave(p))
    BY <1>2, <2>4
    DEF Continue, AssignSave, AssignClear, IndexRead, IndexAdd, RemoveClear, UnindexRead,
        UnindexWrite, FlagSave, DeactivateSave, Targets, ClearOne, Lookup, Populate, StoreList
  <2> QED BY <2>3, <2>4
<1> QED BY <1>1, <1>2

\* What a step of a request is to assignments and index: nothing,
Still(p) ==
  /\ UNCHANGED <<holders, index, raced>>
  /\ \/ hs[p].pc \notin Adding \cup Removing /\ hs'[p].pc \notin Adding \cup Removing
     \/ /\ hs'[p].user = hs[p].user /\ hs'[p].role = hs[p].role
        /\ \/ hs[p].pc \in Adding /\ hs'[p].pc \in Adding
           \/ hs[p].pc \in Removing /\ hs'[p].pc \in Removing
  /\ hs'[p].pc \in {"indexAdd", "unindexWrite"} => hs'[p].set = index[hs'[p].role]
  /\ hs'[p].pc \in MidTurn => hs[p].pc \in MidTurn \/ Turn(p)

\* the change of an assignment,
Begins(p, u, r) ==
  /\ Changed(p, u, r) /\ UNCHANGED index
  /\ hs[p].pc \notin Adding \cup Removing
  /\ hs'[p].user = u /\ hs'[p].role = r
  /\ \/ hs'[p].pc = "assignClear" /\ holders' = holders \cup {<<u, r>>}
     \/ hs'[p].pc = "removeClear" /\ holders' = holders \ {<<u, r>>}

\* or the writing of it to the index.
Ends(p) ==
  /\ UNCHANGED <<holders, raced>> /\ Turn(p)
  /\ hs[p].pc \in Adding \cup Removing /\ hs'[p].pc = "idle"
  /\ \A v \in Users, q \in Roles :
       v \in index'[q] <=> IF v = hs[p].user /\ q = hs[p].role
                           THEN hs[p].pc \in Adding ELSE v \in index[q]

LEMMA ArriveKind ==
  ASSUME TypeOK, NEW p \in Handlers, Arrive(p)
  PROVE  Still(p) \/ \E u \in Users, r \in Roles : Begins(p, u, r)
<1> USE DEF Start, Goto, At, Idle, TypeOK, Still, Adding, Removing, MidTurn
<1>1. ASSUME NEW u \in Users, NEW r \in Roles, AssignRead(p, u, r)
      PROVE  Still(p)
  BY <1>1 DEF AssignRead
<1>2. ASSUME NEW u \in Users, NEW r \in Roles, RemoveRole(p, u, r)
      PROVE  Begins(p, u, r)
  BY <1>2 DEF RemoveRole, Begins
<1>3. ASSUME NEW r \in Roles, NEW perm \in Permissions, AddRead(p, r, perm)
      PROVE  Still(p)
  BY <1>3 DEF AddRead
<1>4. ASSUME NEW r \in Roles, NEW perm \in Permissions, RemoveRead(p, r, perm)
      PROVE  Still(p)
  <2>1. PICK pc \in {"remove", "targets"} : hs'[p].pc = pc
    BY <1>4 DEF RemoveRead
  <2> QED BY <1>4, <2>1 DEF RemoveRead
<1>5. ASSUME NEW r \in Roles, NEW perms \in SUBSET Permissions, NEW sys \in BOOLEAN,
             UpdateRead(p, r, perms, sys)
      PROVE  Still(p)
  <2>1. PICK pc \in {"flag", "update"} : hs'[p].pc = pc
    BY <1>5 DEF UpdateRead
  <2> QED BY <1>5, <2>1 DEF UpdateRead
<1>6. ASSUME NEW r \in Roles, DeactivateRead(p, r)
      PROVE  Still(p)
  BY <1>6 DEF DeactivateRead
<1>7. ASSUME NEW u \in Users, Miss(p, u)
      PROVE  Still(p)
  BY <1>7 DEF Miss
<1> QED BY <1>1, <1>2, <1>3, <1>4, <1>5, <1>6, <1>7 DEF Arrive

\* The saves of RolesService leave their handler idle or at the invalidation.
LEMMA SavedPc ==
  ASSUME TypeOK, NEW p \in Handlers,
         AddSave(p) \/ RemoveSave(p) \/ UpdateSave(p) \/ FlagSave(p) \/ DeactivateSave(p)
  PROVE  hs'[p].pc \in {"idle", "targets"}
<1> USE DEF Goto
<1>1. hs \in [Handlers -> HandlerStates]
  BY DEF TypeOK
<1>2. \A q : \A s : hs' = [Outdated(q) EXCEPT ![p] = s] => hs'[p] = s
  BY DEF Outdated
<1>3. Goto(p, Idle) => hs'[p].pc = "idle"
  BY <1>1 DEF Idle
<1>4. \A r, perms : SavePermissions(p, r, perms) => hs'[p].pc = "targets"
  <2> SUFFICES ASSUME NEW r, NEW perms, SavePermissions(p, r, perms)
               PROVE  hs'[p].pc = "targets"
    OBVIOUS
  <2>1. hs'[p] = [Idle EXCEPT !.pc = "targets", !.role = r]
    BY <1>2 DEF SavePermissions
  <2> QED BY <2>1 DEF Idle
<1>5. CASE AddSave(p) BY <1>4, <1>5 DEF AddSave
<1>6. CASE RemoveSave(p) BY <1>3, <1>4, <1>6 DEF RemoveSave
<1>7. CASE UpdateSave(p)
  <2>1. Idle.pc = "idle" BY DEF Idle
  <2> QED BY <1>2, <1>3, <1>7, <2>1 DEF UpdateSave
<1>8. CASE FlagSave(p) \/ DeactivateSave(p) BY <1>3, <1>8 DEF FlagSave, DeactivateSave
<1> QED BY <1>5, <1>6, <1>7, <1>8

LEMMA ContinueKind ==
  ASSUME TypeOK, TurnOK, NEW p \in Handlers, Continue(p)
  PROVE  Still(p) \/ Ends(p) \/ \E u \in Users, r \in Roles : Begins(p, u, r)
<1>1. hs \in [Handlers -> HandlerStates] /\ HandlerOK(hs[p]) /\ index \in [Roles -> SUBSET Users]
  BY DEF TypeOK
<1> DEFINE u == hs[p].user
           r == hs[p].role
<1> USE DEF Goto, At
<1>2. CASE AssignSave(p)
  <2>1. hs[p].pc = "assign" /\ u \in Users /\ r \in Roles
    BY <1>1, <1>2 DEF AssignSave, HandlerOK
  <2>2. CASE holders' = holders
    BY <1>1, <1>2, <2>1, <2>2 DEF AssignSave, Idle, Still, Adding, Removing, MidTurn
  <2>3. CASE holders' # holders
    <3>1. hs'[p].pc = "assignClear" /\ hs'[p].user = u /\ hs'[p].role = r
      BY <1>1, <1>2, <2>3 DEF AssignSave, HandlerStates
    <3>2. Begins(p, u, r)
      BY <1>2, <2>1, <2>3, <3>1 DEF AssignSave, Begins, Adding, Removing
    <3> QED BY <2>1, <3>2
  <2> QED BY <2>2, <2>3
<1>3. CASE AssignClear(p) \/ RemoveClear(p)
  <2>1. UNCHANGED <<holders, index, raced>> /\ Turn(p)
    BY <1>3 DEF AssignClear, RemoveClear, CachePcs
  <2>2. /\ hs'[p].user = u /\ hs'[p].role = r
        /\ \/ hs[p].pc = "assignClear" /\ hs'[p].pc = "indexRead"
           \/ hs[p].pc = "removeClear" /\ hs'[p].pc = "unindexRead"
    BY <1>1, <1>3 DEF AssignClear, RemoveClear, HandlerStates
  <2> QED BY <2>1, <2>2 DEF Still, Adding, Removing
<1>4. CASE IndexRead(p) /\ u \in index[r]
  <2>1. /\ UNCHANGED <<holders, index, raced>> /\ Turn(p)
        /\ hs[p].pc = "indexRead" /\ hs'[p].pc = "idle"
    BY <1>1, <1>4 DEF IndexRead, Idle, CachePcs
  <2> QED BY <1>4, <2>1 DEF Ends, Adding
<1>5. CASE (IndexRead(p) /\ u \notin index[r]) \/ UnindexRead(p)
  <2>1. UNCHANGED <<holders, index, raced>> /\ Turn(p)
    BY <1>5 DEF IndexRead, UnindexRead, CachePcs
  <2>2. /\ hs'[p].user = u /\ hs'[p].role = r /\ hs'[p].set = index[r]
        /\ \/ hs[p].pc = "indexRead" /\ hs'[p].pc = "indexAdd"
           \/ hs[p].pc = "unindexRead" /\ hs'[p].pc = "unindexWrite"
    <3>1. CASE IndexRead(p) /\ u \notin index[r]
      BY <1>1, <3>1 DEF IndexRead, HandlerStates
    <3>2. CASE UnindexRead(p)
      BY <1>1, <3>2 DEF UnindexRead, HandlerStates
    <3> QED BY <1>5, <3>1, <3>2
  <2> QED BY <2>1, <2>2 DEF Still, Adding, Removing
<1>6. CASE IndexAdd(p) \/ UnindexWrite(p)
  <2>1. UNCHANGED <<holders, raced>> /\ Turn(p) /\ u \in Users /\ r \in Roles
    BY <1>1, <1>6 DEF IndexAdd, UnindexWrite, CachePcs, HandlerOK
  <2>2. hs'[p].pc = "idle" /\ hs[p].set = index[r]
    BY <1>1, <1>6 DEF IndexAdd, UnindexWrite, Idle, TurnOK
  <2>3. CASE IndexAdd(p)
    <3>1. hs[p].pc = "indexAdd" /\ index' = [index EXCEPT ![r] = index[r] \cup {u}]
      BY <2>2, <2>3 DEF IndexAdd
    <3> QED BY <1>1, <2>1, <2>2, <3>1 DEF Ends, Adding
  <2>4. CASE UnindexWrite(p)
    <3>1. hs[p].pc = "unindexWrite" /\ index' = [index EXCEPT ![r] = index[r] \ {u}]
      BY <2>2, <2>4 DEF UnindexWrite
    <3> QED BY <1>1, <2>1, <2>2, <3>1 DEF Ends, Adding, Removing
  <2> QED BY <1>6, <2>3, <2>4
<1>7. CASE AddSave(p) \/ RemoveSave(p) \/ UpdateSave(p) \/ FlagSave(p) \/ DeactivateSave(p)
  <2>1. hs[p].pc \notin Adding \cup Removing /\ UNCHANGED <<holders, index, raced>>
    BY <1>7 DEF AddSave, RemoveSave, UpdateSave, FlagSave, DeactivateSave, Adding, Removing
  <2>2. hs'[p].pc \in {"idle", "targets"}
    BY <1>1, <1>7, SavedPc DEF AddSave, RemoveSave, UpdateSave, FlagSave, DeactivateSave
  <2> QED BY <2>1, <2>2 DEF Still, Adding, Removing, MidTurn
<1>8. CASE Targets(p) \/ (\E v \in Users : ClearOne(p, v)) \/ Lookup(p) \/ Populate(p)
           \/ StoreList(p)
  <2>1. hs[p].pc \notin Adding \cup Removing /\ UNCHANGED <<holders, index, raced>>
    BY <1>8 DEF Targets, ClearOne, Lookup, Populate, StoreList, Adding, Removing
  <2>2. hs'[p].pc \in {"idle", "populate", "store"} \/ (hs'[p].pc = "clear" /\ Turn(p))
    <3>1. CASE Targets(p) BY <1>1, <3>1 DEF Targets, Idle, HandlerStates, CachePcs
    <3>2. ASSUME NEW v \in Users, ClearOne(p, v)
          PROVE  <2>2!:
      BY <1>1, <3>2 DEF ClearOne, Idle, HandlerStates, CachePcs
    <3>3. CASE Lookup(p) BY <1>1, <3>3 DEF Lookup, HandlerStates
    <3>4. CASE Populate(p) BY <1>1, <3>4 DEF Populate, HandlerStates
    <3>5. CASE StoreList(p) BY <1>1, <3>5 DEF StoreList, Idle
    <3> QED BY <1>8, <3>1, <3>2, <3>3, <3>4, <3>5
  <2> QED BY <2>1, <2>2 DEF Still, Adding, Removing, MidTurn
<1> QED BY <1>2, <1>3, <1>4, <1>5, <1>6, <1>7, <1>8 DEF Continue

\* Before the first failure no step was one.
LEMMA FaultFrame ==
  ASSUME TypeOK, [Next]_vars, faults' = 0
  PROVE  faults = 0 /\ ~Fault
<1>1. ~Fault
  BY BoundAssumption DEF Fault, TypeOK
<1>2. Fault \/ faults' = faults
  BY DEF Next, vars, Arrive, AssignRead, RemoveRole, AddRead, RemoveRead, UpdateRead,
         DeactivateRead, Miss, Continue, AssignSave, AssignClear, IndexRead, IndexAdd,
         RemoveClear, UnindexRead, UnindexWrite, AddSave, RemoveSave, UpdateSave, FlagSave,
         DeactivateSave, Targets, ClearOne, Lookup, Populate, StoreList, CallFails, Tick, Restart
<1> QED BY <1>1, <1>2

\* A request that has the turn finds no other between its cache calls.
LEMMA Alone ==
  ASSUME Undisturbed, NEW p \in Handlers, Turn(p)
  PROVE  \A q \in Handlers \ {p} : hs[q].pc \notin MidTurn
  BY DEF Undisturbed, Turn

\* The step of one request, the others as they were, and nobody between their
\* cache calls when it writes to the index
LEMMA TurnStep ==
  ASSUME Undisturbed, TurnOK, NEW p \in Handlers,
         \A q \in Handlers \ {p} : Alike(hs'[q], hs[q]),
         Still(p) \/ Ends(p) \/ \E u \in Users, r \in Roles : Begins(p, u, r)
  PROVE  TurnOK'
<1>1. hs'[p].pc \in MidTurn => \A q \in Handlers \ {p} : hs'[q].pc \notin MidTurn
  BY Alone DEF Still, Ends, Begins, MidTurn, TurnOK, Alike
<1>2. \A x, y \in Handlers : hs'[x].pc \in MidTurn /\ hs'[y].pc \in MidTurn => x = y
  BY <1>1 DEF TurnOK, Alike
<1>3. ASSUME NEW q \in Handlers, hs'[q].pc \in {"indexAdd", "unindexWrite"}
      PROVE  hs'[q].set = index'[hs'[q].role]
  <2>1. CASE q = p
    BY <1>3, <2>1 DEF Still, Ends, Begins
  <2>2. CASE q # p
    <3>1. Alike(hs'[q], hs[q])
      BY <2>2
    <3>2. hs[q].set = index[hs[q].role] /\ hs[q].pc \in MidTurn
      BY <1>3, <3>1 DEF TurnOK, Alike, MidTurn
    <3>3. UNCHANGED index
      BY <2>2, <3>2, Alone DEF Still, Ends, Begins
    <3> QED BY <3>1, <3>2, <3>3 DEF Alike
  <2> QED BY <2>1, <2>2
<1> QED BY <1>2, <1>3 DEF TurnOK

LEMMA PairStep ==
  ASSUME NEW p \in Handlers, NEW u \in Users, NEW r \in Roles,
         <<u, r>> \notin raced => PairOK(u, r), <<u, r>> \notin raced',
         \A q \in Handlers \ {p} : Alike(hs'[q], hs[q]),
         Still(p) \/ Ends(p) \/ \E v \in Users, s \in Roles : Begins(p, v, s)
  PROVE  PairOK(u, r)'
<1>1. \A q \in Handlers \ {p} : /\ Indexing(q, u, r)' <=> Indexing(q, u, r)
                                /\ hs'[q].pc \in Adding <=> hs[q].pc \in Adding
  BY DEF Indexing, Alike
<1>2. CASE Still(p)
  <2>1. PairOK(u, r)
    BY <1>2 DEF Still
  <2>2. /\ Indexing(p, u, r)' <=> Indexing(p, u, r)
        /\ Indexing(p, u, r) => (hs'[p].pc \in Adding <=> hs[p].pc \in Adding)
    BY <1>2 DEF Still, Indexing, Adding, Removing
  <2>3. Agrees(u, r)' <=> Agrees(u, r)
    BY <1>2 DEF Still, Agrees, Forgotten
  <2> QED BY <1>1, <1>2, <2>1, <2>2, <2>3 DEF PairOK, Still
<1>3. CASE Ends(p)
  <2>1. PairOK(u, r) /\ ~Indexing(p, u, r)' /\ UNCHANGED holders
    BY <1>3 DEF Ends, Indexing, Adding, Removing
  <2>2. CASE Indexing(p, u, r)
    <3>1. u \in index'[r] <=> <<u, r>> \in holders
      BY <1>3, <2>1, <2>2 DEF Ends, PairOK, Indexing
    <3>2. Agrees(u, r)'
      BY <2>1, <3>1 DEF Agrees
    <3> QED BY <1>1, <2>1, <3>2 DEF PairOK
  <2>3. CASE ~Indexing(p, u, r)
    <3>1. u \in index'[r] <=> u \in index[r]
      BY <1>3, <2>3 DEF Ends, Indexing
    <3>2. Agrees(u, r)' <=> Agrees(u, r)
      BY <2>1, <3>1 DEF Agrees, Forgotten
    <3> QED BY <1>1, <2>1, <2>3, <3>2 DEF PairOK
  <2> QED BY <2>2, <2>3
<1>4. ASSUME NEW v \in Users, NEW s \in Roles, Begins(p, v, s)
      PROVE  PairOK(u, r)'
  <2>1. <<u, r>> \notin raced /\ ~Indexing(p, u, r)
    BY <1>4 DEF Begins, Changed, Indexing
  <2>2. PairOK(u, r)
    BY <2>1
  <2>3. CASE v = u /\ s = r
    <3>1. \A q \in Handlers \ {p} : ~Indexing(q, u, r)
      BY <1>4, <2>3 DEF Begins, Changed
    <3>2. Indexing(p, u, r)' /\ (hs'[p].pc \in Adding <=> <<u, r>> \in holders')
      BY <1>4, <2>3 DEF Begins, Indexing, Adding, Removing
    <3> QED BY <1>1, <3>1, <3>2 DEF PairOK
  <2>4. CASE ~(v = u /\ s = r)
    <3>1. ~Indexing(p, u, r)' /\ UNCHANGED index /\ (<<u, r>> \in holders' <=> <<u, r>> \in holders)
      BY <1>4, <2>4 DEF Begins, Indexing
    <3>2. Agrees(u, r)' <=> Agrees(u, r)
      BY <3>1 DEF Agrees, Forgotten
    <3> QED BY <1>1, <2>1, <2>2, <3>1, <3>2 DEF PairOK
  <2> QED BY <2>3, <2>4
<1> QED BY <1>2, <1>3, <1>4

LEMMA PairInvStep ==
  ASSUME Undisturbed
  PROVE  TypeOK /\ PairInv /\ [Next]_vars => PairInv'
<1> SUFFICES ASSUME TypeOK, PairInv, [Next]_vars, faults' = 0
             PROVE  TurnOK' /\ \A u \in Users, r \in Roles : <<u, r>> \notin raced' => PairOK(u, r)'
  BY DEF PairInv
<1>1. /\ ~Fault /\ TurnOK
      /\ \A u \in Users, r \in Roles : <<u, r>> \notin raced => PairOK(u, r)
  BY FaultFrame DEF PairInv
<1>2. CASE Tick \/ UNCHANGED vars
  <2>1. UNCHANGED <<holders, index, hs, raced>>
    BY <1>2 DEF Tick, vars
  <2> QED BY <1>1, <2>1 DEF TurnOK, PairOK, Indexing, Agrees, Forgotten
<1>3. ASSUME NEW p \in Handlers, Arrive(p) \/ Continue(p)
      PROVE  TurnOK' /\ \A u \in Users, r \in Roles : <<u, r>> \notin raced' => PairOK(u, r)'
  <2>1. \A q \in Handlers \ {p} : Alike(hs'[q], hs[q])
    BY <1>3, OthersFrame
  <2>2. Still(p) \/ Ends(p) \/ \E u \in Users, r \in Roles : Begins(p, u, r)
    BY <1>1, <1>3, ArriveKind, ContinueKind
  <2> QED BY <1>1, <2>1, <2>2, TurnStep, PairStep
<1> QED BY <1>1, <1>2, <1>3 DEF Next, CallFails, Restart

LEMMA PairInvAlways ==
  ASSUME Undisturbed
  PROVE  Spec => []PairInv
  BY PairInit, PairInvStep, CacheTyped, PTL DEF Spec

\* With the in-memory cache, however many requests overlap and in whatever order
\* the answers of the database come back to them, or with one request at a time,
\* and until something fails: the index names for a role only users who hold it,
\* and every one of them to whom this process has assigned it, but for a pair
\* that a request has changed and not yet written to the index, and for one that
\* two requests changed at once.
THEOREM IndexFollowsHolders ==
  ASSUME Undisturbed
  PROVE  Spec => [](faults = 0 =>
                      \A u \in Users, r \in Roles :
                        /\ <<u, r>> \notin raced
                        /\ \A p \in Handlers : ~Indexing(p, u, r)
                        => Agrees(u, r))
<1>1. PairInv => (faults = 0 =>
                    \A u \in Users, r \in Roles :
                      /\ <<u, r>> \notin raced
                      /\ \A p \in Handlers : ~Indexing(p, u, r)
                      => Agrees(u, r))
  BY DEF PairInv, PairOK
<1> QED BY <1>1, PairInvAlways, PTL

\* In a database that this process filled, or with a remote cache that knows it,
\* and until something fails: between requests the reverse index names exactly
\* the holders of each role, but for pairs that two requests changed at once,
\* however many users, roles and, with the in-memory cache, requests in flight
\* there are.
THEOREM IndexNamesHolders ==
  ASSUME Undisturbed, Forgotten = {}
  PROVE  Spec => [](faults = 0 => IndexExact)
<1>1. PairInv => (faults = 0 => IndexExact)
  <2> SUFFICES ASSUME PairInv, faults = 0, Quiet, NEW u \in Users, NEW r \in Roles,
                      <<u, r>> \notin raced
               PROVE  u \in index[r] <=> r \in Held(u)
    BY DEF IndexExact
  <2>1. \A p \in Handlers : ~Indexing(p, u, r)
    BY DEF Quiet, Indexing, Adding, Removing
  <2>2. Agrees(u, r)
    BY <2>1 DEF PairInv, PairOK
  <2> QED BY <2>2 DEF Agrees, Held
<1> QED BY <1>1, PairInvAlways, PTL

-----------------------------------------------------------------------------
(* One request at a time *)

Serial(h) == Handlers = {h} /\ Forgotten = {}

HoldersOf(r) == {u \in Users : r \in Held(u)}
Busy(h) == hs[h].pc \in Adding \cup Removing

\* Without failures the request moves on, or time passes.
LEMMA SerialStep ==
  ASSUME NEW h, Serial(h), TypeOK, [Next]_vars, faults' = 0
  PROVE  Arrive(h) \/ Continue(h) \/ Tick \/ UNCHANGED vars
  BY FaultFrame DEF Serial, Next, CallFails, Restart

\* There is no other request to come too early.
LoneInv == raced = {} /\ alone

LEMMA LoneAlways ==
  ASSUME NEW h, Serial(h)
  PROVE  Spec => []LoneInv
<1>1. Init => LoneInv
  BY DEF Init, LoneInv
<1>2. LoneInv /\ [Next]_vars => LoneInv'
  <2> SUFFICES ASSUME LoneInv, [Next]_vars PROVE raced' = {} /\ alone'
    BY DEF LoneInv
  <2>1. \A p \in Handlers : Handlers \ {p} = {}
    BY DEF Serial
  <2>2. \A p \in Handlers : \A u, r : Changed(p, u, r) => raced' = raced
    BY <2>1 DEF Changed
  <2>3. \A p \in Handlers : \A s : Start(p, s) => alone'
    BY <2>1, Zenon DEF Start, LoneInv
  <2>4. raced' = raced
    BY <2>2
    DEF Next, vars, Arrive, AssignRead, RemoveRole, AddRead, RemoveRead, UpdateRead,
        DeactivateRead, Miss, Continue, AssignSave, AssignClear, IndexRead, IndexAdd,
        RemoveClear, UnindexRead, UnindexWrite, AddSave, RemoveSave, UpdateSave, FlagSave,
        DeactivateSave, Targets, ClearOne, Lookup, Populate, StoreList, CallFails, Tick, Restart
  <2>5. alone'
    BY <2>3
    DEF LoneInv, Next, vars, Arrive, AssignRead, RemoveRole, AddRead, RemoveRead, UpdateRead,
        DeactivateRead, Miss, Continue, AssignSave, AssignClear, IndexRead, IndexAdd,
        RemoveClear, UnindexRead, UnindexWrite, AddSave, RemoveSave, UpdateSave, FlagSave,
        DeactivateSave, Targets, ClearOne, Lookup, Populate, StoreList, CallFails, Tick, Restart
  <2> QED BY <2>4, <2>5 DEF LoneInv
<1> QED BY <1>1, <1>2, PTL DEF Spec

\* The index as the one request sees it
IndexInv(h) == ~Busy(h) => \A r \in Roles : index[r] = HoldersOf(r)

LEMMA SerialIndex ==
  ASSUME NEW h, Serial(h), TypeOK, LoneInv, PairInv, faults = 0
  PROVE  IndexInv(h)
<1> SUFFICES ASSUME ~Busy(h), NEW r \in Roles PROVE index[r] = HoldersOf(r)
  BY DEF IndexInv
<1>1. ASSUME NEW u \in Users
      PROVE  u \in index[r] <=> r \in Held(u)
  <2>1. \A p \in Handlers : ~Indexing(p, u, r)
    BY DEF Serial, Busy, Indexing
  <2>2. Agrees(u, r)
    BY <2>1 DEF PairInv, PairOK, LoneInv
  <2> QED BY <2>2 DEF Agrees, Held, Serial
<1> QED BY <1>1 DEF HoldersOf, TypeOK

\* The lists a request is about to delete
Pending(h) ==
  IF hs[h].pc \in {"assignClear", "removeClear"} THEN {hs[h].user}
  ELSE IF hs[h].pc = "targets" THEN index[hs[h].role]
  ELSE IF hs[h].pc = "clear" THEN hs[h].set ELSE {}

ExactList(u) ==
  Cached(u) /\ Held(u) \cap patched = {} => cache[u].perms = PermissionsOf(Held(u))

\* All other lists are exact, and so is what a fill has read.
CacheInv(h) ==
  /\ \A u \in Users \ Pending(h) : ExactList(u)
  /\ hs[h].pc = "populate" => hs[h].set = Held(hs[h].user)
  /\ hs[h].pc = "store" => hs[h].set = PermissionsOf(Held(hs[h].user))

LEMMA SamePermissions ==
  ASSUME NEW rs \in SUBSET Roles, \A q \in rs : roles'[q].perms = roles[q].perms
  PROVE  UNION {roles'[q].perms : q \in rs} = UNION {roles[q].perms : q \in rs}
  OBVIOUS

\* A list stays exact while nothing it depends on changes.
LEMMA SameList ==
  ASSUME NEW u \in Users, ExactList(u),
         \/ cache'[u] = cache[u]
         \/ cache'[u].ttl = 0
         \/ cache'[u].perms = cache[u].perms /\ Cached(u),
         Held(u)' = Held(u), Held(u)' \cap patched' = {} => Held(u) \cap patched = {},
         Held(u)' \cap patched' = {} => \A q \in Held(u) : roles'[q].perms = roles[q].perms
  PROVE  ExactList(u)'
<1> SUFFICES ASSUME Cached(u)', Held(u)' \cap patched' = {}
             PROVE  cache'[u].perms = PermissionsOf(Held(u))'
  BY DEF ExactList
<1>1. Cached(u) /\ cache'[u].perms = cache[u].perms
  BY DEF Cached
<1>2. PermissionsOf(Held(u))' = PermissionsOf(Held(u))
  <2>1. Held(u) \in SUBSET Roles
    BY DEF Held
  <2> QED BY <2>1, SamePermissions DEF PermissionsOf
<1> QED BY <1>1, <1>2 DEF ExactList

LEMMA CacheFrame ==
  ASSUME NEW h, CacheInv(h), UNCHANGED <<holders, cache, patched>>,
         \A q \in Roles : roles'[q].perms = roles[q].perms,
         Pending(h) \subseteq Pending(h)', hs'[h].pc \notin {"populate", "store"}
  PROVE  CacheInv(h)'
<1>1. ASSUME NEW u \in Users \ Pending(h)'
      PROVE  ExactList(u)'
  <2>1. Held(u)' = Held(u)
    BY DEF Held
  <2>2. \A q \in Held(u) : q \in Roles
    BY DEF Held
  <2>3. ExactList(u)
    BY DEF CacheInv
  <2>4. /\ cache'[u] = cache[u]
        /\ Held(u)' \cap patched' = {} => Held(u) \cap patched = {}
        /\ \A q \in Held(u) : roles'[q].perms = roles[q].perms
    BY <2>1, <2>2
  <2> QED BY <2>1, <2>3, <2>4, SameList
<1> QED BY <1>1 DEF CacheInv

LEMMA CacheInit ==
  ASSUME NEW h, Serial(h), Init
  PROVE  CacheInv(h)
<1>1. hs[h].pc = "idle"
  BY DEF Serial, Init, Idle
<1>2. \A u \in Users : ~Cached(u)
  BY DEF Init, Cached, NotCached
<1> QED BY <1>1, <1>2 DEF CacheInv, ExactList

\* A change of one assignment leaves the lists of all other users alone.
LEMMA OtherLists ==
  ASSUME NEW h, CacheInv(h), Pending(h) = {}, NEW u \in Users, NEW r,
         holders' \cup {<<u, r>>} = holders \cup {<<u, r>>},
         UNCHANGED <<roles, cache, patched>>
  PROVE  \A v \in Users \ {u} : ExactList(v)'
<1> SUFFICES ASSUME NEW v \in Users \ {u} PROVE ExactList(v)'
  OBVIOUS
<1>1. Held(v)' = Held(v)
  <2>1. \A q \in Roles : <<v, q>> \in holders' <=> <<v, q>> \in holders
    OBVIOUS
  <2> QED BY <2>1 DEF Held
<1>2. ExactList(v)
  BY DEF CacheInv
<1>3. Held(v)' \cap patched' = {} => Held(v) \cap patched = {}
  BY <1>1
<1> QED BY <1>1, <1>2, <1>3, SameList

LEMMA CacheArrive ==
  ASSUME NEW h \in Handlers, TypeOK, CacheInv(h), Arrive(h)
  PROVE  CacheInv(h)'
<1> USE DEF Start, Goto, At, Idle
<1>1. hs \in [Handlers -> HandlerStates] /\ Pending(h) = {}
  BY DEF TypeOK, Pending, Arrive, AssignRead, RemoveRole, AddRead, RemoveRead, UpdateRead,
         DeactivateRead, Miss
<1>2. ASSUME NEW u \in Users, NEW r \in Roles, AssignRead(h, u, r)
      PROVE  CacheInv(h)'
  BY <1>1, <1>2, CacheFrame DEF AssignRead
<1>3. ASSUME NEW u \in Users, NEW r \in Roles, RemoveRole(h, u, r)
      PROVE  CacheInv(h)'
  <2>1. Pending(h)' = {u} /\ hs'[h].pc = "removeClear"
    BY <1>1, <1>3 DEF RemoveRole, Pending
  <2>2. holders' \cup {<<u, r>>} = holders \cup {<<u, r>>} /\ UNCHANGED <<roles, cache, patched>>
    BY <1>3 DEF RemoveRole
  <2>3. \A v \in Users \ {u} : ExactList(v)'
    BY <1>1, <2>2, OtherLists
  <2> QED BY <2>1, <2>3 DEF CacheInv
<1>4. ASSUME NEW r \in Roles, NEW perm \in Permissions, AddRead(h, r, perm)
      PROVE  CacheInv(h)'
  BY <1>1, <1>4, CacheFrame DEF AddRead
<1>5. ASSUME NEW r \in Roles, NEW perm \in Permissions, RemoveRead(h, r, perm)
      PROVE  CacheInv(h)'
  <2>1. PICK pc \in {"remove", "targets"} : hs'[h].pc = pc
    BY <1>1, <1>5 DEF RemoveRead
  <2> QED BY <1>1, <1>5, <2>1, CacheFrame DEF RemoveRead
<1>6. ASSUME NEW r \in Roles, NEW perms \in SUBSET Permissions, NEW sys \in BOOLEAN,
             UpdateRead(h, r, perms, sys)
      PROVE  CacheInv(h)'
  <2>1. PICK pc \in {"flag", "update"} : hs'[h].pc = pc
    BY <1>1, <1>6 DEF UpdateRead
  <2> QED BY <1>1, <1>6, <2>1, CacheFrame DEF UpdateRead
<1>7. ASSUME NEW r \in Roles, DeactivateRead(h, r)
      PROVE  CacheInv(h)'
  BY <1>1, <1>7, CacheFrame DEF DeactivateRead
<1>8. ASSUME NEW u \in Users, Miss(h, u)
      PROVE  CacheInv(h)'
  BY <1>1, <1>8, CacheFrame DEF Miss
<1> QED BY <1>2, <1>3, <1>4, <1>5, <1>6, <1>7, <1>8 DEF Arrive

\* The saves of RolesService: whoever holds the role is about to be cleared,
\* or PATCH has replaced the role.
LEMMA RoleSaved ==
  ASSUME NEW h, IndexInv(h), CacheInv(h), Pending(h) = {}, NEW r \in Roles,
         ~Busy(h),
         \A q \in Roles \ {r} : roles'[q].perms = roles[q].perms,
         UNCHANGED <<holders, cache, index>>, hs'[h].pc \notin {"populate", "store"},
         \/ patched' = patched \cup {r}
         \/ patched' = patched /\ Pending(h)' = index'[r]
  PROVE  CacheInv(h)'
<1>1. ASSUME NEW u \in Users \ Pending(h)'
      PROVE  ExactList(u)'
  <2>1. Held(u)' = Held(u) /\ \A q \in Held(u) : q \in Roles
    BY DEF Held
  <2>2. ExactList(u)
    BY DEF CacheInv
  <2>3. index[r] = HoldersOf(r)
    BY DEF IndexInv
  <2>4. Held(u)' \cap patched' = {} => r \notin Held(u)
    <3>1. CASE patched' = patched \cup {r}
      BY <2>1, <3>1
    <3>2. CASE Pending(h)' = index'[r]
      BY <2>3, <3>2 DEF HoldersOf
    <3> QED BY <3>1, <3>2
  <2>5. /\ cache'[u] = cache[u]
        /\ Held(u)' \cap patched' = {} => Held(u) \cap patched = {}
        /\ Held(u)' \cap patched' = {} => \A q \in Held(u) : roles'[q].perms = roles[q].perms
    BY <2>1, <2>4
  <2> QED BY <2>1, <2>2, <2>5, SameList
<1> QED BY <1>1 DEF CacheInv

LEMMA CacheContinue ==
  ASSUME NEW h \in Handlers, TypeOK, IndexInv(h), CacheInv(h), Continue(h)
  PROVE  CacheInv(h)'
<1>1. hs \in [Handlers -> HandlerStates] /\ HandlerOK(hs[h])
  BY DEF TypeOK
<1> DEFINE u == hs[h].user
           r == hs[h].role
<1> USE DEF Goto, At
<1>2. CASE AssignSave(h)
  <2>1. Pending(h) = {} /\ u \in Users
    BY <1>1, <1>2 DEF AssignSave, Pending, HandlerOK
  <2>2. CASE holders' = holders
    <3>1. hs'[h].pc = "idle"
      BY <1>1, <1>2, <2>2 DEF AssignSave, Idle
    <3> QED BY <1>2, <2>1, <2>2, <3>1, CacheFrame DEF AssignSave
  <2>3. CASE holders' # holders
    <3>1. hs'[h].pc = "assignClear" /\ hs'[h].user = u
      BY <1>1, <1>2, <2>3 DEF AssignSave, HandlerStates
    <3>2. Pending(h)' = {u}
      BY <3>1 DEF Pending
    <3>3. \A v \in Users \ {u} : ExactList(v)'
      <4>1. holders' \cup {<<u, r>>} = holders \cup {<<u, r>>} /\ UNCHANGED <<roles, cache, patched>>
        BY <1>2 DEF AssignSave
      <4> QED BY <2>1, <4>1, OtherLists
    <3> QED BY <3>1, <3>2, <3>3 DEF CacheInv
  <2> QED BY <2>2, <2>3
<1>3. ASSUME NEW v \in Users, Invalidate(v), Pending(h) \subseteq Pending(h)' \cup {v},
             UNCHANGED <<roles, holders, patched>>, hs'[h].pc \notin {"populate", "store"}
      PROVE  CacheInv(h)'
  <2>1. ASSUME NEW w \in Users \ Pending(h)'
        PROVE  ExactList(w)'
    <3>1. CASE w = v
      BY <1>3, <3>1 DEF ExactList, Cached, Invalidate, NotCached, TypeOK
    <3>2. CASE w # v
      <4>1. cache'[w] = cache[w] /\ Held(w)' = Held(w)
        BY <1>3, <3>2 DEF Invalidate, TypeOK, Held
      <4>2. ExactList(w)
        BY <1>3, <3>2 DEF CacheInv
      <4>3. /\ Held(w)' \cap patched' = {} => Held(w) \cap patched = {}
            /\ \A q \in Held(w) : roles'[q].perms = roles[q].perms
        BY <1>3, <4>1
      <4> QED BY <4>1, <4>2, <4>3, SameList
    <3> QED BY <3>1, <3>2
  <2> QED BY <1>3, <2>1 DEF CacheInv
<1>4. CASE AssignClear(h) \/ RemoveClear(h)
  <2>1. u \in Users /\ Pending(h) = {u} /\ hs'[h].pc \in {"indexRead", "unindexRead"}
    BY <1>1, <1>4 DEF AssignClear, RemoveClear, HandlerOK, Pending, HandlerStates
  <2> QED BY <1>3, <1>4, <2>1 DEF AssignClear, RemoveClear
<1>5. CASE IndexRead(h) \/ IndexAdd(h) \/ UnindexRead(h) \/ UnindexWrite(h)
  <2>1. Pending(h) = {}
    BY <1>5 DEF IndexRead, IndexAdd, UnindexRead, UnindexWrite, Pending
  <2>2. hs'[h].pc \in {"idle", "indexAdd", "unindexWrite"}
    <3>1. CASE IndexRead(h) BY <1>1, <3>1 DEF IndexRead, Idle, HandlerStates
    <3>2. CASE UnindexRead(h) BY <1>1, <3>2 DEF UnindexRead, HandlerStates
    <3>3. CASE IndexAdd(h) \/ UnindexWrite(h) BY <1>1, <3>3 DEF IndexAdd, UnindexWrite, Idle
    <3> QED BY <1>5, <3>1, <3>2, <3>3
  <2>3. UNCHANGED <<roles, holders, cache, patched>>
    BY <1>5 DEF IndexRead, IndexAdd, UnindexRead, UnindexWrite
  <2> QED BY <2>1, <2>2, <2>3, CacheFrame
<1>6. \A s : hs' = [Outdated(r) EXCEPT ![h] = s] => hs'[h] = s
  BY DEF Outdated
<1>7. \A perms : SavePermissions(h, r, perms) /\ r \in Roles =>
        /\ Pending(h)' = index'[r] /\ hs'[h].pc = "targets"
        /\ \A q \in Roles \ {r} : roles'[q].perms = roles[q].perms
  <2> SUFFICES ASSUME NEW perms, SavePermissions(h, r, perms), r \in Roles
               PROVE  /\ Pending(h)' = index'[r] /\ hs'[h].pc = "targets"
                      /\ \A q \in Roles \ {r} : roles'[q].perms = roles[q].perms
    OBVIOUS
  <2>1. hs'[h] = [Idle EXCEPT !.pc = "targets", !.role = r]
    BY <1>6 DEF SavePermissions
  <2>2. hs'[h].pc = "targets" /\ hs'[h].role = r
    BY <2>1 DEF Idle
  <2> QED BY <2>2 DEF Pending, SavePermissions, TypeOK
<1>8. CASE AddSave(h)
  <2>1. Pending(h) = {} /\ ~Busy(h) /\ r \in Roles
    BY <1>1, <1>8 DEF AddSave, Pending, HandlerOK, Busy, Adding, Removing
  <2>2. UNCHANGED <<holders, cache, index>> /\ patched' = patched
    BY <1>8 DEF AddSave
  <2>3. \E perms : SavePermissions(h, r, perms)
    BY <1>8 DEF AddSave
  <2> QED BY <1>7, <2>1, <2>2, <2>3, RoleSaved
<1>9. CASE RemoveSave(h)
  <2>1. Pending(h) = {} /\ ~Busy(h) /\ r \in Roles
    BY <1>1, <1>9 DEF RemoveSave, Pending, HandlerOK, Busy, Adding, Removing
  <2>2. UNCHANGED <<holders, cache, index>> /\ patched' = patched
    BY <1>9 DEF RemoveSave
  <2>3. CASE hs[h].fresh
    <3>1. \E perms : SavePermissions(h, r, perms)
      BY <1>9, <2>3 DEF RemoveSave
    <3> QED BY <1>7, <2>1, <2>2, <3>1, RoleSaved
  <2>4. CASE ~hs[h].fresh
    <3>1. hs'[h].pc = "idle" /\ roles' = roles
      BY <1>1, <1>9, <2>4 DEF RemoveSave, Idle
    <3> QED BY <2>1, <2>2, <3>1, CacheFrame
  <2> QED BY <2>3, <2>4
<1>10. CASE UpdateSave(h)
  <2>1. Pending(h) = {} /\ ~Busy(h) /\ r \in Roles
    BY <1>1, <1>10 DEF UpdateSave, Pending, HandlerOK, Busy, Adding, Removing
  <2>2. UNCHANGED <<holders, cache, index>>
    BY <1>10 DEF UpdateSave
  <2>3. CASE hs[h].fresh
    <3>1. hs'[h].pc = "idle" /\ patched' = patched \cup {r}
      BY <1>6, <1>10, <2>3 DEF UpdateSave, Idle
    <3>2. \A q \in Roles \ {r} : roles'[q].perms = roles[q].perms
      BY <1>10, <2>3 DEF UpdateSave, TypeOK
    <3> QED BY <2>1, <2>2, <3>1, <3>2, RoleSaved
  <2>4. CASE ~hs[h].fresh
    <3>1. hs'[h].pc = "idle" /\ UNCHANGED <<roles, patched>>
      BY <1>1, <1>10, <2>4 DEF UpdateSave, Idle
    <3> QED BY <2>1, <2>2, <3>1, CacheFrame
  <2> QED BY <2>3, <2>4
<1>11. CASE FlagSave(h) \/ DeactivateSave(h)
  <2>1. Pending(h) = {} /\ hs'[h].pc = "idle"
    BY <1>1, <1>11 DEF FlagSave, DeactivateSave, Pending, Idle
  <2>2. \A q \in Roles : roles'[q].perms = roles[q].perms
    <3>1. CASE FlagSave(h) BY <3>1 DEF FlagSave, TypeOK
    <3>2. CASE DeactivateSave(h) BY <3>2 DEF DeactivateSave, TypeOK
    <3> QED BY <1>11, <3>1, <3>2
  <2>3. UNCHANGED <<holders, cache, patched>>
    BY <1>11 DEF FlagSave, DeactivateSave
  <2> QED BY <2>1, <2>2, <2>3, CacheFrame
<1>12. CASE Targets(h)
  <2>1. Pending(h) = index[r] /\ UNCHANGED <<roles, holders, cache, patched>>
    BY <1>12 DEF Targets, Pending
  <2>2. CASE index[r] = {}
    <3>1. hs'[h].pc = "idle"
      BY <1>1, <1>12, <2>2 DEF Targets, Idle
    <3> QED BY <2>1, <2>2, <3>1, CacheFrame
  <2>3. CASE index[r] # {}
    <3>1. hs'[h].pc = "clear" /\ hs'[h].set = index[r]
      BY <1>1, <1>12, <2>3 DEF Targets, HandlerStates
    <3>2. Pending(h)' = index[r]
      BY <3>1 DEF Pending
    <3> QED BY <2>1, <3>1, <3>2, CacheFrame
  <2> QED BY <2>2, <2>3
<1>13. ASSUME NEW v \in Users, ClearOne(h, v)
       PROVE  CacheInv(h)'
  <2>1. Pending(h) = hs[h].set
    BY <1>13 DEF ClearOne, Pending
  <2>2. CASE hs[h].set = {v}
    <3>1. hs'[h].pc = "idle"
      BY <1>1, <1>13, <2>2 DEF ClearOne, Idle
    <3> QED BY <1>3, <1>13, <2>1, <2>2, <3>1 DEF ClearOne
  <2>3. CASE hs[h].set # {v}
    <3>1. hs'[h].pc = "clear" /\ hs'[h].set = hs[h].set \ {v}
      BY <1>1, <1>13, <2>3 DEF ClearOne, HandlerStates
    <3>2. Pending(h)' = hs[h].set \ {v}
      BY <3>1 DEF Pending
    <3> QED BY <1>3, <1>13, <2>1, <3>1, <3>2 DEF ClearOne
  <2> QED BY <2>2, <2>3
<1>14. CASE Lookup(h) \/ Populate(h)
  <2>1. Pending(h) = {} /\ Pending(h)' = {} /\ UNCHANGED <<roles, holders, cache, patched>>
    BY <1>1, <1>14 DEF Lookup, Populate, Pending, HandlerStates
  <2>2. \A v \in Users : ExactList(v)'
    BY <2>1 DEF CacheInv, ExactList, Cached, Held, PermissionsOf
  <2>3. CASE Lookup(h)
    <3>1. hs'[h].pc = "populate" /\ hs'[h].user = u /\ hs'[h].set = Held(u)
      BY <1>1, <2>3 DEF Lookup, HandlerStates
    <3> QED BY <2>1, <2>2, <3>1 DEF CacheInv, Held
  <2>4. CASE Populate(h)
    <3>1. /\ hs'[h].pc = "store" /\ hs'[h].user = u
          /\ hs'[h].set = PermissionsOf(hs[h].set) /\ hs[h].set = Held(u)
      BY <1>1, <2>4 DEF Populate, HandlerStates, CacheInv
    <3> QED BY <2>1, <2>2, <3>1 DEF CacheInv, Held, PermissionsOf
  <2> QED BY <1>14, <2>3, <2>4
<1>15. CASE StoreList(h)
  <2>1. /\ Pending(h) = {} /\ u \in Users /\ hs[h].set = PermissionsOf(Held(u))
        /\ hs'[h].pc = "idle" /\ UNCHANGED <<roles, holders, patched>>
    BY <1>1, <1>15 DEF StoreList, Pending, HandlerOK, CacheInv, Idle
  <2>2. ASSUME NEW v \in Users
        PROVE  ExactList(v)'
    <3>1. Held(v)' = Held(v) /\ PermissionsOf(Held(v))' = PermissionsOf(Held(v))
      BY <2>1 DEF Held, PermissionsOf
    <3>2. CASE v = u
      <4>1. cache'[v].perms = PermissionsOf(Held(v))
        BY <1>15, <2>1, <3>2 DEF StoreList, Store, TypeOK
      <4> QED BY <3>1, <4>1 DEF ExactList
    <3>3. CASE v # u
      <4>1. cache'[v] = cache[v]
        BY <1>15, <3>3 DEF StoreList, Store, TypeOK
      <4>2. ExactList(v)
        BY <2>1 DEF CacheInv
      <4> QED BY <2>1, <3>1, <4>1, <4>2 DEF ExactList, Cached
    <3> QED BY <3>2, <3>3
  <2> QED BY <2>1, <2>2 DEF CacheInv
<1> QED BY <1>2, <1>4, <1>5, <1>8, <1>9, <1>10, <1>11, <1>12, <1>13, <1>14, <1>15 DEF Continue

LEMMA CacheStep ==
  ASSUME NEW h, Serial(h)
  PROVE  /\ TypeOK /\ IndexInv(h) /\ CacheInv(h) /\ [Next]_vars /\ faults' = 0
         => CacheInv(h)'
<1> SUFFICES ASSUME TypeOK, IndexInv(h), CacheInv(h), [Next]_vars, faults' = 0
             PROVE  CacheInv(h)'
  OBVIOUS
<1>1. h \in Handlers
  BY DEF Serial
<1>2. CASE UNCHANGED vars
  <2>1. UNCHANGED <<roles, holders, cache, index, hs, patched>>
    BY <1>2 DEF vars
  <2>2. /\ Pending(h)' = Pending(h)
        /\ \A u \in Users : ExactList(u) => ExactList(u)'
        /\ PermissionsOf(Held(hs[h].user))' = PermissionsOf(Held(hs[h].user))
        /\ Held(hs[h].user)' = Held(hs[h].user)
    BY <2>1 DEF Pending, ExactList, Cached, Held, PermissionsOf
  <2> QED BY <2>1, <2>2 DEF CacheInv
<1>3. CASE Tick
  <2>1. UNCHANGED <<roles, holders, index, hs, patched>>
    BY <1>3 DEF Tick
  <2>2. ASSUME NEW u \in Users \ Pending(h)
        PROVE  ExactList(u)'
    <3>1. /\ cache[u] \in [perms : SUBSET Permissions, ttl : 0..CacheTtl]
          /\ cache'[u] = IF cache[u].ttl <= 1 THEN NotCached ELSE [cache[u] EXCEPT !.ttl = @ - 1]
      BY <1>3 DEF Tick, TypeOK
    <3>2. cache'[u].ttl = 0 \/ (cache'[u].perms = cache[u].perms /\ Cached(u))
      BY <3>1, BoundAssumption DEF NotCached, Cached
    <3>3. Held(u)' = Held(u) /\ ExactList(u)
      BY <2>1 DEF Held, CacheInv
    <3>4. /\ Held(u)' \cap patched' = {} => Held(u) \cap patched = {}
          /\ \A q \in Held(u) : roles'[q].perms = roles[q].perms
      BY <2>1, <3>3
    <3> QED BY <3>2, <3>3, <3>4, SameList
  <2>3. Pending(h)' = Pending(h)
    BY <2>1 DEF Pending
  <2> QED BY <2>1, <2>2, <2>3 DEF CacheInv, Held, PermissionsOf
<1> QED BY <1>1, <1>2, <1>3, SerialStep, CacheArrive, CacheContinue

LEMMA SerialLists ==
  ASSUME NEW h, Serial(h)
  PROVE  Spec => [](faults = 0 => CacheInv(h))
<1> DEFINE Inv == faults = 0 => CacheInv(h)
<1>1. Init => Inv
  BY CacheInit
<1>2. TypeOK /\ LoneInv /\ PairInv /\ Inv /\ [Next]_vars => Inv'
  <2> SUFFICES ASSUME TypeOK, LoneInv, PairInv, Inv, [Next]_vars, faults' = 0
               PROVE  CacheInv(h)'
    OBVIOUS
  <2>1. faults = 0
    BY FaultFrame
  <2> QED BY <2>1, SerialIndex, CacheStep
<1>3. Undisturbed
  BY DEF Serial, Undisturbed
<1>4. Spec => []PairInv
  BY <1>3, PairInvAlways
<1> QED BY <1>1, <1>2, <1>4, LoneAlways, CacheTyped, PTL DEF Spec

\* For requests that come one at a time, and until something fails, every cached
\* list is what MongoDB says, roles that PATCH replaced apart: invalidation by
\* the reverse index forgets nobody.
THEOREM ListsAreExact ==
  ASSUME NEW h, Serial(h)
  PROVE  Spec => [](faults = 0 => CacheExact)
<1>1. TypeOK /\ (faults = 0 => CacheInv(h)) => (faults = 0 => CacheExact)
  BY DEF CacheInv, CacheExact, Quiet, Serial, Pending, ExactList
<1> QED BY <1>1, SerialLists, CacheTyped, PTL

\* What the comment in rbac-cache.service.ts promises of the reverse index does
\* hold, until something fails, for requests that come one at a time: no list
\* shows a permission that its user has lost, but for roles that PATCH replaced.
THEOREM SerialListsShowNothingLost ==
  ASSUME NEW h, Serial(h)
  PROVE  Spec => [](faults = 0 => StaleOnlyOutOfIndex)
<1>1. TypeOK /\ (faults = 0 => CacheInv(h)) => (faults = 0 => StaleOnlyOutOfIndex)
  <2> SUFFICES ASSUME TypeOK, CacheInv(h), Quiet, patched = {}, NEW u \in Users,
                      NEW perm \in Permissions, Shown(u, perm)
               PROVE  Allowed(u, perm)
    BY DEF StaleOnlyOutOfIndex
  <2>1. Cached(u)
    BY BoundAssumption DEF TypeOK, Shown, Cached, NotCached
  <2>2. Pending(h) = {}
    BY DEF Quiet, Serial, Pending
  <2>3. cache[u].perms = PermissionsOf(Held(u))
    BY <2>1, <2>2 DEF CacheInv, ExactList
  <2> QED BY <2>3 DEF Shown, Allowed
<1> QED BY <1>1, SerialLists, CacheTyped, PTL
=============================================================================
