-------------------------- MODULE GrantLeaseProofs --------------------------
(***************************************************************************)
(* AccessGrants implements GrantLease: whatever is in Redis was approved,  *)
(* for that user and resource, and never lives longer than was asked for.  *)
(* The durations are taken to be positive (PositiveDurations): a request   *)
(* for "0 minutes" gets a key without an end.                              *)
(***************************************************************************)
EXTENDS AccessGrantsProofs

-----------------------------------------------------------------------------
(* The invariant: what the documents, the handlers between two awaits and   *)
(* the keys know of an approval                                             *)

\* The time a key or a handler may carry for a request
TermOf(r, left, least) ==
  IF IsPermanent(r) THEN left = NoExpiry ELSE left \in least..Seconds[r]

DocsBacked ==
  \A r \in Requests :
    /\ IsPermanent(r) => docs[r].expiresIn = NoExpiry
    /\ ~IsPermanent(r) => docs[r].isPermanent = FALSE /\ docs[r].expiresIn <= Seconds[r]
    /\ docs[r].status = "approved" => WasApproved(r)

Carries(p) ==
  /\ hs[p].pc = "approve" => TermOf(hs[p].req, hs[p].left, 0)
  /\ hs[p].pc = "grant" => WasApproved(hs[p].req)
  /\ hs[p].pc \in {"ttl", "rehydrate", "granted"} =>
       KeyOf(hs[p].req) = Asked(p) /\ WasApproved(hs[p].req)
  /\ hs[p].pc = "rehydrate" => TermOf(hs[p].req, hs[p].left, 1)

KeyBacked(k) ==
  keys[k].req # None =>
    /\ KeyOf(keys[k].req) = k /\ WasApproved(keys[k].req)
    /\ IF IsPermanent(keys[k].req) THEN keys[k].ttl = 0
       ELSE keys[k].ttl \in 1..Seconds[keys[k].req]

LeaseInv ==
  /\ DocsBacked
  /\ \A p \in Handlers : Carries(p)
  /\ \A k \in Keys : KeyBacked(k)

\* A save of approve() writes what makes the request an approved one.
LEMMA SaveApproves ==
  ASSUME TypeOK, LeaseInv, NEW p \in Handlers, ApproveSave(p)
  PROVE  /\ hs[p].req \in Requests
         /\ docs'[hs[p].req].expiresIn = hs[p].left
         /\ docs'[hs[p].req].isPermanent = IsPermanent(hs[p].req)
         /\ \A r \in Requests : r # hs[p].req => docs'[r] = docs[r]
         /\ TermOf(hs[p].req, hs[p].left, 0)
         /\ WasApproved(hs[p].req)'
<1>1. hs[p].req \in Requests /\ hs[p].pc = "approve"
  BY DEF TypeOK, HandlerOK, ApproveSave
<1>2. /\ docs'[hs[p].req].expiresIn = hs[p].left
      /\ docs'[hs[p].req].isPermanent = IsPermanent(hs[p].req)
      /\ \A r \in Requests : r # hs[p].req => docs'[r] = docs[r]
  BY <1>1 DEF ApproveSave, TypeOK, Docs
<1>3. TermOf(hs[p].req, hs[p].left, 0)
  BY <1>1 DEF LeaseInv, Carries
<1>4. docs'[hs[p].req].isPermanent \/ docs'[hs[p].req].expiresIn # NoExpiry
  BY <1>1, <1>2, <1>3, DurationAssumption DEF TermOf, NoExpiry
<1>5. WasApproved(hs[p].req)'
  <2>1. hs'[p].req = hs[p].req
    BY DEF ApproveSave, Advance, TypeOK, HandlerStates
  <2> QED BY <1>4, <2>1 DEF WasApproved
<1> QED BY <1>1, <1>2, <1>3, <1>5

\* Apart from a save of approve() and the clock, a step leaves the dates alone
\* and approves nothing.
LEMMA DocsFrame ==
  ASSUME TypeOK, [Next]_vars, ~Tick, \A p \in Handlers : ~ApproveSave(p), NEW r \in Requests
  PROVE  /\ docs'[r].expiresIn = docs[r].expiresIn
         /\ docs'[r].isPermanent = docs[r].isPermanent
         /\ docs'[r].status = "approved" => docs[r].status = "approved"
<1> USE DEF TypeOK
<1>1. ASSUME NEW q \in Requests, Create(q)
      PROVE  /\ docs'[r].expiresIn = docs[r].expiresIn
             /\ docs'[r].isPermanent = docs[r].isPermanent
             /\ docs'[r].status = "approved" => docs[r].status = "approved"
  BY <1>1 DEF Create, Docs
<1>2. ASSUME NEW p \in Handlers, RejectSave(p) \/ RevokeSave(p)
      PROVE  /\ docs'[r].expiresIn = docs[r].expiresIn
             /\ docs'[r].isPermanent = docs[r].isPermanent
             /\ docs'[r].status = "approved" => docs[r].status = "approved"
  BY <1>2 DEF RejectSave, RevokeSave, Docs
<1>3. ASSUME ExpireSave
      PROVE  /\ docs'[r].expiresIn = docs[r].expiresIn
             /\ docs'[r].isPermanent = docs[r].isPermanent
             /\ docs'[r].status = "approved" => docs[r].status = "approved"
  BY <1>3 DEF ExpireSave, Docs
<1>4. CASE UNCHANGED docs
  BY <1>4
<1> QED
  BY <1>1, <1>2, <1>3, <1>4
  DEF Next, vars, Arrive, ApproveRead, RejectRead, RevokeRead, CheckGet, Continue, ApproveGrant,
      ApproveSchedule, RevokeDelete, CheckTtl, CheckFind, CheckSet, Respond, Work, ExpireTake,
      ExpireRead, ExpireDelete, ExpireAudit, CallFails, JobFails, Crash, RedisFlush

\* The documents stay backed, and who has been approved stays so.
LEMMA DocsStep ==
  ASSUME TypeOK, LeaseInv, [Next]_vars
  PROVE  /\ DocsBacked'
         /\ \A r \in Requests : WasApproved(r) => docs'[r].isPermanent \/ docs'[r].expiresIn # NoExpiry
<1> SUFFICES ASSUME NEW r \in Requests
             PROVE  /\ IsPermanent(r) => docs'[r].expiresIn = NoExpiry
                    /\ ~IsPermanent(r) => docs'[r].isPermanent = FALSE /\ docs'[r].expiresIn <= Seconds[r]
                    /\ docs'[r].status = "approved" =>
                         docs'[r].isPermanent \/ docs'[r].expiresIn # NoExpiry
                    /\ WasApproved(r) => docs'[r].isPermanent \/ docs'[r].expiresIn # NoExpiry
  BY DEF DocsBacked, WasApproved, IsPermanent
<1>0. /\ IsPermanent(r) => docs[r].expiresIn = NoExpiry
      /\ ~IsPermanent(r) => docs[r].isPermanent = FALSE /\ docs[r].expiresIn <= Seconds[r]
      /\ docs[r].status = "approved" => docs[r].isPermanent \/ docs[r].expiresIn # NoExpiry
      /\ WasApproved(r) <=> docs[r].isPermanent \/ docs[r].expiresIn # NoExpiry
  BY DEF LeaseInv, DocsBacked, WasApproved
<1>1. ASSUME NEW p \in Handlers, ApproveSave(p), hs[p].req = r
      PROVE  /\ IsPermanent(r) => docs'[r].expiresIn = NoExpiry
             /\ ~IsPermanent(r) => docs'[r].isPermanent = FALSE /\ docs'[r].expiresIn <= Seconds[r]
             /\ docs'[r].isPermanent \/ docs'[r].expiresIn # NoExpiry
  BY <1>1, SaveApproves, DurationAssumption DEF TermOf, NoExpiry
<1>2. ASSUME NEW p \in Handlers, ApproveSave(p), hs[p].req # r
      PROVE  docs'[r] = docs[r]
  BY <1>2, SaveApproves
<1>3. CASE Tick
  <2>1. /\ docs'[r].expiresIn = Less(docs[r].expiresIn)
        /\ docs'[r].isPermanent = docs[r].isPermanent
        /\ docs'[r].status = docs[r].status
    BY <1>3 DEF Tick, TypeOK, Docs
  <2>2. docs[r].expiresIn \in Nat \cup {NoExpiry} /\ Seconds[r] \in Nat
    BY DurationAssumption DEF TypeOK, Docs
  <2>3. /\ Less(docs[r].expiresIn) = NoExpiry <=> docs[r].expiresIn = NoExpiry
        /\ docs[r].expiresIn <= Seconds[r] => Less(docs[r].expiresIn) <= Seconds[r]
    BY <2>2 DEF Less, NoExpiry
  <2> QED BY <1>0, <2>1, <2>3
<1>4. CASE ~Tick /\ \A p \in Handlers : ~ApproveSave(p)
  BY <1>0, <1>4, DocsFrame
<1>5. CASE \E p \in Handlers : ApproveSave(p)
  <2>1. PICK p \in Handlers : ApproveSave(p) BY <1>5
  <2>2. CASE hs[p].req = r BY <2>1, <2>2, <1>1
  <2>3. CASE hs[p].req # r
    <3>1. docs'[r] = docs[r] BY <2>1, <2>3, <1>2
    <3> QED BY <3>1, <1>0
  <2> QED BY <2>2, <2>3
<1> QED BY <1>3, <1>4, <1>5

\* What is asked of a handler depends on its own state and on who has been
\* approved; an idle one carries nothing.
ApprovedStay == \A r \in Requests : WasApproved(r) => WasApproved(r)'

LEMMA CarriesKept ==
  ASSUME TypeOK, LeaseInv, ApprovedStay, NEW p \in Handlers,
         hs'[p].pc = "idle" \/ hs'[p] = hs[p]
  PROVE  Carries(p)'
<1>1. CASE hs'[p].pc = "idle" BY <1>1 DEF Carries
<1>2. CASE hs'[p] = hs[p]
  <2>1. Carries(p) BY DEF LeaseInv
  <2>2. hs[p].pc \in {"grant", "ttl", "rehydrate", "granted"} => hs[p].req \in Requests
    BY DEF TypeOK, HandlerOK
  <2> QED BY <1>2, <2>1, <2>2 DEF Carries, ApprovedStay, Asked, TermOf
<1> QED BY <1>1, <1>2

LEMMA CarriesArrive ==
  ASSUME TypeOK, LeaseInv, ApprovedStay, NEW p \in Handlers, Arrive(p)
  PROVE  Carries(p)'
<1> USE DEF TypeOK, Goto, HandlerStates
<1>1. ASSUME NEW r \in Requests, NEW u \in Users, ApproveRead(p, r, u)
      PROVE  Carries(p)'
  <2>1. hs'[p].pc = "approve" /\ hs'[p].req = r /\ hs'[p].left = Duration(r)
    BY <1>1 DEF ApproveRead, Review
  <2>2. TermOf(r, Duration(r), 0)
    BY DurationAssumption DEF TermOf, Duration
  <2> QED BY <2>1, <2>2 DEF Carries, TermOf
<1>2. ASSUME NEW r \in Requests, NEW u \in Users, RejectRead(p, r, u) \/ RevokeRead(p, r, u)
      PROVE  Carries(p)'
  <2>1. hs'[p].pc \in {"reject", "revoke"}
    BY <1>2 DEF RejectRead, RevokeRead, Review
  <2> QED BY <2>1 DEF Carries
<1>3. ASSUME NEW u \in Users, NEW res \in Resources, CheckGet(p, u, res)
      PROVE  Carries(p)'
  <2> DEFINE k == <<u, res>>
  <2>1. k \in Keys /\ keys[k].req \in Requests \cup {None} /\ KeyBacked(k)
    BY DEF Keys, KeyEntries, LeaseInv
  <2>2. /\ hs'[p].pc = (IF keys[k].req = None THEN "find" ELSE "ttl")
        /\ hs'[p].req = keys[k].req /\ hs'[p].user = u /\ hs'[p].res = res
    BY <1>3 DEF CheckGet, Idle
  <2>3. CASE keys[k].req = None BY <2>2, <2>3 DEF Carries
  <2>4. CASE keys[k].req # None
    <3>1. KeyOf(keys[k].req) = k /\ WasApproved(keys[k].req) /\ keys[k].req \in Requests
      BY <2>1, <2>4 DEF KeyBacked
    <3>2. Asked(p)' = k BY <2>2 DEF Asked
    <3> QED BY <2>2, <2>4, <3>1, <3>2 DEF Carries, ApprovedStay
  <2> QED BY <2>3, <2>4
<1> QED BY <1>1, <1>2, <1>3 DEF Arrive
LEMMA CarriesContinue ==
  ASSUME TypeOK, LeaseInv, ApprovedStay, NEW p \in Handlers, Continue(p)
  PROVE  Carries(p)'
<1> USE DEF TypeOK, Goto, Advance, HandlerStates
<1>1. ASSUME ApproveSave(p) PROVE Carries(p)'
  <2>1. WasApproved(hs[p].req)' BY <1>1, SaveApproves
  <2>2. hs'[p].pc = "grant" /\ hs'[p].req = hs[p].req BY <1>1 DEF ApproveSave
  <2> QED BY <2>1, <2>2 DEF Carries, WasApproved
<1>2. ASSUME \/ ApproveGrant(p) \/ ApproveSchedule(p) \/ RejectSave(p)
             \/ RevokeSave(p) \/ RevokeDelete(p) \/ Respond(p)
      PROVE  Carries(p)'
  <2>1. hs'[p].pc \in {"idle", "schedule", "delete"}
    BY <1>2 DEF ApproveGrant, ApproveSchedule, RejectSave, RevokeSave, RevokeDelete,
                Respond, Idle
  <2> QED BY <2>1 DEF Carries
<1>3. ASSUME CheckTtl(p) \/ CheckSet(p) PROVE Carries(p)'
  <2>1. hs[p].pc \in {"ttl", "rehydrate"} /\ hs[p].req \in Requests
    BY <1>3 DEF CheckTtl, CheckSet, HandlerOK
  <2>2. KeyOf(hs[p].req) = Asked(p) /\ WasApproved(hs[p].req)
    BY <2>1 DEF LeaseInv, Carries
  <2>3. /\ hs'[p].pc = "granted" /\ hs'[p].req = hs[p].req
        /\ hs'[p].user = hs[p].user /\ hs'[p].res = hs[p].res
    BY <1>3 DEF CheckTtl, CheckSet
  <2> QED BY <2>1, <2>2, <2>3 DEF Carries, Asked, ApprovedStay
<1>4. ASSUME CheckFind(p) PROVE Carries(p)'
  <2>1. CASE Goto(p, Idle)
    <3>1. hs'[p].pc = "idle" BY <2>1 DEF Idle
    <3> QED BY <3>1 DEF Carries
  <2>2. CASE \E r \in ApprovedFor(Asked(p)) :
               hs' = [hs EXCEPT ![p].req = r, ![p].left = docs[r].expiresIn,
                                ![p].pc = IF docs[r].expiresIn = 0 THEN "granted"
                                          ELSE "rehydrate"]
    <3>1. PICK r \in ApprovedFor(Asked(p)) :
               hs' = [hs EXCEPT ![p].req = r, ![p].left = docs[r].expiresIn,
                                ![p].pc = IF docs[r].expiresIn = 0 THEN "granted"
                                          ELSE "rehydrate"]
      BY <2>2
    <3>2. r \in Requests /\ KeyOf(r) = Asked(p) /\ docs[r].status = "approved"
      BY DEF ApprovedFor
    <3>3. /\ hs'[p].req = r /\ hs'[p].left = docs[r].expiresIn
          /\ hs'[p].user = hs[p].user /\ hs'[p].res = hs[p].res
          /\ hs'[p].pc = IF docs[r].expiresIn = 0 THEN "granted" ELSE "rehydrate"
      BY <3>1
    <3>4. WasApproved(r) /\ DocsBacked
      BY <3>2 DEF LeaseInv, DocsBacked
    <3>5. docs[r].expiresIn # 0 => TermOf(r, docs[r].expiresIn, 1)
      BY <3>2, <3>4, DurationAssumption DEF DocsBacked, TermOf, WasApproved, Docs, NoExpiry
    <3> QED BY <3>2, <3>3, <3>4, <3>5 DEF Carries, Asked, ApprovedStay, TermOf
  <2> QED BY <1>4, <2>1, <2>2 DEF CheckFind
<1> QED BY <1>1, <1>2, <1>3, <1>4 DEF Continue

LEMMA CarriesTick ==
  ASSUME TypeOK, LeaseInv, ApprovedStay, NEW p \in Handlers, Tick
  PROVE  Carries(p)'
<1>1. /\ hs'[p] = TickHandler(hs[p])
      /\ Carries(p)
      /\ hs[p] \in HandlerStates /\ HandlerOK(hs[p])
  BY DEF Tick, LeaseInv, TypeOK
<1>2. /\ hs'[p].pc = hs[p].pc /\ hs'[p].req = hs[p].req
      /\ hs'[p].user = hs[p].user /\ hs'[p].res = hs[p].res
      /\ hs[p].pc # "approve" => hs'[p].left = hs[p].left
  BY <1>1, TickHandlerType
<1>3. CASE hs[p].pc = "approve"
  <2>1. /\ hs'[p].left = Less(hs[p].left)
        /\ hs[p].req \in Requests
        /\ hs[p].left \in Nat \cup {NoExpiry}
    BY <1>1, <1>3 DEF TickHandler, HandlerStates, HandlerOK, NoSuchKey, ReviewPcs
  <2>2. TermOf(hs[p].req, hs[p].left, 0)
    BY <1>1, <1>3 DEF Carries
  <2>3. TermOf(hs[p].req, Less(hs[p].left), 0)
    BY <2>1, <2>2, DurationAssumption DEF TermOf, Less, NoExpiry
  <2> QED BY <1>2, <1>3, <2>1, <2>3 DEF Carries, TermOf
<1>4. CASE hs[p].pc # "approve"
  <2>1. hs[p].pc \in {"grant", "ttl", "rehydrate", "granted"} => hs[p].req \in Requests
    BY <1>1 DEF HandlerOK
  <2> QED BY <1>1, <1>2, <1>4, <2>1 DEF Carries, Asked, ApprovedStay, TermOf
<1> QED BY <1>3, <1>4

LEMMA HandlersStep ==
  ASSUME TypeOK, LeaseInv, ApprovedStay, [Next]_vars, NEW p \in Handlers
  PROVE  Carries(p)'
<1>1. CASE \E q \in Handlers : Arrive(q)
  <2>1. PICK q \in Handlers : Arrive(q) BY <1>1
  <2>2. CASE p = q BY <2>1, <2>2, CarriesArrive
  <2>3. CASE p # q BY <2>1, <2>3, ArriveFrame, CarriesKept
  <2> QED BY <2>2, <2>3
<1>2. CASE \E q \in Handlers : Continue(q)
  <2>1. PICK q \in Handlers : Continue(q) BY <1>2
  <2>2. CASE p = q BY <2>1, <2>2, CarriesContinue
  <2>3. CASE p # q BY <2>1, <2>3, ContinueFrame, CarriesKept
  <2> QED BY <2>2, <2>3
<1>3. CASE \E q \in Handlers : CallFails(q)
  <2>1. hs'[p] = hs[p] \/ hs'[p] = Idle
    BY <1>3 DEF CallFails, Goto, TypeOK
  <2> QED BY <2>1, CarriesKept DEF Idle
<1>4. CASE Tick BY <1>4, CarriesTick
<1>5. CASE Crash \/ UNCHANGED hs
  <2>1. hs'[p] = hs[p] \/ hs'[p] = Idle
    BY <1>5 DEF Crash
  <2> QED BY <2>1, CarriesKept DEF Idle
<1> QED
  BY <1>1, <1>2, <1>3, <1>4, <1>5
  DEF Next, vars, Create, Work, ExpireTake, ExpireRead, ExpireSave, ExpireDelete,
      ExpireAudit, JobFails, RedisFlush
-----------------------------------------------------------------------------
(* The keys *)

LeaseTtl(r, t) == IF IsPermanent(r) THEN t = 0 ELSE t \in 1..Seconds[r]

\* Both writers of a key, approve() and the fallback of the access check, have
\* a request in hand that was approved for it, and a TTL within its duration.
LEMMA Renewal ==
  ASSUME TypeOK, LeaseInv, PositiveDurations, NEW p \in Handlers,
         ApproveGrant(p) \/ CheckSet(p)
  PROVE  /\ UNCHANGED docs
         /\ \E r \in Requests, t \in Nat :
              /\ WasApproved(r) /\ LeaseTtl(r, t)
              /\ keys' = [keys EXCEPT ![KeyOf(r)] = [req |-> r, ttl |-> t]]
<1>1. CASE ApproveGrant(p)
  <2> DEFINE t == IF IsPermanent(hs[p].req) THEN 0 ELSE Seconds[hs[p].req]
  <2>1. hs[p].req \in Requests /\ hs[p].pc = "grant"
    BY <1>1 DEF ApproveGrant, TypeOK, HandlerOK
  <2>2. WasApproved(hs[p].req)
    BY <2>1 DEF LeaseInv, Carries
  <2>3. t \in Nat /\ LeaseTtl(hs[p].req, t)
    BY <2>1, DurationAssumption DEF PositiveDurations, LeaseTtl, IsPermanent
  <2>4. keys' = [keys EXCEPT ![KeyOf(hs[p].req)] = [req |-> hs[p].req, ttl |-> t]]
    BY <1>1 DEF ApproveGrant, SetGrant
  <2>5. UNCHANGED docs BY <1>1 DEF ApproveGrant
  <2> QED BY <2>1, <2>2, <2>3, <2>4, <2>5
<1>2. CASE CheckSet(p)
  <2> DEFINE t == IF hs[p].left = NoExpiry THEN 0 ELSE hs[p].left
  <2>1. hs[p].req \in Requests /\ hs[p].pc = "rehydrate"
    BY <1>2 DEF CheckSet, TypeOK, HandlerOK
  <2>2. /\ WasApproved(hs[p].req) /\ KeyOf(hs[p].req) = Asked(p)
        /\ TermOf(hs[p].req, hs[p].left, 1)
    BY <2>1 DEF LeaseInv, Carries
  <2>3. t \in Nat /\ LeaseTtl(hs[p].req, t)
    BY <2>1, <2>2, DurationAssumption DEF TermOf, LeaseTtl, NoExpiry
  <2>4. keys' = [keys EXCEPT ![KeyOf(hs[p].req)] = [req |-> hs[p].req, ttl |-> t]]
    BY <1>2, <2>2 DEF CheckSet, SetGrant
  <2>5. UNCHANGED docs BY <1>2 DEF CheckSet
  <2> QED BY <2>1, <2>2, <2>3, <2>4, <2>5
<1> QED BY <1>1, <1>2

\* What else happens to a key: it is deleted, it ages, or nothing.
LEMMA KeysFrame ==
  ASSUME TypeOK, [Next]_vars, \A p \in Handlers : ~ApproveGrant(p) /\ ~CheckSet(p)
  PROVE  \/ UNCHANGED keys
         \/ Tick
         \/ UNCHANGED docs /\ \E ks \in SUBSET Keys :
              keys' = [k \in Keys |-> IF k \in ks THEN NoKey ELSE keys[k]]
<1>1. ASSUME NEW r \in Requests, DeleteGrantKey(KeyOf(r))
      PROVE  \E ks \in SUBSET Keys : keys' = [k \in Keys |-> IF k \in ks THEN NoKey ELSE keys[k]]
  <2>1. KeyOf(r) \in Keys BY KeyOfType
  <2>2. keys' = [k \in Keys |-> IF k \in {KeyOf(r)} THEN NoKey ELSE keys[k]]
    BY <1>1, <2>1 DEF DeleteGrantKey, TypeOK
  <2>3. {KeyOf(r)} \in SUBSET Keys BY <2>1
  <2> QED BY <2>2, <2>3
<1>2. ASSUME NEW p \in Handlers, RevokeDelete(p)
      PROVE  UNCHANGED docs /\ \E ks \in SUBSET Keys :
               keys' = [k \in Keys |-> IF k \in ks THEN NoKey ELSE keys[k]]
  <2>1. hs[p].req \in Requests /\ DeleteGrantKey(KeyOf(hs[p].req)) /\ UNCHANGED docs
    BY <1>2 DEF RevokeDelete, TypeOK, HandlerOK
  <2> QED BY <2>1, <1>1
<1>3. ASSUME ExpireDelete
      PROVE  UNCHANGED docs /\ \E ks \in SUBSET Keys :
               keys' = [k \in Keys |-> IF k \in ks THEN NoKey ELSE keys[k]]
  <2>1. worker.job.req \in Requests /\ DeleteGrantKey(KeyOf(worker.job.req)) /\ UNCHANGED docs
    BY <1>3 DEF ExpireDelete, TypeOK, Jobs
  <2> QED BY <2>1, <1>1
<1>4. ASSUME RedisFlush
      PROVE  UNCHANGED docs /\ \E ks \in SUBSET Keys :
               keys' = [k \in Keys |-> IF k \in ks THEN NoKey ELSE keys[k]]
  <2>1. keys' = [k \in Keys |-> IF k \in Keys THEN NoKey ELSE keys[k]] /\ UNCHANGED docs
    BY <1>4 DEF RedisFlush
  <2> QED BY <2>1
<1>5. CASE UNCHANGED keys BY <1>5
<1>6. CASE Tick BY <1>6
<1>7. CASE \E p \in Handlers : RevokeDelete(p)
  <2>1. PICK p \in Handlers : RevokeDelete(p) BY <1>7
  <2> QED BY <2>1, <1>2
<1>8. CASE ExpireDelete BY <1>3, <1>8
<1>9. CASE RedisFlush BY <1>4, <1>9
<1>10. \/ UNCHANGED keys \/ Tick \/ ExpireDelete \/ RedisFlush
       \/ \E p \in Handlers : RevokeDelete(p)
  BY DEF Next, vars, Create, Arrive, ApproveRead, RejectRead, RevokeRead, CheckGet, Continue,
         ApproveSave, ApproveSchedule, RejectSave, RevokeSave, CheckTtl, CheckFind, Respond,
         Work, ExpireTake, ExpireRead, ExpireSave, ExpireAudit, CallFails, JobFails, Crash
<1> QED BY <1>5, <1>6, <1>7, <1>8, <1>9, <1>10

LEMMA KeysStep ==
  ASSUME TypeOK, LeaseInv, ApprovedStay, PositiveDurations, [Next]_vars, NEW k \in Keys
  PROVE  KeyBacked(k)'
<1>1. KeyBacked(k) /\ keys[k] \in KeyEntries
  BY DEF LeaseInv, TypeOK
<1>2. CASE keys'[k] = keys[k]
  BY <1>1, <1>2 DEF KeyBacked, KeyEntries, ApprovedStay
<1>3. CASE \E p \in Handlers : ApproveGrant(p) \/ CheckSet(p)
  <2>1. PICK r \in Requests, t \in Nat :
              /\ WasApproved(r) /\ LeaseTtl(r, t)
              /\ keys' = [keys EXCEPT ![KeyOf(r)] = [req |-> r, ttl |-> t]]
    BY <1>3, Renewal
  <2>2. CASE k = KeyOf(r)
    <3>1. keys'[k] = [req |-> r, ttl |-> t] BY <2>1, <2>2 DEF TypeOK
    <3> QED BY <2>1, <2>2, <3>1 DEF KeyBacked, ApprovedStay, LeaseTtl
  <2>3. CASE k # KeyOf(r)
    <3>1. keys'[k] = keys[k] BY <2>1, <2>3 DEF TypeOK
    <3> QED BY <1>2, <3>1
  <2> QED BY <2>2, <2>3
<1>4. CASE Tick
  <2>1. keys'[k] = TickKey(keys[k]) BY <1>4 DEF Tick
  <2>2. CASE TickKey(keys[k]) = NoKey BY <2>1, <2>2 DEF KeyBacked, NoKey
  <2>3. CASE TickKey(keys[k]) # NoKey
    <3>1. /\ TickKey(keys[k]).req = keys[k].req
          /\ keys[k].ttl # 1
          /\ TickKey(keys[k]).ttl = Less(keys[k].ttl)
      BY <1>1, <2>3 DEF TickKey, KeyEntries
    <3>2. keys[k].req # None => keys[k].req \in Requests
      BY <1>1 DEF KeyEntries
    <3>3. keys[k].req # None =>
            IF IsPermanent(keys[k].req) THEN Less(keys[k].ttl) = 0
            ELSE Less(keys[k].ttl) \in 1..Seconds[keys[k].req]
      BY <1>1, <3>1, <3>2, DurationAssumption DEF KeyBacked, Less, KeyEntries
    <3> QED BY <1>1, <2>1, <3>1, <3>2, <3>3 DEF KeyBacked, ApprovedStay
  <2> QED BY <2>2, <2>3
<1>5. CASE keys'[k] = NoKey BY <1>5 DEF KeyBacked, NoKey
<1>6. CASE \E ks \in SUBSET Keys : keys' = [l \in Keys |-> IF l \in ks THEN NoKey ELSE keys[l]]
  <2>1. keys'[k] = NoKey \/ keys'[k] = keys[k] BY <1>6
  <2> QED BY <2>1, <1>2, <1>5
<1> QED BY <1>2, <1>3, <1>4, <1>6, KeysFrame

LEMMA LeaseStep ==
  PositiveDurations /\ TypeOK /\ LeaseInv /\ [Next]_vars => LeaseInv'
<1> SUFFICES ASSUME PositiveDurations, TypeOK, LeaseInv, [Next]_vars PROVE LeaseInv'
  OBVIOUS
<1>1. DocsBacked' /\ ApprovedStay
  BY DocsStep DEF ApprovedStay, WasApproved
<1>2. \A p \in Handlers : Carries(p)' BY <1>1, HandlersStep
<1>3. \A k \in Keys : KeyBacked(k)' BY <1>1, KeysStep
<1> QED BY <1>1, <1>2, <1>3 DEF LeaseInv

LEMMA LeaseInit == Init => LeaseInv
  BY DurationAssumption
  DEF Init, LeaseInv, DocsBacked, Carries, KeyBacked, Idle, NoKey, NoExpiry, WasApproved

-----------------------------------------------------------------------------
(* Theorems *)

LEMMA LeaseAlways == ASSUME PositiveDurations PROVE Spec => [](TypeOK /\ LeaseInv)
<1>1. TypeOK /\ LeaseInv /\ [Next]_vars => LeaseInv'
  BY LeaseStep
<1> QED BY <1>1, TypeCorrect, LeaseInit, PTL DEF Spec

\* The key of a temporal grant has an EX of at most the duration asked for and
\* that of a permanent one has none, whoever wrote it last (setGrant).
THEOREM KeysLiveTheirTime == ASSUME PositiveDurations PROVE Spec => []KeyLifetime
<1>1. LeaseInv => KeyLifetime
  BY DEF LeaseInv, KeyBacked, KeyLifetime
<1> QED BY <1>1, LeaseAlways, PTL

\* A key, and a granted answer, names a request of that user for that resource
\* that was approved before (approve() and the fallback of checkAccess).
THEOREM KeysNameApprovals == ASSUME PositiveDurations PROVE Spec => []GrantProvenance
<1>1. LeaseInv => GrantProvenance
  BY DEF LeaseInv, KeyBacked, Carries, GrantProvenance
<1> QED BY <1>1, LeaseAlways, PTL

-----------------------------------------------------------------------------
(* The refinement *)

ApprovedSet == {r \in Requests : WasApproved(r)}
LeaseOf(k) == [req |-> keys[k].req, left |-> GrantTtl(k)]

LEMMA RefinesInit == Init => Lease!Init
  BY DEF Init, Lease!Init, Lease!NoLease, Lease!Absent, WasApproved, GrantTtl, NoKey,
         NoExpiry, NoSuchKey

LEMMA RefinesRenew ==
  ASSUME TypeOK, UNCHANGED docs, NEW r \in Requests, NEW t \in Nat, WasApproved(r),
         LeaseTtl(r, t), keys' = [keys EXCEPT ![KeyOf(r)] = [req |-> r, ttl |-> t]]
  PROVE  Lease!Renew(r)
<1> DEFINE left == IF t = 0 THEN NoExpiry ELSE t
<1>1. KeyOf(r) \in Keys BY KeyOfType
<1>2. \A k \in Keys : LeaseOf(k)' = IF k = KeyOf(r) THEN [req |-> r, left |-> left] ELSE LeaseOf(k)
  <2> SUFFICES ASSUME NEW k \in Keys
               PROVE  LeaseOf(k)' = IF k = KeyOf(r) THEN [req |-> r, left |-> left] ELSE LeaseOf(k)
    OBVIOUS
  <2>1. CASE k = KeyOf(r)
    <3>1. keys'[k] = [req |-> r, ttl |-> t] BY <2>1 DEF TypeOK
    <3>2. r # None BY NoneAssumption
    <3> QED BY <2>1, <3>1, <3>2 DEF LeaseOf, GrantTtl
  <2>2. CASE k # KeyOf(r)
    <3>1. keys'[k] = keys[k] BY <2>2 DEF TypeOK
    <3> QED BY <2>2, <3>1 DEF LeaseOf, GrantTtl
  <2> QED BY <2>1, <2>2
<1>3. left \in Lease!Terms(r)
  BY DurationAssumption
  DEF LeaseTtl, Lease!Terms, Lease!Forever, Duration, NoExpiry
<1>4. [k \in Keys |-> LeaseOf(k)]' =
        [[k \in Keys |-> LeaseOf(k)] EXCEPT ![KeyOf(r)] = [req |-> r, left |-> left]]
  BY <1>1, <1>2
<1>5. ApprovedSet' = ApprovedSet /\ r \in ApprovedSet
  BY DEF ApprovedSet, WasApproved
<1> HIDE DEF left
<1> QED BY <1>3, <1>4, <1>5 DEF Lease!Renew, LeaseOf, ApprovedSet

LEMMA RefinesEnd ==
  ASSUME TypeOK, UNCHANGED docs, NEW ks \in SUBSET Keys,
         keys' = [k \in Keys |-> IF k \in ks THEN NoKey ELSE keys[k]]
  PROVE  Lease!End(ks)
<1>1. \A k \in Keys : LeaseOf(k)' = IF k \in ks THEN Lease!NoLease ELSE LeaseOf(k)
  BY DEF LeaseOf, GrantTtl, NoKey, Lease!NoLease, Lease!Absent, NoSuchKey
<1>2. ApprovedSet' = ApprovedSet
  BY DEF ApprovedSet, WasApproved
<1> QED BY <1>1, <1>2 DEF Lease!End, LeaseOf, ApprovedSet

\* A step that approves nobody and leaves the keys alone
LEMMA RefinesStutter ==
  ASSUME TypeOK, UNCHANGED keys,
         \A r \in Requests : WasApproved(r) <=> WasApproved(r)'
  PROVE  UNCHANGED Lease!lvars
<1>1. ApprovedSet' = ApprovedSet
  BY DEF ApprovedSet
<1>2. \A k \in Keys : LeaseOf(k)' = LeaseOf(k)
  BY DEF LeaseOf, GrantTtl
<1> QED BY <1>1, <1>2 DEF Lease!lvars, LeaseOf, ApprovedSet

LEMMA RefinesApprove ==
  ASSUME TypeOK, LeaseInv, NEW p \in Handlers, ApproveSave(p)
  PROVE  Lease!Approve(hs[p].req)
<1>1. UNCHANGED keys BY DEF ApproveSave
<1>2. ApprovedSet' = ApprovedSet \cup {hs[p].req}
  <2>1. hs[p].req \in Requests /\ WasApproved(hs[p].req)'
    BY SaveApproves
  <2>2. \A r \in Requests : r # hs[p].req => docs'[r] = docs[r]
    BY SaveApproves
  <2>3. hs'[p].req = hs[p].req
    BY DEF ApproveSave, Advance, TypeOK, HandlerStates
  <2>4. \A r \in Requests : WasApproved(r)' <=> WasApproved(r) \/ r = hs[p].req
    BY <2>1, <2>2, <2>3 DEF WasApproved
  <2> QED BY <2>1, <2>4 DEF ApprovedSet
<1>3. \A k \in Keys : LeaseOf(k)' = LeaseOf(k)
  BY <1>1 DEF LeaseOf, GrantTtl
<1> QED BY <1>2, <1>3 DEF Lease!Approve, LeaseOf, ApprovedSet

LEMMA RefinesPass == ASSUME TypeOK, Tick PROVE Lease!Pass
<1>1. \A r \in Requests : WasApproved(r)' <=> WasApproved(r)
  <2> SUFFICES ASSUME NEW r \in Requests PROVE WasApproved(r)' <=> WasApproved(r)
    OBVIOUS
  <2>1. /\ docs'[r].expiresIn = Less(docs[r].expiresIn)
        /\ docs'[r].isPermanent = docs[r].isPermanent
        /\ docs[r].expiresIn \in Nat \cup {NoExpiry}
    BY DEF Tick, TypeOK, Docs
  <2> QED BY <2>1, LessTimer DEF WasApproved
<1>2. \A k \in Keys : LeaseOf(k)' = Lease!Aged(LeaseOf(k))
  <2> SUFFICES ASSUME NEW k \in Keys PROVE LeaseOf(k)' = Lease!Aged(LeaseOf(k))
    OBVIOUS
  <2>1. keys'[k] = TickKey(keys[k]) /\ keys[k] \in KeyEntries
    BY DEF Tick, TypeOK
  <2>2. CASE keys[k].req = None
    <3>1. keys'[k].req = None BY <2>1, <2>2 DEF TickKey, KeyEntries, NoKey
    <3>2. LeaseOf(k)' = LeaseOf(k) /\ LeaseOf(k).left = NoSuchKey
      BY <2>2, <3>1 DEF LeaseOf, GrantTtl
    <3> QED BY <3>2 DEF Lease!Aged, NoSuchKey
  <2>3. CASE keys[k].req # None /\ keys[k].ttl = 0
    <3>1. keys'[k] = keys[k] BY <2>1, <2>3 DEF TickKey, KeyEntries, Less
    <3>2. LeaseOf(k)' = LeaseOf(k) /\ LeaseOf(k).left = NoExpiry
      BY <2>3, <3>1 DEF LeaseOf, GrantTtl
    <3> QED BY <3>2 DEF Lease!Aged, NoExpiry
  <2>4. CASE keys[k].req # None /\ keys[k].ttl = 1
    <3>1. keys'[k] = NoKey BY <2>1, <2>4 DEF TickKey
    <3>2. LeaseOf(k)' = Lease!NoLease
      BY <3>1 DEF LeaseOf, GrantTtl, NoKey, Lease!NoLease, Lease!Absent, NoSuchKey
    <3>3. LeaseOf(k).left = 1 BY <2>4 DEF LeaseOf, GrantTtl
    <3> QED BY <3>2, <3>3 DEF Lease!Aged
  <2>5. CASE keys[k].req # None /\ keys[k].ttl > 1
    <3>1. keys'[k].req = keys[k].req /\ keys'[k].ttl = keys[k].ttl - 1 /\ keys[k].ttl \in Nat
      BY <2>1, <2>5 DEF TickKey, KeyEntries, Less
    <3>2. /\ LeaseOf(k) = [req |-> keys[k].req, left |-> keys[k].ttl]
          /\ LeaseOf(k)' = [req |-> keys[k].req, left |-> keys[k].ttl - 1]
      BY <2>5, <3>1 DEF LeaseOf, GrantTtl
    <3> QED BY <2>5, <3>1, <3>2 DEF Lease!Aged
  <2> QED BY <2>1, <2>2, <2>3, <2>4, <2>5 DEF KeyEntries
<1> QED BY <1>1, <1>2 DEF Lease!Pass, LeaseOf

LEMMA RefinesStep ==
  PositiveDurations /\ TypeOK /\ LeaseInv /\ [Next]_vars => [Lease!Next]_(Lease!lvars)
<1> SUFFICES ASSUME PositiveDurations, TypeOK, LeaseInv, [Next]_vars
             PROVE  Lease!Next \/ UNCHANGED Lease!lvars
  OBVIOUS
<1>1. CASE \E p \in Handlers : ApproveGrant(p) \/ CheckSet(p)
  <2>1. UNCHANGED docs BY <1>1, Renewal
  <2>2. PICK r \in Requests, t \in Nat :
              /\ WasApproved(r) /\ LeaseTtl(r, t)
              /\ keys' = [keys EXCEPT ![KeyOf(r)] = [req |-> r, ttl |-> t]]
    BY <1>1, Renewal
  <2>3. Lease!Renew(r) BY <2>1, <2>2, RefinesRenew
  <2> QED BY <2>3 DEF Lease!Next
<1>2. CASE Tick BY <1>2, RefinesPass DEF Lease!Next
<1>3. CASE UNCHANGED docs /\ \E ks \in SUBSET Keys :
              keys' = [k \in Keys |-> IF k \in ks THEN NoKey ELSE keys[k]]
  <2>1. PICK ks \in SUBSET Keys : keys' = [k \in Keys |-> IF k \in ks THEN NoKey ELSE keys[k]]
    BY <1>3
  <2>2. Lease!End(ks) BY <1>3, <2>1, RefinesEnd
  <2> QED BY <2>2 DEF Lease!Next
<1>4. CASE UNCHANGED keys /\ ~Tick
  <2>1. CASE \E p \in Handlers : ApproveSave(p)
    <3>1. PICK p \in Handlers : ApproveSave(p) BY <2>1
    <3>2. hs[p].req \in Requests BY <3>1, SaveApproves
    <3>3. Lease!Approve(hs[p].req) BY <3>1, RefinesApprove
    <3> QED BY <3>2, <3>3 DEF Lease!Next
  <2>2. CASE \A p \in Handlers : ~ApproveSave(p)
    <3>1. \A r \in Requests : WasApproved(r) <=> WasApproved(r)'
      BY <2>2, <1>4, DocsFrame DEF WasApproved
    <3> QED BY <1>4, <3>1, RefinesStutter
  <2> QED BY <2>1, <2>2
<1> QED BY <1>1, <1>2, <1>3, <1>4, KeysFrame

\* Every step on a key is one of a lease: reviews, access checks, the worker,
\* failures and time renew, age and end the keys, and do nothing else to them.
THEOREM GrantsAreLeases == ASSUME PositiveDurations PROVE Spec => ImplementsLease
<1>1. TypeOK /\ LeaseInv /\ [Next]_vars => [Lease!Next]_(Lease!lvars)
  BY RefinesStep
<1> QED BY <1>1, RefinesInit, LeaseAlways, PTL DEF Spec, ImplementsLease, Lease!Spec
=============================================================================
