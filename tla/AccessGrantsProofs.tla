------------------------- MODULE AccessGrantsProofs -------------------------
(***************************************************************************)
(* Theorems about AccessGrants, for any number of users, resources,        *)
(* requests, handlers and failures, and any durations.                     *)
(***************************************************************************)
EXTENDS AccessGrants, TLAPS

-----------------------------------------------------------------------------
(* Operators *)

\* A timer that loses a second stays a timer; "no date" stays "no date".
LEMMA LessTimer ==
  ASSUME NEW n \in Nat \cup {NoExpiry}
  PROVE  /\ Less(n) \in Nat \cup {NoExpiry}
         /\ Less(n) = NoExpiry <=> n = NoExpiry
         /\ n \in Nat => Less(n) \in Nat /\ Less(n) <= n
  BY DEF Less, NoExpiry

\* Ticking a key entry, a job or a handler gives one again.
LEMMA TickKeyType ==
  ASSUME NEW e \in KeyEntries
  PROVE  /\ TickKey(e) \in KeyEntries
         /\ TickKey(e).req \in {e.req, None}
  BY DEF TickKey, KeyEntries, Less, NoKey

LEMMA TickJobType ==
  ASSUME NEW j \in Jobs
  PROVE  /\ [j EXCEPT !.delay = Less(@)] \in Jobs
         /\ [j EXCEPT !.delay = Less(@)].req = j.req
  BY DEF Jobs, Less

LEMMA TickHandlerType ==
  ASSUME NEW h \in HandlerStates
  PROVE  /\ TickHandler(h) \in HandlerStates
         /\ TickHandler(h).pc = h.pc /\ TickHandler(h).req = h.req
         /\ TickHandler(h).user = h.user /\ TickHandler(h).res = h.res
         /\ h.pc # "approve" => TickHandler(h).left = h.left
  BY DEF TickHandler, HandlerStates, Less, NoExpiry, NoSuchKey

\* What a Redis TTL command answers
LEMMA GrantTtlType ==
  ASSUME TypeOK, NEW k \in Keys
  PROVE  GrantTtl(k) \in Nat \cup {NoExpiry, NoSuchKey}
  BY DEF GrantTtl, TypeOK, KeyEntries

LEMMA IdleType ==
  /\ Idle \in HandlerStates /\ HandlerOK(Idle)
  /\ IdleWorker \in [pc : WorkerPcs, job : Jobs \cup {NoJob}]
  BY DEF Idle, IdleWorker, HandlerOK, HandlerStates, ReviewPcs, CheckPcs, WorkerPcs

LEMMA KeyOfType == \A r \in Requests : KeyOf(r) \in Keys
  BY RequestAssumption DEF KeyOf, Keys

-----------------------------------------------------------------------------
(* Type correctness *)

LEMMA InitType == Init => TypeOK
  BY FaultAssumption, IdleType
  DEF Init, TypeOK, Docs, Statuses, NoExpiry, KeyEntries, NoKey, IdleWorker

\* A step that moves one handler to a well-typed state and leaves the other
\* parts well-typed keeps TypeOK.
HandlersOK == hs \in [Handlers -> HandlerStates] /\ \A p \in Handlers : HandlerOK(hs[p])

LEMMA GotoType ==
  ASSUME HandlersOK, NEW p \in Handlers,
         NEW s \in HandlerStates, HandlerOK(s), Goto(p, s)
  PROVE  HandlersOK'
  BY DEF HandlersOK, Goto, HandlerOK

\* The steps that start a handler
LEMMA ArriveType ==
  ASSUME TypeOK, NEW p \in Handlers, Arrive(p)
  PROVE  TypeOK'
<1>1. HandlersOK BY DEF TypeOK, HandlersOK
<1>2. SUFFICES HandlersOK'
  BY <1>2 DEF TypeOK, HandlersOK, Arrive, ApproveRead, RejectRead, RevokeRead, CheckGet, HandlerOK
<1>3. ASSUME NEW r \in Requests, NEW u \in Users,
             ApproveRead(p, r, u) \/ RejectRead(p, r, u) \/ RevokeRead(p, r, u)
      PROVE  HandlersOK'
  <2> DEFINE s(pc, left) == [pc |-> pc, req |-> r, user |-> u, res |-> None,
                             left |-> left, seen |-> docs[r].reviewer]
  <2>1. PICK pc \in {"approve", "reject", "revoke"}, left \in Nat \cup {NoExpiry} :
          Goto(p, s(pc, left))
    BY <1>3, DurationAssumption DEF ApproveRead, RejectRead, RevokeRead, Review, Duration
  <2>2. docs[r].reviewer \in Users \cup {None}
    BY DEF TypeOK, Docs
  <2>3. s(pc, left) \in HandlerStates /\ HandlerOK(s(pc, left))
    BY <2>2 DEF HandlerStates, HandlerOK, ReviewPcs, CheckPcs, NoExpiry, NoSuchKey
  <2> QED BY <1>1, <2>1, <2>3, GotoType
<1>4. ASSUME NEW u \in Users, NEW res \in Resources, CheckGet(p, u, res)
      PROVE  HandlersOK'
  <2>1. keys[<<u, res>>] \in KeyEntries
    BY DEF TypeOK, Keys
  <2> DEFINE s == [Idle EXCEPT
                     !.pc = IF keys[<<u, res>>].req = None THEN "find" ELSE "ttl",
                     !.req = keys[<<u, res>>].req, !.user = u, !.res = res]
  <2>2. s \in HandlerStates /\ HandlerOK(s)
    BY <2>1 DEF HandlerStates, HandlerOK, ReviewPcs, CheckPcs, KeyEntries, Idle
  <2>3. Goto(p, s) BY <1>4 DEF CheckGet
  <2> QED BY <1>1, <2>2, <2>3, GotoType
<1> QED BY <1>3, <1>4 DEF Arrive

\* A handler that starts leaves the others alone.
LEMMA ArriveFrame ==
  ASSUME TypeOK, NEW p \in Handlers, Arrive(p)
  PROVE  /\ \A q \in Handlers : q # p => hs'[q] = hs[q]
         /\ hs[p].pc = "idle"
         /\ hs'[p].pc \in {"approve", "reject", "revoke", "find", "ttl"}
<1> USE DEF TypeOK, Goto
<1>1. ASSUME NEW r \in Requests, NEW u \in Users,
             ApproveRead(p, r, u) \/ RejectRead(p, r, u) \/ RevokeRead(p, r, u)
      PROVE  /\ \A q \in Handlers : q # p => hs'[q] = hs[q]
             /\ hs[p].pc = "idle" /\ hs'[p].pc \in {"approve", "reject", "revoke"}
  BY <1>1 DEF ApproveRead, RejectRead, RevokeRead, Review
<1>2. ASSUME NEW u \in Users, NEW res \in Resources, CheckGet(p, u, res)
      PROVE  /\ \A q \in Handlers : q # p => hs'[q] = hs[q]
             /\ hs[p].pc = "idle" /\ hs'[p].pc \in {"find", "ttl"}
  BY <1>2 DEF CheckGet, Idle
<1> QED BY <1>1, <1>2 DEF Arrive

\* A continuing handler leaves the others alone and is past its first read.
LEMMA ContinueFrame ==
  ASSUME TypeOK, NEW p \in Handlers, Continue(p)
  PROVE  /\ \A q \in Handlers : q # p => hs'[q] = hs[q]
         /\ hs'[p].pc \in {"idle", "grant", "schedule", "delete", "rehydrate", "granted"}
<1> USE DEF TypeOK, Goto, Advance, HandlerStates
<1>1. CASE CheckFind(p)
  <2>1. CASE Goto(p, Idle) BY <2>1 DEF Idle
  <2>2. CASE ~Goto(p, Idle)
    <3>1. PICK r \in ApprovedFor(Asked(p)) :
            hs' = [hs EXCEPT ![p].req = r, ![p].left = docs[r].expiresIn,
                             ![p].pc = IF docs[r].expiresIn = 0 THEN "granted"
                                       ELSE "rehydrate"]
      BY <1>1, <2>2 DEF CheckFind
    <3>2. hs'[p].pc \in {"granted", "rehydrate"}
      BY <3>1
    <3> QED BY <3>1, <3>2
  <2> QED BY <2>1, <2>2
<1>2. CASE ApproveSave(p) \/ RevokeSave(p) \/ CheckTtl(p) \/ CheckSet(p)
  BY <1>2 DEF ApproveSave, RevokeSave, CheckTtl, CheckSet
<1>3. CASE ApproveGrant(p)
  BY <1>3 DEF ApproveGrant, Idle
<1>4. CASE ApproveSchedule(p) \/ RejectSave(p) \/ RevokeDelete(p) \/ Respond(p)
  BY <1>4 DEF ApproveSchedule, RejectSave, RevokeDelete, Respond, Idle
<1> QED BY <1>1, <1>2, <1>3, <1>4 DEF Continue

\* The later steps of a handler: the documents, keys and jobs they write ...
LEMMA ContinueData ==
  ASSUME TypeOK, NEW p \in Handlers, Continue(p)
  PROVE  /\ docs' \in [Requests -> Docs]
         /\ keys' \in [Keys -> KeyEntries]
         /\ jobs' \subseteq Jobs
<1>1. HandlerOK(hs[p]) /\ hs[p] \in HandlerStates
  BY DEF TypeOK
<1>2. CASE ApproveSave(p) \/ RejectSave(p) \/ RevokeSave(p)
  <2>1. hs[p].user \in Users /\ (hs[p].pc = "approve" => hs[p].left \in Nat \cup {NoExpiry})
    BY <1>1, <1>2 DEF ApproveSave, RejectSave, RevokeSave, HandlerOK, HandlerStates, ReviewPcs
  <2>2. IsPermanent(hs[p].req) \in BOOLEAN
    BY DEF IsPermanent
  <2> QED
    BY <1>2, <2>1, <2>2 DEF TypeOK, Docs, Statuses, ApproveSave, RejectSave, RevokeSave
<1>3. CASE ApproveGrant(p)
  <2>1. hs[p].req \in Requests
    BY <1>1, <1>3 DEF ApproveGrant, HandlerOK
  <2> QED
    BY <1>3, <2>1, DurationAssumption DEF TypeOK, ApproveGrant, SetGrant, KeyEntries
<1>4. CASE RevokeDelete(p)
  BY <1>4 DEF TypeOK, RevokeDelete, DeleteGrantKey, KeyEntries, NoKey
<1>5. CASE CheckSet(p)
  <2>1. hs[p].req \in Requests /\ hs[p].left \in Nat \cup {NoExpiry}
    BY <1>1, <1>5 DEF CheckSet, HandlerOK, HandlerStates
  <2> QED
    BY <1>5, <2>1 DEF TypeOK, CheckSet, SetGrant, KeyEntries
<1>6. CASE ApproveSchedule(p)
  <2>1. hs[p].req \in Requests
    BY <1>1, <1>6 DEF ApproveSchedule, HandlerOK
  <2> QED
    BY <1>6, <2>1, DurationAssumption DEF TypeOK, ApproveSchedule, Jobs, MaxStalledCount
<1>7. CASE CheckTtl(p) \/ CheckFind(p) \/ Respond(p)
  BY <1>7 DEF TypeOK, CheckTtl, CheckFind, Respond
<1> QED BY <1>2, <1>3, <1>4, <1>5, <1>6, <1>7 DEF Continue

\* ... and the handlers themselves.
LEMMA ContinueType ==
  ASSUME TypeOK, NEW p \in Handlers, Continue(p)
  PROVE  TypeOK'
<1>1. /\ HandlersOK /\ HandlerOK(hs[p]) /\ hs[p] \in HandlerStates
  BY DEF TypeOK, HandlersOK
<1>2. SUFFICES HandlersOK'
  BY <1>2, ContinueData
  DEF TypeOK, HandlersOK, Continue, ApproveSave, ApproveGrant, ApproveSchedule,
      RejectSave, RevokeSave, RevokeDelete, CheckTtl, CheckFind, CheckSet, Respond
<1>3. ASSUME Goto(p, Idle) PROVE HandlersOK'
  BY <1>1, <1>3, IdleType, GotoType
<1>4. ASSUME NEW pc \in {"grant", "schedule", "delete"}, Advance(p, pc),
             hs[p].pc \in {"approve", "grant", "revoke"}
      PROVE  HandlersOK'
  <2> DEFINE s == [hs[p] EXCEPT !.pc = pc]
  <2>1. s \in HandlerStates /\ HandlerOK(s)
    BY <1>1, <1>4 DEF HandlerStates, HandlerOK, ReviewPcs, CheckPcs
  <2>2. Goto(p, s) BY <1>1, <1>4 DEF Goto, Advance, HandlersOK
  <2> QED BY <1>1, <2>1, <2>2, GotoType
<1>5. ASSUME CheckTtl(p) PROVE HandlersOK'
  <2> DEFINE s == [hs[p] EXCEPT !.pc = "granted", !.left = GrantTtl(Asked(p))]
  <2>1. Asked(p) \in Keys
    BY <1>1, <1>5 DEF CheckTtl, Asked, Keys, HandlerOK, CheckPcs
  <2>2. s \in HandlerStates /\ HandlerOK(s)
    BY <1>1, <1>5, <2>1, GrantTtlType DEF CheckTtl, HandlerStates, HandlerOK, ReviewPcs, CheckPcs
  <2>3. Goto(p, s) BY <1>1, <1>5 DEF Goto, CheckTtl, HandlersOK
  <2> QED BY <1>1, <2>2, <2>3, GotoType
<1>6. ASSUME CheckFind(p), ~Goto(p, Idle) PROVE HandlersOK'
  <2>1. PICK r \in ApprovedFor(Asked(p)) :
          hs' = [hs EXCEPT ![p].req = r, ![p].left = docs[r].expiresIn,
                           ![p].pc = IF docs[r].expiresIn = 0 THEN "granted"
                                     ELSE "rehydrate"]
    BY <1>6 DEF CheckFind
  <2> DEFINE s == [hs[p] EXCEPT !.req = r, !.left = docs[r].expiresIn,
                                !.pc = IF docs[r].expiresIn = 0 THEN "granted"
                                       ELSE "rehydrate"]
  <2>2. r \in Requests /\ docs[r].expiresIn \in Nat \cup {NoExpiry}
    BY DEF ApprovedFor, TypeOK, Docs
  <2>3. s \in HandlerStates /\ HandlerOK(s)
    <3>1. hs[p].pc = "find" BY <1>6 DEF CheckFind
    <3>2. s.pc \in {"granted", "rehydrate"} BY <1>1 DEF HandlerStates
    <3>3. s \in HandlerStates
      BY <1>1, <2>2 DEF HandlerStates, CheckPcs
    <3>4. /\ s.req = r /\ s.left = docs[r].expiresIn
          /\ s.user = hs[p].user /\ s.res = hs[p].res
      BY <1>1 DEF HandlerStates
    <3>5. hs[p].user \in Users /\ hs[p].res \in Resources
      BY <1>1, <3>1 DEF HandlerOK, CheckPcs
    <3> HIDE DEF s
    <3> QED
      BY <2>2, <3>2, <3>3, <3>4, <3>5 DEF HandlerOK, ReviewPcs, NoExpiry, NoSuchKey
  <2>4. Goto(p, s) BY <1>1, <2>1 DEF Goto, HandlersOK
  <2> QED BY <1>1, <2>3, <2>4, GotoType
<1>7. ASSUME CheckSet(p) PROVE HandlersOK'
  <2> DEFINE s == [hs[p] EXCEPT !.pc = "granted"]
  <2>1. s \in HandlerStates /\ HandlerOK(s)
    BY <1>1, <1>7 DEF CheckSet, HandlerStates, HandlerOK, ReviewPcs, CheckPcs
  <2>2. Goto(p, s) BY <1>1, <1>7 DEF Goto, Advance, CheckSet, HandlersOK
  <2> QED BY <1>1, <2>1, <2>2, GotoType
<1> QED
  BY <1>3, <1>4, <1>5, <1>6, <1>7
  DEF Continue, ApproveSave, ApproveGrant, ApproveSchedule, RejectSave, RevokeSave,
      RevokeDelete, CheckFind, Respond

LEMMA WorkType ==
  ASSUME TypeOK, Work
  PROVE  TypeOK'
<1> USE DEF TypeOK
<1>1. CASE ExpireTake
  BY <1>1 DEF ExpireTake, WorkerPcs
<1>2. CASE ExpireRead
  BY <1>2, IdleType DEF ExpireRead, WorkerPcs, IdleWorker
<1>3. CASE ExpireSave
  <2>1. docs' \in [Requests -> Docs]
    BY <1>3 DEF ExpireSave, Docs, Statuses
  <2> QED BY <1>3, <2>1 DEF ExpireSave, WorkerPcs
<1>4. CASE ExpireDelete
  BY <1>4 DEF ExpireDelete, DeleteGrantKey, WorkerPcs, KeyEntries, NoKey
<1>5. CASE ExpireAudit
  BY <1>5, IdleType DEF ExpireAudit, IdleWorker, Jobs
<1> QED BY <1>1, <1>2, <1>3, <1>4, <1>5 DEF Work

LEMMA TickType ==
  ASSUME TypeOK, Tick
  PROVE  TypeOK'
<1> USE DEF TypeOK, Tick
<1>1. docs' \in [Requests -> Docs]
  <2>1. ASSUME NEW r \in Requests PROVE docs'[r] \in Docs
    BY LessTimer DEF Docs
  <2> QED BY <2>1
<1>2. keys' \in [Keys -> KeyEntries]
  BY TickKeyType
<1>3. jobs' \subseteq Jobs
  BY TickJobType
<1>4. hs' \in [Handlers -> HandlerStates] /\ \A p \in Handlers : HandlerOK(hs'[p])
  <2>1. ASSUME NEW p \in Handlers
        PROVE  hs'[p] \in HandlerStates /\ HandlerOK(hs'[p])
    <3>1. hs'[p] = TickHandler(hs[p]) OBVIOUS
    <3>2. hs[p].pc = "approve" => hs'[p].left # NoSuchKey
      BY <3>1, LessTimer DEF TickHandler, HandlerOK, HandlerStates, NoExpiry, NoSuchKey
    <3> QED BY <3>1, <3>2, TickHandlerType DEF HandlerOK
  <2> QED BY <2>1
<1> QED BY <1>1, <1>2, <1>3, <1>4

LEMMA FaultType ==
  ASSUME TypeOK, JobFails \/ Crash \/ RedisFlush \/ \E p \in Handlers : CallFails(p)
  PROVE  TypeOK'
<1>1. Fault => faults' \in 0..MaxFaults
  BY FaultAssumption DEF Fault, TypeOK
<1>2. ASSUME NEW p \in Handlers, CallFails(p) PROVE TypeOK'
  BY <1>1, <1>2, IdleType DEF CallFails, Goto, TypeOK
<1>3. CASE JobFails
  BY <1>1, <1>3, IdleType DEF JobFails, TypeOK, IdleWorker
<1>4. CASE Crash
  <2>1. jobs' \subseteq Jobs
    BY <1>4 DEF Crash, TypeOK, Jobs, MaxStalledCount
  <2> QED BY <1>1, <1>4, <2>1, IdleType DEF Crash, TypeOK, IdleWorker
<1>5. CASE RedisFlush
  <2>1. worker' \in [pc : WorkerPcs, job : Jobs \cup {NoJob}]
        /\ (worker'.pc # "idle" => worker'.job \in Jobs)
    BY <1>5 DEF RedisFlush, TypeOK, Jobs, MaxStalledCount
  <2> QED BY <1>1, <1>5, <2>1 DEF RedisFlush, TypeOK, KeyEntries, NoKey
<1> QED BY <1>2, <1>3, <1>4, <1>5

LEMMA NextType == TypeOK /\ [Next]_vars => TypeOK'
<1> SUFFICES ASSUME TypeOK, [Next]_vars PROVE TypeOK'
  OBVIOUS
<1>1. ASSUME NEW r \in Requests, Create(r) PROVE TypeOK'
  BY <1>1 DEF Create, TypeOK, Docs, Statuses
<1>2. CASE UNCHANGED vars
  BY <1>2 DEF vars, TypeOK
<1> QED
  BY <1>1, <1>2, ArriveType, ContinueType, WorkType, TickType, FaultType DEF Next

\* Every variable keeps its type, and a handler has at each of its awaits the
\* values that the code after the await uses.
THEOREM TypeCorrect == Spec => []TypeOK
  BY InitType, NextType, PTL DEF Spec

-----------------------------------------------------------------------------
(* Separation of duties *)

\* The guard of approve() and reject() still holds when the save is sent.
ReviewerInv ==
  /\ SeparationOfDuty
  /\ \A p \in Handlers : hs[p].pc \in {"approve", "reject"} =>
       hs[p].user # Requester[hs[p].req]

LEMMA ReviewerStep == TypeOK /\ ReviewerInv /\ [Next]_vars => ReviewerInv'
<1> SUFFICES ASSUME TypeOK, ReviewerInv, [Next]_vars PROVE ReviewerInv'
  OBVIOUS
<1> USE DEF ReviewerInv, SeparationOfDuty, TypeOK, Goto, Advance
<1>1. ASSUME NEW r \in Requests, Create(r) PROVE ReviewerInv'
  BY <1>1 DEF Create, Docs
<1>2. ASSUME NEW p \in Handlers, Arrive(p) PROVE ReviewerInv'
  <2>1. ASSUME NEW r \in Requests, NEW u \in Users,
               ApproveRead(p, r, u) \/ RejectRead(p, r, u)
        PROVE  ReviewerInv'
    BY <2>1 DEF ApproveRead, RejectRead, Review
  <2>2. ASSUME NEW r \in Requests, NEW u \in Users, RevokeRead(p, r, u)
        PROVE  ReviewerInv'
    BY <2>2 DEF RevokeRead, Review
  <2>3. ASSUME NEW u \in Users, NEW res \in Resources, CheckGet(p, u, res)
        PROVE  ReviewerInv'
    BY <2>3 DEF CheckGet, Idle
  <2> QED BY <1>2, <2>1, <2>2, <2>3 DEF Arrive
<1>3. ASSUME NEW p \in Handlers, Continue(p) PROVE ReviewerInv'
  <2>1. hs[p] \in HandlerStates /\ HandlerOK(hs[p])
    OBVIOUS
  <2>2. \A q \in Handlers : hs'[q].pc \in {"approve", "reject"} => hs'[q] = hs[q]
    BY <1>3, ContinueFrame
  <2>3. CASE ApproveSave(p) \/ RejectSave(p)
    <3>1. hs[p].user \in Users /\ hs[p].user # None /\ hs[p].user # Requester[hs[p].req]
      BY <2>1, <2>3, NoneAssumption DEF ApproveSave, RejectSave, HandlerOK, ReviewPcs
    <3>2. /\ docs'[hs[p].req].reviewer = hs[p].user
          /\ \A r \in Requests : r # hs[p].req => docs'[r] = docs[r]
      BY <2>1, <2>3 DEF ApproveSave, RejectSave, Docs, HandlerOK
    <3> QED BY <2>2, <3>1, <3>2
  <2>4. CASE RevokeSave(p)
    <3>1. /\ docs'[hs[p].req].status = "revoked"
          /\ \A r \in Requests : r # hs[p].req => docs'[r] = docs[r]
      BY <2>1, <2>4 DEF RevokeSave, Docs, HandlerOK
    <3> QED BY <2>2, <3>1
  <2>5. CASE UNCHANGED docs
    BY <2>2, <2>5
  <2> QED
    BY <1>3, <2>3, <2>4, <2>5
    DEF Continue, ApproveGrant, ApproveSchedule, RevokeDelete, CheckTtl, CheckFind, CheckSet, Respond
<1>4. CASE Work
  BY <1>4 DEF Work, ExpireTake, ExpireRead, ExpireSave, ExpireDelete, ExpireAudit, Docs
<1>5. CASE Tick
  <2>1. \A p \in Handlers : /\ hs'[p].pc = hs[p].pc
                            /\ hs'[p].req = hs[p].req /\ hs'[p].user = hs[p].user
    BY <1>5, TickHandlerType DEF Tick
  <2>2. \A r \in Requests : /\ docs'[r].status = docs[r].status
                            /\ docs'[r].reviewer = docs[r].reviewer
    BY <1>5 DEF Tick, Docs
  <2> QED BY <2>1, <2>2
<1>6. CASE JobFails \/ Crash \/ RedisFlush \/ \E p \in Handlers : CallFails(p)
  BY <1>6 DEF JobFails, Crash, RedisFlush, CallFails, Idle
<1>7. CASE UNCHANGED vars
  BY <1>7 DEF vars
<1> QED BY <1>1, <1>2, <1>3, <1>4, <1>5, <1>6, <1>7 DEF Next

\* No request is ever approved or rejected in the requester's own name, in
\* whatever order two reviews of it are saved.
THEOREM DutiesSeparated == Spec => []SeparationOfDuty
<1>1. Init => ReviewerInv
  BY DEF Init, ReviewerInv, SeparationOfDuty, Idle
<1>2. ReviewerInv => SeparationOfDuty
  BY DEF ReviewerInv
<1> QED BY <1>1, <1>2, ReviewerStep, TypeCorrect, PTL DEF Spec

-----------------------------------------------------------------------------
(* Expiry jobs *)

\* What had not failed after a step had not failed before it, nor in it.
LEMMA FaultFrame ==
  ASSUME TypeOK, [Next]_vars, faults' = 0
  PROVE  faults = 0 /\ ~Fault
<1>1. ~Fault
  BY FaultAssumption DEF Fault, TypeOK
<1>2. Fault \/ faults' = faults
  BY DEF Next, vars, Create, Arrive, ApproveRead, RejectRead, RevokeRead, CheckGet, Continue,
         ApproveSave, ApproveGrant, ApproveSchedule, RejectSave, RevokeSave, RevokeDelete,
         CheckTtl, CheckFind, CheckSet, Respond, Work, ExpireTake, ExpireRead, ExpireSave,
         ExpireDelete, ExpireAudit, Tick, CallFails, JobFails, Crash, RedisFlush
<1> QED BY <1>1, <1>2

LEMMA ScheduledStep == TypeOK /\ ExpiryScheduled /\ [Next]_vars => ExpiryScheduled'
<1> SUFFICES ASSUME TypeOK, ExpiryScheduled, [Next]_vars, faults' = 0,
                    NEW r \in Requests \ PermanentRequests, docs'[r].status = "approved"
             PROVE  \/ \E j \in jobs' : j.req = r
                    \/ \E p \in Handlers : hs'[p].pc \in {"grant", "schedule"} /\ hs'[p].req = r
                    \/ worker'.pc \in {"find", "save"} /\ worker'.job.req = r
  BY DEF ExpiryScheduled
<1> DEFINE Scheduled ==
      \/ \E j \in jobs : j.req = r
      \/ \E p \in Handlers : hs[p].pc \in {"grant", "schedule"} /\ hs[p].req = r
      \/ worker.pc \in {"find", "save"} /\ worker.job.req = r
<1>0. faults = 0 /\ ~Fault
  BY FaultFrame
<1>1. docs[r].status = "approved" => Scheduled
  BY <1>0 DEF ExpiryScheduled
<1> USE DEF TypeOK, Goto, Advance
<1>2. ASSUME NEW q \in Requests, Create(q) PROVE Scheduled'
  BY <1>1, <1>2 DEF Create, Docs
<1>3. ASSUME NEW p \in Handlers, Arrive(p) PROVE Scheduled'
  <2>1. UNCHANGED <<docs, jobs, worker>>
    BY <1>3 DEF Arrive, ApproveRead, RejectRead, RevokeRead, CheckGet
  <2>2. \A q \in Handlers : hs[q].pc \in {"grant", "schedule"} => hs'[q] = hs[q]
    BY <1>3 DEF Arrive, ApproveRead, RejectRead, RevokeRead, CheckGet, Review
  <2> QED BY <1>1, <2>1, <2>2
<1>4. ASSUME NEW p \in Handlers, Continue(p) PROVE Scheduled'
  <2>0. hs[p] \in HandlerStates /\ HandlerOK(hs[p])
    OBVIOUS
  <2>1. CASE ApproveSave(p)
    <3>1. CASE hs[p].req = r
      <4>1. hs'[p].pc = "grant" /\ hs'[p].req = r
        BY <2>0, <2>1, <3>1 DEF ApproveSave, HandlerStates
      <4> QED BY <4>1
    <3>2. CASE hs[p].req # r
      <4>1. docs'[r] = docs[r] /\ UNCHANGED <<jobs, worker>>
        BY <2>1, <3>2 DEF ApproveSave
      <4>2. \A q \in Handlers : hs[q].pc \in {"grant", "schedule"} => hs'[q] = hs[q]
        BY <2>1 DEF ApproveSave
      <4> QED BY <1>1, <4>1, <4>2
    <3> QED BY <3>1, <3>2
  <2>2. CASE ApproveGrant(p)
    <3>1. UNCHANGED <<docs, jobs, worker>>
      BY <2>2 DEF ApproveGrant
    <3>2. \A q \in Handlers : hs[q].pc \in {"grant", "schedule"} /\ hs[q].req = r =>
            hs'[q].pc \in {"grant", "schedule"} /\ hs'[q].req = r
      BY <2>0, <2>2 DEF ApproveGrant, HandlerStates, IsPermanent
    <3> QED BY <1>1, <3>1, <3>2
  <2>3. CASE ApproveSchedule(p)
    <3>1. CASE hs[p].req = r
      <4>1. [req |-> r, by |-> p, delay |-> Seconds[r], stalls |-> 0] \in jobs'
        BY <2>3, <3>1 DEF ApproveSchedule
      <4> QED BY <4>1
    <3>2. CASE hs[p].req # r
      <4>1. UNCHANGED <<docs, worker>> /\ jobs \subseteq jobs'
        BY <2>3 DEF ApproveSchedule
      <4>2. \A q \in Handlers : q # p => hs'[q] = hs[q]
        BY <1>4, ContinueFrame
      <4> QED BY <1>1, <3>2, <4>1, <4>2
    <3> QED BY <3>1, <3>2
  <2>4. CASE ~(ApproveSave(p) \/ ApproveGrant(p) \/ ApproveSchedule(p))
    <3>1. /\ hs[p].pc \notin {"grant", "schedule"}
          /\ UNCHANGED <<jobs, worker>>
          /\ docs'[r].status = "approved" => docs[r].status = "approved"
      <4>1. CASE RejectSave(p) \/ RevokeSave(p)
        <5>1. docs'[hs[p].req].status # "approved"
          BY <2>0, <4>1 DEF RejectSave, RevokeSave, Docs, HandlerOK
        <5>2. hs[p].req # r => docs'[r] = docs[r]
          BY <4>1 DEF RejectSave, RevokeSave
        <5> QED BY <4>1, <5>1, <5>2 DEF RejectSave, RevokeSave
      <4>2. CASE RevokeDelete(p) \/ CheckTtl(p) \/ CheckFind(p) \/ CheckSet(p) \/ Respond(p)
        BY <4>2 DEF RevokeDelete, CheckTtl, CheckFind, CheckSet, Respond
      <4> QED BY <1>4, <2>4, <4>1, <4>2 DEF Continue
    <3> QED BY <1>1, <1>4, <3>1, ContinueFrame
  <2> QED BY <2>1, <2>2, <2>3, <2>4
<1>5. CASE Work
  <2>1. CASE ExpireTake
    BY <1>1, <2>1 DEF ExpireTake
  <2>2. CASE ExpireRead
    BY <1>1, <2>2 DEF ExpireRead, IdleWorker
  <2>3. CASE ExpireSave
    BY <1>1, <2>3 DEF ExpireSave, Docs
  <2>4. CASE ExpireDelete \/ ExpireAudit
    BY <1>1, <2>4 DEF ExpireDelete, ExpireAudit
  <2> QED BY <1>5, <2>1, <2>2, <2>3, <2>4 DEF Work
<1>6. CASE Tick
  <2>1. \A q \in Handlers : hs'[q].pc = hs[q].pc /\ hs'[q].req = hs[q].req
    BY <1>6, TickHandlerType DEF Tick
  <2>2. docs'[r].status = docs[r].status /\ UNCHANGED worker
    BY <1>6 DEF Tick, Docs
  <2>3. \A j \in jobs : \E i \in jobs' : i.req = j.req
    BY <1>6, TickJobType DEF Tick
  <2> QED BY <1>1, <2>1, <2>2, <2>3
<1>7. CASE UNCHANGED vars
  BY <1>1, <1>7 DEF vars
<1>8. Scheduled'
  BY <1>0, <1>2, <1>3, <1>4, <1>5, <1>6, <1>7
  DEF Next, CallFails, JobFails, Crash, RedisFlush
<1> QED BY <1>8

\* As long as nothing fails, every approved temporal grant has a job that will
\* close it, whatever reviews and expiries overlap.
THEOREM ExpiryAlwaysScheduled == Spec => []ExpiryScheduled
<1>1. Init => ExpiryScheduled
  BY DEF Init, ExpiryScheduled
<1> QED BY <1>1, ScheduledStep, TypeCorrect, PTL DEF Spec

-----------------------------------------------------------------------------
(* No expiry is lost on its way to the audit log *)

LEMMA ExpiryStep == TypeOK /\ ExpiryNotLost /\ [Next]_vars => ExpiryNotLost'
<1> SUFFICES ASSUME TypeOK, ExpiryNotLost, [Next]_vars, faults' = 0,
                    NEW r \in Requests, docs'[r].autoExpired
             PROVE  r \in audited' \/ (worker'.pc \in {"delete", "audit"} /\ worker'.job.req = r)
  BY DEF ExpiryNotLost
<1> DEFINE Traced == r \in audited \/ (worker.pc \in {"delete", "audit"} /\ worker.job.req = r)
<1>1. faults = 0 /\ ~Fault
  BY FaultFrame
<1>2. docs[r].autoExpired => Traced
  BY <1>1 DEF ExpiryNotLost
<1> USE DEF TypeOK
<1>3. CASE Work
  <2>1. CASE ExpireTake \/ ExpireRead
    BY <1>2, <2>1 DEF ExpireTake, ExpireRead
  <2>2. CASE ExpireSave
    BY <1>2, <2>2 DEF ExpireSave, Docs
  <2>3. CASE ExpireDelete \/ ExpireAudit
    BY <1>2, <2>3 DEF ExpireDelete, ExpireAudit
  <2> QED BY <1>3, <2>1, <2>2, <2>3 DEF Work
<1>4. CASE ~Work
  <2>1. UNCHANGED <<worker, audited>>
    BY <1>1, <1>4
    DEF Next, vars, Create, Arrive, ApproveRead, RejectRead, RevokeRead, CheckGet, Continue,
        ApproveSave, ApproveGrant, ApproveSchedule, RejectSave, RevokeSave, RevokeDelete,
        CheckTtl, CheckFind, CheckSet, Respond, Tick, CallFails, JobFails, Crash, RedisFlush
  <2>2. docs'[r].autoExpired = docs[r].autoExpired
    <3>1. docs[r] \in Docs
      OBVIOUS
    <3>2. ASSUME NEW p \in Handlers, ApproveSave(p) \/ RejectSave(p) \/ RevokeSave(p)
          PROVE  docs'[r].autoExpired = docs[r].autoExpired
      <4>1. CASE hs[p].req = r
        <5>1. CASE ApproveSave(p)
          BY <3>1, <4>1, <5>1 DEF ApproveSave, Docs
        <5>2. CASE RejectSave(p)
          BY <3>1, <4>1, <5>2 DEF RejectSave, Docs
        <5>3. CASE RevokeSave(p)
          BY <3>1, <4>1, <5>3 DEF RevokeSave, Docs
        <5> QED BY <3>2, <5>1, <5>2, <5>3
      <4>2. CASE hs[p].req # r
        BY <3>2, <4>2 DEF ApproveSave, RejectSave, RevokeSave
      <4> QED BY <4>1, <4>2
    <3>3. ASSUME NEW q \in Requests, Create(q)
          PROVE  docs'[r].autoExpired = docs[r].autoExpired
      BY <3>1, <3>3 DEF Create, Docs
    <3>4. CASE Tick
      BY <3>1, <3>4 DEF Tick, Docs
    <3>5. CASE UNCHANGED docs
      BY <3>5
    <3> QED
      BY <1>4, <3>2, <3>3, <3>4, <3>5
      DEF Next, vars, Arrive, ApproveRead, RejectRead, RevokeRead, CheckGet, Continue,
          ApproveGrant, ApproveSchedule, RevokeDelete, CheckTtl, CheckFind, CheckSet, Respond,
          CallFails, JobFails, Crash, RedisFlush
  <2> QED BY <1>2, <2>1, <2>2
<1> QED BY <1>3, <1>4

\* Until something fails, every expiry that the worker has written to MongoDB is
\* in the audit log or still in the worker's hands.
THEOREM ExpiryNeverLost == Spec => []ExpiryNotLost
<1>1. Init => ExpiryNotLost
  BY DEF Init, ExpiryNotLost
<1> QED BY <1>1, ExpiryStep, TypeCorrect, PTL DEF Spec

-----------------------------------------------------------------------------
(* No grant expires before its date *)

Decided(r) == docs[r].status \notin {"absent", "pending"}

\* No date of expiry of r, saved or held by a reviewer's handler that is about
\* to save it, is more than n seconds away.
Within(r, n) ==
  /\ docs[r].expiresIn <= n
  /\ \A p \in Handlers : hs[p].pc = "approve" /\ hs[p].req = r => hs[p].left <= n

\* A temporal grant that can be closed n seconds from now: it is decided, so
\* no further handler will read it as pending.
Due(r, n) ==
  /\ ~IsPermanent(r) /\ Decided(r)
  /\ docs[r].expiresIn # NoExpiry
  /\ Within(r, n)

DatesInv ==
  /\ \A r \in Requests : docs[r].expiresIn <= Seconds[r]
  /\ \A p \in Handlers : hs[p].pc = "approve" =>
       /\ hs[p].left <= Seconds[hs[p].req]
       /\ ~IsPermanent(hs[p].req) => hs[p].left # NoExpiry
  /\ \A p \in Handlers : hs[p].pc \in {"grant", "schedule"} =>
       /\ Decided(hs[p].req)
       /\ ~IsPermanent(hs[p].req) => docs[hs[p].req].expiresIn # NoExpiry
  /\ \A p \in Handlers : hs[p].pc = "schedule" => ~IsPermanent(hs[p].req)

JobsInv ==
  /\ \A j \in jobs : Due(j.req, j.delay)
  /\ \A r \in Requests : worker.pc # "idle" /\ worker.job.req = r => Due(r, 0)
  /\ \A r \in Requests : docs[r].status = "expired" => Due(r, 0)

\* What a step does to the documents, apart from the clock: only a save of
\* approve() moves a date of expiry, and a decision is never undone.
LEMMA DocFrame ==
  ASSUME TypeOK, [Next]_vars, ~Tick, NEW r \in Requests
  PROVE  /\ \/ docs'[r].expiresIn = docs[r].expiresIn
            \/ \E p \in Handlers : /\ ApproveSave(p) /\ hs[p].req = r
                                   /\ docs'[r].expiresIn = hs[p].left
         /\ Decided(r) => Decided(r)'
         /\ docs'[r].status = "expired" =>
              docs[r].status = "expired" \/ (ExpireSave /\ worker.job.req = r)
<1> USE DEF TypeOK, Decided
<1>1. ASSUME NEW q \in Requests, Create(q)
      PROVE  /\ docs'[r].expiresIn = docs[r].expiresIn
             /\ Decided(r) => Decided(r)'
             /\ docs'[r].status = "expired" => docs[r].status = "expired"
  BY <1>1 DEF Create, Docs
<1>2. ASSUME NEW p \in Handlers, ApproveSave(p) \/ RejectSave(p) \/ RevokeSave(p)
      PROVE  /\ docs'[r].expiresIn = docs[r].expiresIn
                  \/ (ApproveSave(p) /\ hs[p].req = r /\ docs'[r].expiresIn = hs[p].left)
             /\ Decided(r)' \/ docs'[r] = docs[r]
             /\ docs'[r].status = "expired" => docs[r].status = "expired"
  BY <1>2 DEF ApproveSave, RejectSave, RevokeSave, Docs
<1>3. ASSUME ExpireSave
      PROVE  /\ docs'[r].expiresIn = docs[r].expiresIn
             /\ Decided(r) => Decided(r)'
             /\ worker.job.req # r => docs'[r] = docs[r]
  BY <1>3 DEF ExpireSave, Docs
<1>4. CASE UNCHANGED docs
  BY <1>4
<1> QED
  BY <1>1, <1>2, <1>3, <1>4
  DEF Next, vars, Arrive, ApproveRead, RejectRead, RevokeRead, CheckGet, Continue, ApproveGrant,
      ApproveSchedule, RevokeDelete, CheckTtl, CheckFind, CheckSet, Respond, Work, ExpireTake,
      ExpireRead, ExpireDelete, ExpireAudit, CallFails, JobFails, Crash, RedisFlush

\* A handler that is about to save an approval had read the request as pending.
LEMMA ApproverFrame ==
  ASSUME TypeOK, [Next]_vars, ~Tick, NEW p \in Handlers, hs'[p].pc = "approve"
  PROVE  \/ hs'[p] = hs[p]
         \/ \E r \in Requests, u \in Users : ApproveRead(p, r, u)
<1> USE DEF TypeOK, Goto
<1>1. ASSUME NEW q \in Handlers, Arrive(q)
      PROVE  hs'[p] = hs[p] \/ \E r \in Requests, u \in Users : ApproveRead(p, r, u)
  <2>1. ASSUME NEW r \in Requests, NEW u \in Users, RejectRead(q, r, u) \/ RevokeRead(q, r, u)
        PROVE  hs'[p] = hs[p]
    BY <2>1 DEF RejectRead, RevokeRead, Review
  <2>2. ASSUME NEW u \in Users, NEW res \in Resources, CheckGet(q, u, res)
        PROVE  hs'[p] = hs[p]
    BY <2>2 DEF CheckGet, Idle
  <2>3. ASSUME NEW r \in Requests, NEW u \in Users, ApproveRead(q, r, u), q # p
        PROVE  hs'[p] = hs[p]
    BY <2>3 DEF ApproveRead, Review
  <2> QED BY <1>1, <2>1, <2>2, <2>3 DEF Arrive
<1>2. ASSUME NEW q \in Handlers, Continue(q) PROVE hs'[p] = hs[p]
  BY <1>2, ContinueFrame
<1>3. ASSUME NEW q \in Handlers, CallFails(q) PROVE hs'[p] = hs[p]
  BY <1>3 DEF CallFails, Idle
<1>4. ASSUME Crash PROVE FALSE
  BY <1>4 DEF Crash, Idle
<1>5. CASE UNCHANGED hs
  BY <1>5
<1> QED
  BY <1>1, <1>2, <1>3, <1>4, <1>5
  DEF Next, vars, Create, Work, ExpireTake, ExpireRead, ExpireSave, ExpireDelete, ExpireAudit,
      JobFails, RedisFlush

\* A grant that is due within n seconds stays so, second approvals included ...
LEMMA DueKept ==
  ASSUME TypeOK, DatesInv, [Next]_vars, ~Tick, NEW r \in Requests, NEW n \in Nat, Due(r, n)
  PROVE  Due(r, n)'
<1>1. Decided(r)'
  BY DocFrame DEF Due
<1>2. docs'[r].expiresIn # NoExpiry /\ docs'[r].expiresIn <= n
  <2>1. CASE docs'[r].expiresIn = docs[r].expiresIn
    BY <2>1 DEF Due, Within
  <2>2. ASSUME NEW p \in Handlers, ApproveSave(p), hs[p].req = r, docs'[r].expiresIn = hs[p].left
        PROVE  docs'[r].expiresIn # NoExpiry /\ docs'[r].expiresIn <= n
    BY <2>2 DEF Due, Within, DatesInv, ApproveSave
  <2> QED BY <2>1, <2>2, DocFrame
<1>3. ASSUME NEW p \in Handlers, hs'[p].pc = "approve", hs'[p].req = r
      PROVE  hs'[p].left <= n
  <2>1. ASSUME NEW q \in Requests, NEW u \in Users, ApproveRead(p, q, u) PROVE FALSE
    <3>1. hs'[p].req = q
      BY <2>1 DEF ApproveRead, Review, Goto, TypeOK
    <3> QED BY <1>3, <2>1, <3>1 DEF ApproveRead, Due, Decided
  <2> QED BY <1>3, <2>1, ApproverFrame DEF Due, Within
<1> QED BY <1>1, <1>2, <1>3 DEF Due, Within, IsPermanent

\* ... and the clock brings it nearer.
LEMMA DueTicks ==
  ASSUME TypeOK, Tick, NEW r \in Requests, NEW n \in Nat, Due(r, n)
  PROVE  Due(r, Less(n))'
<1>1. docs[r].expiresIn \in Nat \cup {NoExpiry} /\ docs[r].expiresIn <= n
  BY DEF TypeOK, Docs, Due, Within
<1>2. /\ docs'[r].status = docs[r].status
      /\ docs'[r].expiresIn = Less(docs[r].expiresIn)
  BY DEF Tick, TypeOK, Docs
<1>3. docs'[r].expiresIn # NoExpiry /\ docs'[r].expiresIn <= Less(n)
  BY <1>1, <1>2 DEF Due, Less, NoExpiry
<1>4. ASSUME NEW p \in Handlers, hs'[p].pc = "approve", hs'[p].req = r
      PROVE  hs'[p].left <= Less(n)
  <2>1. hs'[p] = TickHandler(hs[p]) /\ hs[p] \in HandlerStates /\ HandlerOK(hs[p])
    BY DEF Tick, TypeOK
  <2>2. hs[p].pc = "approve" /\ hs[p].req = r
    BY <1>4, <2>1, TickHandlerType
  <2>3. hs[p].left \in Nat \cup {NoExpiry} /\ hs[p].left <= n
    BY <2>1, <2>2 DEF HandlerOK, HandlerStates, Due, Within
  <2>4. hs'[p].left = Less(hs[p].left)
    BY <2>1, <2>2 DEF TickHandler, HandlerStates
  <2> QED BY <2>3, <2>4 DEF Less, NoExpiry
<1> QED BY <1>2, <1>3, <1>4 DEF Due, Within, Decided, IsPermanent

\* A handler of approve() past its save came from the save.
LEMMA GranterFrame ==
  ASSUME TypeOK, [Next]_vars, ~Tick, NEW p \in Handlers, hs'[p].pc \in {"grant", "schedule"}
  PROVE  \/ ApproveSave(p)
         \/ /\ hs[p].pc \in {"grant", "schedule"} /\ hs'[p].req = hs[p].req
            /\ hs'[p].pc = "schedule" => hs[p].pc = "schedule" \/ ~IsPermanent(hs[p].req)
<1> DEFINE Stays ==
      /\ hs[p].pc \in {"grant", "schedule"} /\ hs'[p].req = hs[p].req
      /\ hs'[p].pc = "schedule" => hs[p].pc = "schedule" \/ ~IsPermanent(hs[p].req)
<1> USE DEF TypeOK, Goto
<1>1. ASSUME NEW q \in Handlers, Arrive(q) PROVE Stays
  BY <1>1, ArriveFrame
<1>2. ASSUME NEW q \in Handlers, Continue(q) PROVE ApproveSave(p) \/ Stays
  <2>1. CASE q # p
    BY <1>2, <2>1, ContinueFrame
  <2>2. ASSUME ApproveGrant(p) PROVE Stays
    <3>1. ~IsPermanent(hs[p].req) /\ Advance(p, "schedule")
      BY <2>2 DEF ApproveGrant, Idle
    <3> QED BY <2>2, <3>1 DEF ApproveGrant, Advance, HandlerStates
  <2>3. ASSUME ApproveSchedule(p) \/ RejectSave(p) \/ RevokeDelete(p) \/ Respond(p) PROVE FALSE
    BY <2>3 DEF ApproveSchedule, RejectSave, RevokeDelete, Respond, Idle
  <2>4. ASSUME RevokeSave(p) \/ CheckTtl(p) \/ CheckSet(p) PROVE FALSE
    <3>1. hs'[p].pc \in {"delete", "granted"}
      BY <2>4 DEF RevokeSave, CheckTtl, CheckSet, Advance, HandlerStates
    <3> QED BY <3>1
  <2>5. ASSUME CheckFind(p) PROVE FALSE
    <3>1. CASE Goto(p, Idle) BY <3>1 DEF Idle
    <3>2. ASSUME NEW r \in Requests,
            hs' = [hs EXCEPT ![p].req = r, ![p].left = docs[r].expiresIn,
                             ![p].pc = IF docs[r].expiresIn = 0 THEN "granted"
                                       ELSE "rehydrate"]
          PROVE  FALSE
      <4>1. hs'[p].pc \in {"granted", "rehydrate"} BY <3>2 DEF HandlerStates
      <4> QED BY <4>1
    <3> QED BY <2>5, <3>1, <3>2 DEF CheckFind, ApprovedFor
  <2> QED BY <1>2, <2>1, <2>2, <2>3, <2>4, <2>5 DEF Continue
<1>3. ASSUME NEW q \in Handlers, CallFails(q) PROVE Stays
  BY <1>3 DEF CallFails, Idle
<1>4. ASSUME Crash PROVE FALSE
  BY <1>4 DEF Crash, Idle
<1>5. CASE UNCHANGED hs
  BY <1>5
<1> QED
  BY <1>1, <1>2, <1>3, <1>4, <1>5
  DEF Next, vars, Create, Work, ExpireTake, ExpireRead, ExpireSave, ExpireDelete, ExpireAudit,
      JobFails, RedisFlush

LEMMA DatesStep == TypeOK /\ DatesInv /\ [Next]_vars => DatesInv'
<1> SUFFICES ASSUME TypeOK, DatesInv, [Next]_vars PROVE DatesInv'
  OBVIOUS
<1> USE DEF IsPermanent
<1>1. CASE Tick
  <2>1. \A r \in Requests : /\ docs[r].expiresIn \in Nat \cup {NoExpiry}
                            /\ docs'[r].expiresIn = Less(docs[r].expiresIn)
                            /\ docs'[r].status = docs[r].status
    BY <1>1 DEF Tick, TypeOK, Docs
  <2>2. ASSUME NEW p \in Handlers
        PROVE  /\ hs'[p].pc = hs[p].pc /\ hs'[p].req = hs[p].req
               /\ hs[p].pc # "idle" /\ hs[p].pc # "find" => hs[p].req \in Requests
               /\ hs[p].pc = "approve" => /\ hs[p].left \in Nat \cup {NoExpiry}
                                          /\ hs'[p].left = Less(hs[p].left)
    <3>1. hs'[p] = TickHandler(hs[p]) /\ hs[p] \in HandlerStates /\ HandlerOK(hs[p])
      BY <1>1 DEF Tick, TypeOK
    <3>2. hs[p].pc = "approve" => hs'[p].left = Less(hs[p].left)
      BY <3>1 DEF TickHandler, HandlerStates
    <3> QED BY <3>1, <3>2, TickHandlerType DEF HandlerOK, HandlerStates
  <2>3. \A n \in Nat \cup {NoExpiry} :
          /\ Less(n) = NoExpiry <=> n = NoExpiry
          /\ \A m \in Nat : n <= m => Less(n) <= m
    <3>1. ASSUME NEW n \in Nat, NEW m \in Nat, n <= m
          PROVE  Less(n) \in Nat /\ Less(n) <= m
      BY <3>1 DEF Less
    <3>2. \A m \in Nat : Less(NoExpiry) = NoExpiry /\ NoExpiry <= m
      BY DEF Less, NoExpiry
    <3>3. \A n \in Nat : Less(n) \in Nat /\ n # NoExpiry
      BY DEF Less, NoExpiry
    <3> QED BY <3>1, <3>2, <3>3
  <2>4. ASSUME NEW r \in Requests PROVE docs'[r].expiresIn <= Seconds[r]
    <3>1. docs[r].expiresIn <= Seconds[r] BY DEF DatesInv
    <3>2. Seconds[r] \in Nat BY DurationAssumption
    <3> QED BY <2>1, <2>3, <3>1, <3>2
  <2>5. ASSUME NEW p \in Handlers, hs'[p].pc = "approve"
        PROVE  /\ hs'[p].left <= Seconds[hs'[p].req]
               /\ ~IsPermanent(hs'[p].req) => hs'[p].left # NoExpiry
    <3>1. Seconds[hs[p].req] \in Nat
      BY <2>2, <2>5, DurationAssumption
    <3> QED BY <2>2, <2>3, <2>5, <3>1 DEF DatesInv
  <2>6. ASSUME NEW p \in Handlers, hs'[p].pc \in {"grant", "schedule"}
        PROVE  /\ docs'[hs'[p].req].status \notin {"absent", "pending"}
               /\ ~IsPermanent(hs'[p].req) => docs'[hs'[p].req].expiresIn # NoExpiry
               /\ hs'[p].pc = "schedule" => ~IsPermanent(hs'[p].req)
    <3>1. hs[p].req \in Requests BY <2>2, <2>6
    <3> QED BY <2>1, <2>2, <2>3, <2>6, <3>1 DEF DatesInv, Decided
  <2> QED BY <2>4, <2>5, <2>6 DEF DatesInv, Decided
<1>2. CASE ~Tick
  <2>1. ASSUME NEW r \in Requests
        PROVE  /\ docs'[r].expiresIn <= Seconds[r]
               /\ ~IsPermanent(r) /\ docs[r].expiresIn # NoExpiry => docs'[r].expiresIn # NoExpiry
    <3>1. CASE docs'[r].expiresIn = docs[r].expiresIn
      BY <3>1 DEF DatesInv
    <3>2. ASSUME NEW p \in Handlers, ApproveSave(p), hs[p].req = r,
                 docs'[r].expiresIn = hs[p].left
          PROVE  /\ docs'[r].expiresIn <= Seconds[r]
                 /\ ~IsPermanent(r) => docs'[r].expiresIn # NoExpiry
      BY <3>2 DEF DatesInv, ApproveSave
    <3> QED BY <1>2, <3>1, <3>2, DocFrame
  <2>2. ASSUME NEW p \in Handlers, hs'[p].pc = "approve"
        PROVE  /\ hs'[p].left <= Seconds[hs'[p].req]
               /\ ~IsPermanent(hs'[p].req) => hs'[p].left # NoExpiry
    <3>1. ASSUME NEW r \in Requests, NEW u \in Users, ApproveRead(p, r, u)
          PROVE  hs'[p].req = r /\ hs'[p].left = Duration(r)
      BY <3>1 DEF ApproveRead, Review, Goto, TypeOK
    <3>2. \A r \in Requests : /\ Duration(r) <= Seconds[r]
                              /\ ~IsPermanent(r) => Duration(r) # NoExpiry
      BY DurationAssumption DEF Duration, NoExpiry
    <3> QED BY <1>2, <2>2, <3>1, <3>2, ApproverFrame DEF DatesInv
  <2>3. ASSUME NEW p \in Handlers, hs'[p].pc \in {"grant", "schedule"}
        PROVE  /\ docs'[hs'[p].req].status \notin {"absent", "pending"}
               /\ ~IsPermanent(hs'[p].req) => docs'[hs'[p].req].expiresIn # NoExpiry
               /\ hs'[p].pc = "schedule" => ~IsPermanent(hs'[p].req)
    <3>1. hs[p] \in HandlerStates /\ HandlerOK(hs[p])
      BY DEF TypeOK
    <3>2. CASE ApproveSave(p)
      <4>1. hs'[p].req = hs[p].req /\ hs'[p].pc = "grant" /\ hs[p].req \in Requests
        BY <3>1, <3>2 DEF ApproveSave, Advance, TypeOK, HandlerStates, HandlerOK
      <4>2. docs'[hs[p].req].status = "approved" /\ docs'[hs[p].req].expiresIn = hs[p].left
        BY <3>2, <4>1 DEF ApproveSave, TypeOK, Docs
      <4> QED BY <3>2, <4>1, <4>2 DEF DatesInv, ApproveSave
    <3>3. CASE ~ApproveSave(p)
      <4>1. /\ hs[p].pc \in {"grant", "schedule"} /\ hs'[p].req = hs[p].req
            /\ hs'[p].pc = "schedule" => hs[p].pc = "schedule" \/ ~IsPermanent(hs[p].req)
        BY <1>2, <2>3, <3>3, GranterFrame
      <4>2. hs[p].req \in Requests
        BY <3>1, <4>1 DEF HandlerOK
      <4>3. Decided(hs[p].req)'
        BY <1>2, <4>1, <4>2, DocFrame DEF DatesInv
      <4> QED BY <1>2, <2>1, <4>1, <4>2, <4>3 DEF DatesInv, Decided
    <3> QED BY <3>2, <3>3
  <2> QED BY <2>1, <2>2, <2>3 DEF DatesInv, Decided
<1> QED BY <1>1, <1>2

\* Where a job, and the job of the worker, comes from
LEMMA JobFrame ==
  ASSUME TypeOK, [Next]_vars, ~Tick
  PROVE  /\ \A j \in jobs' :
              \/ j \in jobs
              \/ \E p \in Handlers : /\ hs[p].pc = "schedule"
                                     /\ j.req = hs[p].req /\ j.delay = Seconds[j.req]
              \/ worker.pc # "idle" /\ j.req = worker.job.req
         /\ worker'.pc # "idle" =>
              \/ worker.pc # "idle" /\ worker'.job.req = worker.job.req
              \/ \E j \in jobs : j.delay = 0 /\ worker'.job.req = j.req
<1> USE DEF TypeOK
<1>1. ASSUME NEW p \in Handlers, ApproveSchedule(p)
      PROVE  /\ UNCHANGED worker
             /\ \A j \in jobs' : \/ j \in jobs
                               \/ /\ hs[p].pc = "schedule"
                                  /\ j.req = hs[p].req /\ j.delay = Seconds[j.req]
  BY <1>1 DEF ApproveSchedule
<1>2. CASE ExpireTake
  BY <1>2 DEF ExpireTake
<1>3. CASE ExpireRead \/ ExpireSave \/ ExpireDelete \/ ExpireAudit \/ JobFails
  BY <1>3 DEF ExpireRead, ExpireSave, ExpireDelete, ExpireAudit, JobFails, IdleWorker
<1>4. CASE Crash
  <2>1. worker'.pc = "idle"
    BY <1>4 DEF Crash, IdleWorker
  <2>2. \A j \in jobs' : j \in jobs \/ (worker.pc # "idle" /\ j.req = worker.job.req)
    BY <1>4 DEF Crash, Jobs
  <2> QED BY <2>1, <2>2
<1>5. CASE RedisFlush
  BY <1>5 DEF RedisFlush, Jobs
<1>6. CASE UNCHANGED <<jobs, worker>>
  BY <1>6
<1> QED
  BY <1>1, <1>2, <1>3, <1>4, <1>5, <1>6
  DEF Next, vars, Create, Arrive, ApproveRead, RejectRead, RevokeRead, CheckGet, Continue,
      ApproveSave, ApproveGrant, RejectSave, RevokeSave, RevokeDelete, CheckTtl, CheckFind,
      CheckSet, Respond, Work, CallFails

LEMMA JobsStep == TypeOK /\ DatesInv /\ JobsInv /\ [Next]_vars => JobsInv'
<1> SUFFICES ASSUME TypeOK, DatesInv, JobsInv, [Next]_vars PROVE JobsInv'
  OBVIOUS
<1>0. /\ \A j \in jobs : j.req \in Requests /\ j.delay \in Nat
      /\ worker.pc # "idle" => worker.job.req \in Requests
  BY DEF TypeOK, Jobs
<1>1. CASE Tick
  <2>1. \A r \in Requests : Due(r, 0) => Due(r, 0)'
    BY <1>1, DueTicks DEF Less
  <2>2. ASSUME NEW j \in jobs' PROVE Due(j.req, j.delay)'
    <3>1. PICK i \in jobs : j = [i EXCEPT !.delay = Less(@)]
      BY <1>1 DEF Tick
    <3>2. j.req = i.req /\ j.delay = Less(i.delay)
      BY <3>1 DEF TypeOK, Jobs
    <3>3. Due(i.req, Less(i.delay))'
      BY <1>0, <1>1, DueTicks DEF JobsInv
    <3> QED BY <3>2, <3>3
  <2>3. \A r \in Requests : worker'.pc # "idle" /\ worker'.job.req = r => Due(r, 0)'
    BY <1>0, <1>1, <2>1 DEF Tick, JobsInv
  <2>4. ASSUME NEW r \in Requests, docs'[r].status = "expired" PROVE Due(r, 0)'
    <3>1. docs[r].status = "expired"
      BY <1>1, <2>4 DEF Tick, TypeOK, Docs
    <3> QED BY <2>1, <3>1 DEF JobsInv
  <2> QED BY <2>2, <2>3, <2>4 DEF JobsInv
<1>2. CASE ~Tick
  <2>1. \A r \in Requests, n \in Nat : Due(r, n) => Due(r, n)'
    BY <1>2, DueKept
  <2>2. ASSUME NEW r \in Requests, NEW n \in Nat, Due(r, 0) PROVE Due(r, n)
    <3>1. docs[r].expiresIn <= n
      BY <2>2 DEF Due, Within, TypeOK, Docs, NoExpiry
    <3>2. ASSUME NEW p \in Handlers, hs[p].pc = "approve", hs[p].req = r
          PROVE  hs[p].left <= n
      <4>1. hs[p].left \in Nat \cup {NoExpiry} /\ hs[p].left <= 0
        BY <2>2, <3>2 DEF Due, Within, TypeOK, HandlerOK, HandlerStates
      <4> QED BY <4>1 DEF NoExpiry
    <3> QED BY <2>2, <3>1, <3>2 DEF Due, Within
  <2>3. ASSUME NEW p \in Handlers, hs[p].pc = "schedule"
        PROVE  hs[p].req \in Requests /\ Due(hs[p].req, Seconds[hs[p].req])
    <3>1. hs[p].req \in Requests
      BY <2>3 DEF TypeOK, HandlerOK
    <3> QED BY <2>3, <3>1 DEF DatesInv, Due, Within
  <2>4. ASSUME NEW j \in jobs' PROVE Due(j.req, j.delay)'
    <3>1. j.req \in Requests /\ j.delay \in Nat
      <4>1. TypeOK' BY NextType
      <4> QED BY <4>1 DEF TypeOK, Jobs
    <3>2. CASE j \in jobs
      BY <1>2, <2>1, <3>1, <3>2 DEF JobsInv
    <3>3. ASSUME NEW p \in Handlers, hs[p].pc = "schedule", j.req = hs[p].req,
                 j.delay = Seconds[j.req]
          PROVE  Due(j.req, j.delay)
      BY <2>3, <3>3
    <3>4. ASSUME worker.pc # "idle", j.req = worker.job.req PROVE Due(j.req, j.delay)
      BY <2>2, <3>1, <3>4 DEF JobsInv
    <3> QED BY <1>2, <2>1, <3>1, <3>2, <3>3, <3>4, JobFrame
  <2>5. ASSUME NEW r \in Requests, worker'.pc # "idle", worker'.job.req = r
        PROVE  Due(r, 0)'
    <3>1. CASE worker.pc # "idle" /\ worker.job.req = r
      BY <2>1, <3>1 DEF JobsInv
    <3>2. ASSUME NEW j \in jobs, j.delay = 0, j.req = r PROVE Due(r, 0)'
      BY <2>1, <3>2 DEF JobsInv
    <3> QED BY <1>2, <2>5, <3>1, <3>2, JobFrame
  <2>6. ASSUME NEW r \in Requests, docs'[r].status = "expired" PROVE Due(r, 0)'
    <3>1. Due(r, 0)
      BY <1>2, <2>6, DocFrame DEF JobsInv, ExpireSave
    <3> QED BY <2>1, <3>1
  <2> QED BY <2>4, <2>5, <2>6 DEF JobsInv
<1> QED BY <1>1, <1>2

\* The worker never closes a temporal grant before the date of expiry that its
\* document shows, not even when a second, stale approval rewrites that date.
THEOREM NeverEarly == Spec => []NoEarlyExpiry
<1>1. Init => DatesInv /\ JobsInv
  BY DurationAssumption DEF Init, DatesInv, JobsInv, Idle, IdleWorker, NoExpiry
<1>2. TypeOK /\ JobsInv => NoEarlyExpiry
  BY DEF TypeOK, Docs, JobsInv, NoEarlyExpiry, Due, Within
<1> QED BY <1>1, <1>2, DatesStep, JobsStep, TypeCorrect, PTL DEF Spec

-----------------------------------------------------------------------------
(* A revoke clears the key, when requests come one at a time *)

\* What a single handler leaves behind: keys stand where they belong, and a
\* request whose key it is about to write has not been revoked since it was read.
SerialInv(p) ==
  faults = 0 =>
    /\ \A k \in Keys : keys[k].req # None => KeyOf(keys[k].req) = k
    /\ hs[p].pc \in {"grant", "rehydrate"} => docs[hs[p].req].status # "revoked"
    /\ hs[p].pc = "rehydrate" => KeyOf(hs[p].req) = Asked(p)
    /\ RevokeClearsKey

\* The handler's own steps
LEMMA SerialContinue ==
  ASSUME NEW p, Handlers = {p}, TypeOK, SerialInv(p), Continue(p), faults = 0
  PROVE  SerialInv(p)'
<1> USE DEF SerialInv, RevokeClearsKey, TypeOK, Goto, Advance
<1>1. p \in Handlers /\ hs[p] \in HandlerStates /\ HandlerOK(hs[p])
  OBVIOUS
<1>2. \A k \in Keys, r \in Requests :
        keys[k].req = r /\ docs[r].status = "revoked" => hs[p].pc = "delete" /\ hs[p].req = r
  OBVIOUS
<1>3. CASE ApproveSave(p) \/ RejectSave(p) \/ RevokeSave(p)
  <2>1. hs[p].req \in Requests /\ UNCHANGED keys /\ hs[p].pc # "delete"
    BY <1>1, <1>3 DEF ApproveSave, RejectSave, RevokeSave, HandlerOK
  <2>2. /\ docs'[hs[p].req].status = IF RevokeSave(p) THEN "revoked"
                                     ELSE IF ApproveSave(p) THEN "approved" ELSE "rejected"
        /\ \A r \in Requests : r # hs[p].req => docs'[r] = docs[r]
    BY <1>3, <2>1 DEF ApproveSave, RejectSave, RevokeSave, Docs
  <2>3. IF RevokeSave(p) THEN hs'[p].pc = "delete" /\ hs'[p].req = hs[p].req
        ELSE IF ApproveSave(p) THEN hs'[p].pc = "grant" /\ hs'[p].req = hs[p].req
        ELSE hs'[p].pc = "idle"
    BY <1>1, <1>3 DEF ApproveSave, RejectSave, RevokeSave, HandlerStates, Idle
  <2> QED BY <1>1, <1>2, <1>3, <2>1, <2>2, <2>3
<1>4. CASE ApproveGrant(p) \/ CheckSet(p)
  <2>1. hs[p].req \in Requests /\ UNCHANGED docs /\ docs[hs[p].req].status # "revoked"
    BY <1>1, <1>4 DEF ApproveGrant, CheckSet, HandlerOK
  <2>2. PICK k \in Keys : k = KeyOf(hs[p].req) /\ \E ttl : SetGrant(k, hs[p].req, ttl)
    BY <1>1, <1>4, <2>1, KeyOfType DEF ApproveGrant, CheckSet
  <2>3. hs[p].pc # "delete" /\ hs'[p].pc \notin {"grant", "rehydrate"}
    BY <1>1, <1>4 DEF ApproveGrant, CheckSet, HandlerStates, Idle
  <2>4. \A n \in Keys : keys'[n].req = IF n = k THEN hs[p].req ELSE keys[n].req
    BY <2>2 DEF SetGrant
  <2> QED BY <1>1, <1>2, <2>1, <2>2, <2>3, <2>4
<1>5. CASE RevokeDelete(p)
  <2>1. hs[p].req \in Requests /\ UNCHANGED docs
    BY <1>1, <1>5 DEF RevokeDelete, HandlerOK
  <2>2. \A k \in Keys : keys'[k].req = IF k = KeyOf(hs[p].req) THEN None ELSE keys[k].req
    BY <1>5, <2>1, KeyOfType DEF RevokeDelete, DeleteGrantKey, NoKey
  <2>3. hs'[p].pc = "idle"
    BY <1>1, <1>5 DEF RevokeDelete, Idle
  <2>4. None \notin Requests
    BY NoneAssumption
  <2> QED BY <1>1, <1>2, <2>1, <2>2, <2>3, <2>4
<1>6. CASE CheckFind(p)
  <2>1. UNCHANGED <<docs, keys>> /\ hs[p].pc # "delete"
    BY <1>6 DEF CheckFind
  <2>2. CASE Goto(p, Idle)
    BY <1>1, <1>2, <2>1, <2>2 DEF Idle
  <2>3. ASSUME NEW r \in ApprovedFor(Asked(p)),
               hs' = [hs EXCEPT ![p].req = r, ![p].left = docs[r].expiresIn,
                                ![p].pc = IF docs[r].expiresIn = 0 THEN "granted"
                                          ELSE "rehydrate"]
        PROVE  SerialInv(p)'
    <3>1. /\ hs'[p].req = r /\ hs'[p].pc \in {"granted", "rehydrate"}
          /\ hs'[p].user = hs[p].user /\ hs'[p].res = hs[p].res
      BY <1>1, <2>3 DEF HandlerStates
    <3>2. docs[r].status = "approved" /\ KeyOf(r) = Asked(p)
      BY DEF ApprovedFor
    <3>3. KeyOf(r) = Asked(p)'
      BY <3>1, <3>2 DEF Asked
    <3> QED BY <1>1, <1>2, <2>1, <3>1, <3>2, <3>3 DEF KeyOf
  <2> QED BY <1>6, <2>2, <2>3 DEF CheckFind
<1>7. CASE ApproveSchedule(p) \/ CheckTtl(p) \/ Respond(p)
  <2>1. UNCHANGED <<docs, keys>> /\ hs[p].pc # "delete"
    BY <1>7 DEF ApproveSchedule, CheckTtl, Respond
  <2>2. hs'[p].pc \in {"idle", "granted"}
    BY <1>1, <1>7 DEF ApproveSchedule, CheckTtl, Respond, Idle, HandlerStates
  <2> QED BY <1>1, <1>2, <2>1, <2>2
<1> QED BY <1>3, <1>4, <1>5, <1>6, <1>7 DEF Continue

LEMMA SerialStep ==
  ASSUME NEW p, Handlers = {p}
  PROVE  TypeOK /\ SerialInv(p) /\ [Next]_vars => SerialInv(p)'
<1> SUFFICES ASSUME TypeOK, SerialInv(p), [Next]_vars, faults' = 0 PROVE SerialInv(p)'
  BY DEF SerialInv
<1>1. faults = 0 /\ ~Fault
  BY FaultFrame
<1>2. p \in Handlers /\ hs[p] \in HandlerStates /\ HandlerOK(hs[p])
  BY DEF TypeOK
<1>3. \A k \in Keys, r \in Requests :
        keys[k].req = r /\ docs[r].status = "revoked" => hs[p].pc = "delete" /\ hs[p].req = r
  BY <1>1 DEF SerialInv, RevokeClearsKey
\* Nobody but the handler revokes; a key can only go.
<1>4. ASSUME \A r \in Requests : docs'[r].status = "revoked" => docs[r].status = "revoked",
             \A k \in Keys : keys'[k].req \in {keys[k].req, None},
             \/ hs'[p] = hs[p]
             \/ hs[p].pc # "delete" /\ hs'[p].pc \notin {"grant", "rehydrate"}
             \/ /\ hs'[p].pc = hs[p].pc /\ hs'[p].req = hs[p].req
                /\ hs'[p].user = hs[p].user /\ hs'[p].res = hs[p].res
      PROVE  SerialInv(p)'
  <2>1. None \notin Requests
    BY NoneAssumption
  <2>2. hs[p].pc \in {"grant", "rehydrate"} => hs[p].req \in Requests
    BY <1>2 DEF HandlerOK
  <2> QED BY <1>1, <1>2, <1>3, <1>4, <2>1, <2>2 DEF SerialInv, RevokeClearsKey, KeyOf, Asked
<1> USE DEF TypeOK
<1>5. ASSUME NEW r \in Requests, Create(r) PROVE SerialInv(p)'
  BY <1>4, <1>5 DEF Create, Docs
<1>6. ASSUME Arrive(p) PROVE SerialInv(p)'
  <2>1. UNCHANGED <<docs, keys>>
    BY <1>6 DEF Arrive, ApproveRead, RejectRead, RevokeRead, CheckGet
  <2> QED BY <1>2, <1>4, <1>6, <2>1, ArriveFrame
<1>7. ASSUME Continue(p) PROVE SerialInv(p)'
  BY <1>1, <1>7, SerialContinue
<1>8. CASE Work
  <2>1. UNCHANGED hs
    BY <1>8 DEF Work, ExpireTake, ExpireRead, ExpireSave, ExpireDelete, ExpireAudit
  <2>2. \A r \in Requests : docs'[r].status = "revoked" => docs[r].status = "revoked"
    BY <1>8 DEF Work, ExpireTake, ExpireRead, ExpireSave, ExpireDelete, ExpireAudit, Docs
  <2>3. \A k \in Keys : keys'[k].req \in {keys[k].req, None}
    BY <1>8 DEF Work, ExpireTake, ExpireRead, ExpireSave, ExpireDelete, ExpireAudit,
                DeleteGrantKey, NoKey
  <2> QED BY <1>4, <2>1, <2>2, <2>3
<1>9. CASE Tick
  <2>1. \A r \in Requests : docs'[r].status = docs[r].status
    BY <1>9 DEF Tick, Docs
  <2>2. \A k \in Keys : keys'[k].req \in {keys[k].req, None}
    BY <1>9, TickKeyType DEF Tick
  <2>3. /\ hs'[p].pc = hs[p].pc /\ hs'[p].req = hs[p].req
        /\ hs'[p].user = hs[p].user /\ hs'[p].res = hs[p].res
    BY <1>2, <1>9, TickHandlerType DEF Tick
  <2> QED BY <1>4, <2>1, <2>2, <2>3
<1>10. CASE UNCHANGED vars
  BY <1>4, <1>10 DEF vars
<1> QED
  BY <1>1, <1>2, <1>5, <1>6, <1>7, <1>8, <1>9, <1>10
  DEF Next, CallFails, JobFails, Crash, RedisFlush

\* "Manual revoke must clear Redis immediately" is true of requests that come one
\* at a time, until something fails: the worker and the clock alone never bring
\* the key of a revoked request back.  What breaks it is an approval or an access
\* check that overlaps with the revoke, or a failed call.
THEOREM SerialRevokeClears ==
  ASSUME NEW p, Handlers = {p}
  PROVE  Spec => [](faults = 0 => RevokeClearsKey)
<1>1. Init => SerialInv(p)
  BY DEF Init, SerialInv, RevokeClearsKey, NoKey, Idle
<1>2. Spec => []SerialInv(p)
  BY <1>1, SerialStep, TypeCorrect, PTL DEF Spec
<1>3. SerialInv(p) => (faults = 0 => RevokeClearsKey)
  BY DEF SerialInv
<1> QED BY <1>2, <1>3, PTL
=============================================================================
