---------------------------- MODULE AccessGrants ----------------------------
(***************************************************************************)
(* Temporal access grants: the approval workflow of AccessRequestService,  *)
(* the expiry worker GrantExpiryProcessor, the access check of             *)
(* GrantsController and the Redis keys of GrantCacheService.               *)
(*                                                                         *)
(* A grant lives in three places that no transaction ties together: the    *)
(* request document in MongoDB, the key grant:{user}:{resource} in Redis   *)
(* and a delayed BullMQ job.  Each HTTP handler, and the worker, is a      *)
(* process whose step is one external call with the local code up to the   *)
(* next await.  A handler that a guard turns away answers with an error    *)
(* and changes nothing, so it takes no step here.                          *)
(*                                                                         *)
(* Time is kept as the seconds still to run, never as a date: Tick takes   *)
(* one second off every timer.  One clock serves MongoDB dates, Redis TTLs *)
(* and BullMQ delays.                                                      *)
(***************************************************************************)
EXTENDS Integers, FiniteSets

CONSTANTS
  Users,              \* employees and managers, by user id
  Resources,          \* resources a grant key can name
  Requests,           \* access requests, by document id
  Handlers,           \* HTTP requests in flight
  None,               \* null
  Requester,          \* the requesterId of a request
  Resource,           \* the resource of a request
  PermanentRequests,  \* requests whose duration parses to isPermanent
  Seconds,            \* parsed duration of the other requests
  MaxFaults           \* bound: failures in one behaviour

ASSUME NoneAssumption ==
  None \notin Users \cup Resources \cup Requests \cup Handlers
ASSUME RequestAssumption ==
  /\ Requester \in [Requests -> Users]
  /\ Resource \in [Requests -> Resources]
  /\ PermanentRequests \subseteq Requests
ASSUME DurationAssumption == Seconds \in [Requests -> Nat]
ASSUME FaultAssumption == MaxFaults \in Nat

VARIABLES
  docs,      \* the access request documents in MongoDB
  keys,      \* the grant keys in Redis
  jobs,      \* delayed and waiting jobs of the queue 'grants'
  hs,        \* the HTTP handlers
  worker,    \* the one job the expiry worker runs (concurrency 1)
  audited,   \* requests whose expiry went to the audit log
  faults     \* failures so far

vars == <<docs, keys, jobs, hs, worker, audited, faults>>

-----------------------------------------------------------------------------
(* Values *)

NoExpiry == -1    \* expiresAt null, and Redis TTL of a key without EX
NoSuchKey == -2   \* Redis TTL of a key that does not exist

Keys == Users \X Resources
KeyOf(r) == <<Requester[r], Resource[r]>>
NoKey == [req |-> None, ttl |-> 0]

IsPermanent(r) == r \in PermanentRequests

\* parseDuration: what approve() knows of the time the request asks for
Duration(r) == IF IsPermanent(r) THEN NoExpiry ELSE Seconds[r]

Statuses == {"absent", "pending", "approved", "rejected", "revoked", "expired"}
Docs == [status : Statuses, expiresIn : Nat \cup {NoExpiry},
         isPermanent : BOOLEAN, autoExpired : BOOLEAN, reviewer : Users \cup {None}]
KeyEntries == [req : Requests \cup {None}, ttl : Nat]

\* The handler that added a job stands for its job id.
MaxStalledCount == 1
Jobs == [req : Requests, by : Handlers, delay : Nat, stalls : 0..MaxStalledCount]
NoJob == [req |-> None, by |-> None, delay |-> 0, stalls |-> 0]

ReviewPcs == {"approve", "grant", "schedule", "reject", "revoke", "delete"}
CheckPcs == {"find", "ttl", "rehydrate", "granted"}
HandlerStates ==
  [pc : {"idle"} \cup ReviewPcs \cup CheckPcs, req : Requests \cup {None},
   user : Users \cup {None}, res : Resources \cup {None},
   left : Nat \cup {NoExpiry, NoSuchKey}, seen : Users \cup {None}]
WorkerPcs == {"idle", "find", "save", "delete", "audit"}

Idle == [pc |-> "idle", req |-> None, user |-> None, res |-> None,
         left |-> 0, seen |-> None]
IdleWorker == [pc |-> "idle", job |-> NoJob]

\* What a handler knows at each of its awaits
HandlerOK(h) ==
  /\ h.pc \in ReviewPcs => h.user \in Users
  /\ h.pc \in CheckPcs => h.user \in Users /\ h.res \in Resources
  /\ h.pc \notin {"idle", "find"} => h.req \in Requests
  /\ h.pc \in {"approve", "rehydrate"} => h.left # NoSuchKey

TypeOK ==
  /\ docs \in [Requests -> Docs]
  /\ keys \in [Keys -> KeyEntries]
  /\ jobs \subseteq Jobs
  /\ hs \in [Handlers -> HandlerStates]
  /\ \A p \in Handlers : HandlerOK(hs[p])
  /\ worker \in [pc : WorkerPcs, job : Jobs \cup {NoJob}]
  /\ worker.pc # "idle" => worker.job \in Jobs
  /\ audited \subseteq Requests
  /\ faults \in 0..MaxFaults

Init ==
  /\ docs = [r \in Requests |-> [status |-> "absent", expiresIn |-> NoExpiry,
                                 isPermanent |-> FALSE, autoExpired |-> FALSE,
                                 reviewer |-> None]]
  /\ keys = [k \in Keys |-> NoKey]
  /\ jobs = {}
  /\ hs = [p \in Handlers |-> Idle]
  /\ worker = IdleWorker
  /\ audited = {}
  /\ faults = 0

-----------------------------------------------------------------------------
(* GrantCacheService *)

\* setGrant: a TTL of 0 seconds stores the key without EX.
SetGrant(k, r, ttl) == keys' = [keys EXCEPT ![k] = [req |-> r, ttl |-> ttl]]
DeleteGrantKey(k) == keys' = [keys EXCEPT ![k] = NoKey]

\* getGrantTtl: what Redis answers to TTL
GrantTtl(k) ==
  IF keys[k].req = None THEN NoSuchKey
  ELSE IF keys[k].ttl = 0 THEN NoExpiry ELSE keys[k].ttl

-----------------------------------------------------------------------------
(* AccessRequestService *)

Goto(p, s) == hs' = [hs EXCEPT ![p] = s]
Advance(p, pc) == hs' = [hs EXCEPT ![p].pc = pc]

\* The document a reviewer acts on, as read before the save.
Review(p, pc, r, u, left) ==
  Goto(p, [pc |-> pc, req |-> r, user |-> u, res |-> None, left |-> left,
           seen |-> docs[r].reviewer])

Create(r) ==
  /\ docs[r].status = "absent"
  /\ docs' = [docs EXCEPT ![r].status = "pending"]
  /\ UNCHANGED <<keys, jobs, hs, worker, audited, faults>>

\* Faulty variants: without the check that the reviewer is not the requester,
\* and without the check that the request is still pending.
ApproveReadOwn(p, r, u) ==
  /\ hs[p].pc = "idle"
  /\ docs[r].status = "pending"
  /\ Review(p, "approve", r, u, Duration(r))
  /\ UNCHANGED <<docs, keys, jobs, worker, audited, faults>>

ApproveReadAgain(p, r, u) ==
  /\ hs[p].pc = "idle"
  /\ docs[r].status \in {"pending", "approved"}
  /\ Requester[r] # u
  /\ Review(p, "approve", r, u, Duration(r))
  /\ UNCHANGED <<docs, keys, jobs, worker, audited, faults>>

\* findOne, the two guards, parseDuration and the date of expiry
ApproveRead(p, r, u) ==
  /\ hs[p].pc = "idle"
  /\ docs[r].status = "pending"
  /\ Requester[r] # u
  /\ Review(p, "approve", r, u, Duration(r))
  /\ UNCHANGED <<docs, keys, jobs, worker, audited, faults>>

ApproveSave(p) ==
  /\ hs[p].pc = "approve"
  /\ docs' = [docs EXCEPT ![hs[p].req].status = "approved",
                          ![hs[p].req].expiresIn = hs[p].left,
                          ![hs[p].req].isPermanent = IsPermanent(hs[p].req),
                          ![hs[p].req].reviewer = hs[p].user]
  /\ Advance(p, "grant")
  /\ UNCHANGED <<keys, jobs, worker, audited, faults>>

\* Faulty variant: only grants without a key TTL go on to the queue.
ApproveGrantUnscheduled(p) ==
  LET r == hs[p].req IN
  /\ hs[p].pc = "grant"
  /\ SetGrant(KeyOf(r), r, IF IsPermanent(r) THEN 0 ELSE Seconds[r])
  /\ Goto(p, Idle)
  /\ UNCHANGED <<docs, jobs, worker, audited, faults>>

ApproveGrant(p) ==
  LET r == hs[p].req IN
  /\ hs[p].pc = "grant"
  /\ SetGrant(KeyOf(r), r, IF IsPermanent(r) THEN 0 ELSE Seconds[r])
  /\ IF IsPermanent(r) THEN Goto(p, Idle) ELSE Advance(p, "schedule")
  /\ UNCHANGED <<docs, jobs, worker, audited, faults>>

\* Faulty variant: the request id as job id, so that BullMQ ignores a second
\* job for a request that already has one, waiting or running.
ApproveScheduleOnce(p) ==
  LET r == hs[p].req IN
  /\ hs[p].pc = "schedule"
  /\ jobs' = IF worker.job.req = r \/ \E j \in jobs : j.req = r THEN jobs
             ELSE jobs \cup {[req |-> r, by |-> p, delay |-> Seconds[r], stalls |-> 0]}
  /\ Goto(p, Idle)
  /\ UNCHANGED <<docs, keys, worker, audited, faults>>

ApproveSchedule(p) ==
  LET r == hs[p].req IN
  /\ hs[p].pc = "schedule"
  /\ jobs' = jobs \cup {[req |-> r, by |-> p, delay |-> Seconds[r], stalls |-> 0]}
  /\ Goto(p, Idle)
  /\ UNCHANGED <<docs, keys, worker, audited, faults>>

RejectRead(p, r, u) ==
  /\ hs[p].pc = "idle"
  /\ docs[r].status = "pending"
  /\ Requester[r] # u
  /\ Review(p, "reject", r, u, 0)
  /\ UNCHANGED <<docs, keys, jobs, worker, audited, faults>>

RejectSave(p) ==
  /\ hs[p].pc = "reject"
  /\ docs' = [docs EXCEPT ![hs[p].req].status = "rejected",
                          ![hs[p].req].reviewer = hs[p].user]
  /\ Goto(p, Idle)
  /\ UNCHANGED <<keys, jobs, worker, audited, faults>>

\* Anyone with access:revoke, the requester included
RevokeRead(p, r, u) ==
  /\ hs[p].pc = "idle"
  /\ docs[r].status = "approved"
  /\ Review(p, "revoke", r, u, 0)
  /\ UNCHANGED <<docs, keys, jobs, worker, audited, faults>>

\* save() sends the fields that differ from the document as read.
RevokeSave(p) ==
  /\ hs[p].pc = "revoke"
  /\ docs' = [docs EXCEPT ![hs[p].req].status = "revoked",
                          ![hs[p].req].reviewer =
                             IF hs[p].user = hs[p].seen THEN @ ELSE hs[p].user]
  /\ Advance(p, "delete")
  /\ UNCHANGED <<keys, jobs, worker, audited, faults>>

RevokeDelete(p) ==
  /\ hs[p].pc = "delete"
  /\ DeleteGrantKey(KeyOf(hs[p].req))
  /\ Goto(p, Idle)
  /\ UNCHANGED <<docs, jobs, worker, audited, faults>>

-----------------------------------------------------------------------------
(* GrantsController.checkAccess: Redis first, MongoDB as the fallback *)

Asked(p) == <<hs[p].user, hs[p].res>>

CheckGet(p, u, res) ==
  LET k == <<u, res>> IN
  /\ hs[p].pc = "idle"
  /\ Goto(p, [Idle EXCEPT !.pc = IF keys[k].req = None THEN "find" ELSE "ttl",
                          !.req = keys[k].req, !.user = u, !.res = res])
  /\ UNCHANGED <<docs, keys, jobs, worker, audited, faults>>

CheckTtl(p) ==
  /\ hs[p].pc = "ttl"
  /\ hs' = [hs EXCEPT ![p].pc = "granted", ![p].left = GrantTtl(Asked(p))]
  /\ UNCHANGED <<docs, keys, jobs, worker, audited, faults>>

\* Faulty variant: the query without its status.
RequestsFor(k) == {r \in Requests : KeyOf(r) = k /\ docs[r].status # "absent"}

\* What findOne({requesterId, resource, status: APPROVED}) may return
ApprovedFor(k) == {r \in Requests : KeyOf(r) = k /\ docs[r].status = "approved"}

\* Faulty variant: re-hydrates whatever time is left.
CheckFindUnchecked(p) ==
  /\ hs[p].pc = "find"
  /\ \/ \E r \in ApprovedFor(Asked(p)) :
          hs' = [hs EXCEPT ![p].req = r, ![p].left = docs[r].expiresIn,
                           ![p].pc = "rehydrate"]
     \/ ApprovedFor(Asked(p)) = {} /\ Goto(p, Idle)
  /\ UNCHANGED <<docs, keys, jobs, worker, audited, faults>>

CheckFind(p) ==
  /\ hs[p].pc = "find"
  /\ \/ \E r \in ApprovedFor(Asked(p)) :
          hs' = [hs EXCEPT ![p].req = r, ![p].left = docs[r].expiresIn,
                           ![p].pc = IF docs[r].expiresIn = 0 THEN "granted"
                                     ELSE "rehydrate"]
     \/ ApprovedFor(Asked(p)) = {} /\ Goto(p, Idle)
  /\ UNCHANGED <<docs, keys, jobs, worker, audited, faults>>

\* Faulty variant: re-hydrates without the TTL.
CheckSetForever(p) ==
  /\ hs[p].pc = "rehydrate"
  /\ SetGrant(Asked(p), hs[p].req, 0)
  /\ Advance(p, "granted")
  /\ UNCHANGED <<docs, jobs, worker, audited, faults>>

\* Faulty variant: null seconds are passed on as they are.
CheckSetRaw(p) ==
  /\ hs[p].pc = "rehydrate"
  /\ SetGrant(Asked(p), hs[p].req, hs[p].left)
  /\ Advance(p, "granted")
  /\ UNCHANGED <<docs, jobs, worker, audited, faults>>

CheckSet(p) ==
  /\ hs[p].pc = "rehydrate"
  /\ SetGrant(Asked(p), hs[p].req, IF hs[p].left = NoExpiry THEN 0 ELSE hs[p].left)
  /\ Advance(p, "granted")
  /\ UNCHANGED <<docs, jobs, worker, audited, faults>>

\* The answer granted: true leaves with hs[p].left as its ttlSeconds.
Respond(p) ==
  /\ hs[p].pc = "granted"
  /\ Goto(p, Idle)
  /\ UNCHANGED <<docs, keys, jobs, worker, audited, faults>>

-----------------------------------------------------------------------------
(* GrantExpiryProcessor *)

ExpireTake ==
  /\ worker.pc = "idle"
  /\ \E j \in jobs :
       /\ j.delay = 0
       /\ jobs' = jobs \ {j}
       /\ worker' = [pc |-> "find", job |-> j]
  /\ UNCHANGED <<docs, keys, hs, audited, faults>>

ExpireRead ==
  /\ worker.pc = "find"
  /\ worker' = IF docs[worker.job.req].status = "approved"
               THEN [worker EXCEPT !.pc = "save"] ELSE IdleWorker
  /\ UNCHANGED <<docs, keys, jobs, hs, audited, faults>>

ExpireSave ==
  /\ worker.pc = "save"
  /\ docs' = [docs EXCEPT ![worker.job.req].status = "expired",
                          ![worker.job.req].autoExpired = TRUE]
  /\ worker' = [worker EXCEPT !.pc = "delete"]
  /\ UNCHANGED <<keys, jobs, hs, audited, faults>>

\* Faulty variant: stops when Redis has dropped the key already.
ExpireDeleteOrStop ==
  /\ worker.pc = "delete"
  /\ DeleteGrantKey(KeyOf(worker.job.req))
  /\ worker' = IF keys[KeyOf(worker.job.req)].req = None THEN IdleWorker
               ELSE [worker EXCEPT !.pc = "audit"]
  /\ UNCHANGED <<docs, jobs, hs, audited, faults>>

ExpireDelete ==
  /\ worker.pc = "delete"
  /\ DeleteGrantKey(KeyOf(worker.job.req))
  /\ worker' = [worker EXCEPT !.pc = "audit"]
  /\ UNCHANGED <<docs, jobs, hs, audited, faults>>

\* logPermissionCheck: a denial is always queued for the audit log.
ExpireAudit ==
  /\ worker.pc = "audit"
  /\ audited' = audited \cup {worker.job.req}
  /\ worker' = IdleWorker
  /\ UNCHANGED <<docs, keys, jobs, hs, faults>>

-----------------------------------------------------------------------------
(* Time *)

Less(n) == IF n > 0 THEN n - 1 ELSE n

\* A key is gone when its last second is.
TickKey(e) == IF e.ttl = 1 THEN NoKey ELSE [e EXCEPT !.ttl = Less(@)]

\* A reviewer's handler holds a date from the read on; the TTL that the
\* access check computed is a number of seconds and does not age.
TickHandler(h) ==
  IF h.pc = "approve" THEN [h EXCEPT !.left = Less(@)] ELSE h

Tick ==
  /\ docs' = [r \in Requests |-> [docs[r] EXCEPT !.expiresIn = Less(@)]]
  /\ keys' = [k \in Keys |-> TickKey(keys[k])]
  /\ jobs' = {[j EXCEPT !.delay = Less(@)] : j \in jobs}
  /\ hs' = [p \in Handlers |-> TickHandler(hs[p])]
  /\ UNCHANGED <<worker, audited, faults>>

-----------------------------------------------------------------------------
(* Failures *)

Fault == faults < MaxFaults /\ faults' = faults + 1

\* A call to MongoDB or Redis throws: the handler answers 500.
CallFails(p) ==
  /\ hs[p].pc \notin {"idle", "granted"}
  /\ Goto(p, Idle)
  /\ Fault
  /\ UNCHANGED <<docs, keys, jobs, worker, audited>>

\* A call of the worker throws: jobs have one attempt, so this one is over.
JobFails ==
  /\ worker.pc # "idle"
  /\ worker' = IdleWorker
  /\ Fault
  /\ UNCHANGED <<docs, keys, jobs, hs, audited>>

\* The process restarts.  BullMQ finds the job it ran stalled and runs it
\* again from its beginning, MaxStalledCount times.
Crash ==
  /\ hs' = [p \in Handlers |-> Idle]
  /\ worker' = IdleWorker
  /\ jobs' = IF worker.pc # "idle" /\ worker.job.stalls < MaxStalledCount
             THEN jobs \cup {[worker.job EXCEPT !.stalls = @ + 1]} ELSE jobs
  /\ Fault
  /\ UNCHANGED <<docs, keys, audited>>

\* Redis loses its data, keys and jobs alike.  The job the worker runs goes
\* on, but no restart can recover it.
RedisFlush ==
  /\ keys' = [k \in Keys |-> NoKey]
  /\ jobs' = {}
  /\ worker' = IF worker.pc = "idle" THEN worker
               ELSE [worker EXCEPT !.job.stalls = MaxStalledCount]
  /\ Fault
  /\ UNCHANGED <<docs, hs, audited>>

-----------------------------------------------------------------------------
Continue(p) ==
  \/ ApproveSave(p) \/ ApproveGrant(p) \/ ApproveSchedule(p)
  \/ RejectSave(p)
  \/ RevokeSave(p) \/ RevokeDelete(p)
  \/ CheckTtl(p) \/ CheckFind(p) \/ CheckSet(p) \/ Respond(p)

Work == ExpireTake \/ ExpireRead \/ ExpireSave \/ ExpireDelete \/ ExpireAudit

Arrive(p) ==
  \/ \E r \in Requests, u \in Users :
       ApproveRead(p, r, u) \/ RejectRead(p, r, u) \/ RevokeRead(p, r, u)
  \/ \E u \in Users, res \in Resources : CheckGet(p, u, res)

Next ==
  \/ \E r \in Requests : Create(r)
  \/ \E p \in Handlers : Arrive(p) \/ Continue(p) \/ CallFails(p)
  \/ Work
  \/ Tick
  \/ JobFails \/ Crash \/ RedisFlush

Spec == Init /\ [][Next]_vars

\* Node runs every handler and the worker on to its end, and time passes.
\* Nothing makes a client send a request.
Fairness ==
  /\ \A p \in Handlers : WF_vars(Continue(p))
  /\ WF_vars(Work)
  /\ WF_vars(Tick)

FairSpec == Spec /\ Fairness

-----------------------------------------------------------------------------
(* Properties *)

\* Separation of duties: whoever decided a request, whatever reviews raced
\* for it, is not the requester (approve and reject, the 403 guards).
SeparationOfDuty ==
  \A r \in Requests : docs[r].status \in {"approved", "rejected"} =>
    docs[r].reviewer \notin {None, Requester[r]}

\* Only approve() sets one of these two fields.
WasApproved(r) == docs[r].isPermanent \/ docs[r].expiresIn # NoExpiry

\* A grant key, and a granted answer, names a request of that user for that
\* resource which was approved before (MongoDB is written first, and the
\* fallback re-hydrates from MongoDB only).
GrantProvenance ==
  /\ \A k \in Keys : keys[k].req # None =>
       KeyOf(keys[k].req) = k /\ WasApproved(keys[k].req)
  /\ \A p \in Handlers : hs[p].pc = "granted" =>
       KeyOf(hs[p].req) = Asked(p) /\ WasApproved(hs[p].req)

\* A job closes a request as expired only when the date of expiry the
\* document shows has passed, even when two reviewers approved it at once
\* and the second save moved that date after the first one's job was added.
NoEarlyExpiry ==
  \A r \in Requests : docs[r].status = "expired" => docs[r].expiresIn = 0

\* While nothing has failed, an approved temporal grant has a job, or its
\* approval is still on the way to adding one, or the worker has its job.
ExpiryScheduled ==
  faults = 0 =>
    \A r \in Requests \ PermanentRequests : docs[r].status = "approved" =>
      \/ \E j \in jobs : j.req = r
      \/ \E p \in Handlers : hs[p].pc \in {"grant", "schedule"} /\ hs[p].req = r
      \/ worker.pc \in {"find", "save"} /\ worker.job.req = r

\* What parseDuration gives for "0 minutes" is excluded.
PositiveDurations == \A r \in Requests \ PermanentRequests : Seconds[r] > 0

\* The key of a temporal grant always has an EX, of at most the duration
\* asked for, whoever wrote it last, and the key of a permanent one has none.
KeyLifetime ==
  \A k \in Keys : keys[k].req # None =>
    IF IsPermanent(keys[k].req) THEN keys[k].ttl = 0
    ELSE keys[k].ttl \in 1..Seconds[keys[k].req]

\* The key of a temporal grant goes away, whatever fails and however often
\* access checks write it back (the EX of setGrant).
TemporalKeyDies ==
  \A k \in Keys, r \in Requests \ PermanentRequests :
    keys[k].req = r ~> keys[k].req # r

NoFault == faults = 0

\* Without failures an approved temporal grant is closed in MongoDB.
TemporalGrantEndsWithoutFault ==
  [](NoFault) => \A r \in Requests \ PermanentRequests :
                   docs[r].status = "approved" ~> docs[r].status # "approved"

\* Until something fails, an expiry the worker has written is in the audit log or
\* the worker is still on its way there, whatever reviews and access checks do to
\* document and key in between.
ExpiryNotLost ==
  faults = 0 =>
    \A r \in Requests : docs[r].autoExpired =>
      r \in audited \/ (worker.pc \in {"delete", "audit"} /\ worker.job.req = r)

\* Without failures every expiry the worker writes reaches the audit log.
ExpiryAuditedWithoutFault ==
  [](NoFault) => \A r \in Requests : docs[r].autoExpired ~> r \in audited

-----------------------------------------------------------------------------
(* The abstract specification: what Redis answers to GET and TTL of a key,  *)
(* and who has been approved, is a lease.                                    *)

Lease == INSTANCE GrantLease WITH
  Covers <- [r \in Requests |-> KeyOf(r)],
  Term <- [r \in Requests |-> Duration(r)],
  approved <- {r \in Requests : WasApproved(r)},
  lease <- [k \in Keys |-> [req |-> keys[k].req, left |-> GrantTtl(k)]]

\* Reviews, access checks, the worker, failures and time together do nothing
\* to the keys but renew the lease of a request approved before for that very
\* key, for its own term at most, let leases age, and end them.
ImplementsLease == Lease!Spec

-----------------------------------------------------------------------------
(* What comments say, and the code does not do *)

\* "If status is REVOKED, we must not overwrite it with EXPIRED."
\* (grant-expiry.processor.ts)
RevokedNotExpired ==
  [][\A r \in Requests :
       docs[r].status = "revoked" => docs'[r].status # "expired"]_vars

\* "Manual revoke must clear Redis immediately" (access-requests.service.ts):
\* no key names a revoked request once its revoke is done.
RevokeClearsKey ==
  \A k \in Keys, r \in Requests :
    keys[k].req = r /\ docs[r].status = "revoked" =>
      \E p \in Handlers : hs[p].pc = "delete" /\ hs[p].req = r
=============================================================================
