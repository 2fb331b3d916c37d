------------------------------ MODULE Dashboard ------------------------------
(***************************************************************************)
(* The approval queue of the dashboard (ApprovalQueueTab of                *)
(* app/dashboard/page.tsx) within the session that mounts it.              *)
(*                                                                         *)
(* Every list call is answered with the requests as the service found them *)
(* and in any order; nothing cancels a call when the filter changes, and a *)
(* review reloads the list with the filter of the render it was clicked    *)
(* in.  A component that is gone ignores its answers.                      *)
(***************************************************************************)
EXTENDS Session

CONSTANTS
  Requests,
  Owner,    \* the requester of a request
  Filters,  \* the filters of the tab
  Calls     \* bound: list calls under way; reviews: one at a time

ASSUME QueueAssumption ==
  /\ Owner \in [Requests -> Users]
  /\ {"pending"} \subseteq Filters
  /\ Filters \subseteq {"pending", "approved", "closed"}

VARIABLES
  status,   \* of the requests, at the service
  queue,    \* the state of the tab
  lists,    \* its list calls
  review,   \* its PATCH call
  crossed   \* history: two calls of this mount overlapped, or a list call failed

tab == <<queue, lists, review, crossed>>
vars == <<session, status, tab>>

-----------------------------------------------------------------------------
\* Closed is rejected, revoked or expired: a row without buttons.
Statuses == {"pending", "approved", "closed"}
Reviews == {"approve", "reject", "revoke"}

NoList == [at |-> "free", filter |-> "pending", signed |-> TRUE, rows |-> {}]
NoReview == [at |-> "free", req |-> None, what |-> "approve", by |-> None,
             filter |-> "pending", alive |-> FALSE]
NoRows == [of |-> "pending", reqs |-> {}]
Closed == [open |-> FALSE, filter |-> "pending", rows |-> NoRows, loading |-> FALSE]

TypeOK ==
  /\ SessionTypeOK
  /\ status \in [Requests -> Statuses]
  /\ queue \in [open : BOOLEAN, filter : Filters, loading : BOOLEAN,
                rows : [of : Filters, reqs : SUBSET Requests]]
  /\ lists \in [Calls -> [at : {"free", "sent", "served"}, filter : Filters, signed : BOOLEAN,
                          rows : SUBSET Requests]]
  /\ review \in [at : {"free", "sent", "done", "refused"}, req : Requests \cup {None},
                 what : Reviews, by : SomeUser, filter : Filters, alive : BOOLEAN]
  /\ crossed \in BOOLEAN
  /\ ~queue.open => ~review.alive /\ \A c \in Calls : lists[c].at = "free"
  /\ review.at = "sent" => review.req \in Requests

Init ==
  /\ SessionInit
  /\ status = [r \in Requests |-> "pending"]
  /\ queue = Closed
  /\ lists = [c \in Calls |-> NoList]
  /\ review = NoReview
  /\ crossed = FALSE

-----------------------------------------------------------------------------
(* The list *)

UnderWay == {c \in Calls : lists[c].at # "free"}
FreeCall == {c \in Calls \ UnderWay : \A d \in Calls \ UnderWay : c <= d}
Listing(f) == [at |-> "sent", filter |-> f, signed |-> token # None, rows |-> {}]

\* fetchRequests of the render with filter f; a call overlaps another one.
Fetch(f) ==
  /\ \E c \in FreeCall : lists' = [lists EXCEPT ![c] = Listing(f)]
  /\ crossed' = (crossed \/ UnderWay # {})

\* The dashboard renders its tabs, the queue for who may approve.
Shown == page = "dashboard" /\ user # None /\ ~loading

OpenQueue ==
  /\ Shown /\ perms # None /\ ~queue.open
  /\ queue' = [Closed EXCEPT !.open = TRUE, !.loading = TRUE]
  /\ \E c \in FreeCall : lists' = [lists EXCEPT ![c] = Listing("pending")]
  /\ crossed' = FALSE
  /\ UNCHANGED <<session, status, review>>

\* Faulty variant: the effect does not depend on the filter.
SetFilterOnly(f) ==
  /\ queue.open /\ queue.filter # f
  /\ queue' = [queue EXCEPT !.filter = f]
  /\ UNCHANGED <<session, status, lists, review, crossed>>

SetFilter(f) ==
  /\ queue.open /\ queue.filter # f
  /\ queue' = [queue EXCEPT !.filter = f, !.loading = TRUE]
  /\ \E c \in FreeCall : lists' = [lists EXCEPT ![c] = Listing(f)]
  /\ crossed' = (crossed \/ UnderWay # {} \/ review.alive)
  /\ UNCHANGED <<session, status, review>>

ServeList(c) ==
  /\ lists[c].at = "sent" /\ lists[c].signed
  /\ lists' = [lists EXCEPT ![c].at = "served",
                            ![c].rows = {r \in Requests : status[r] = lists[c].filter}]
  /\ UNCHANGED <<session, status, queue, review, crossed>>

AnswerList(c) ==
  /\ lists[c].at = "served"
  /\ queue' = [queue EXCEPT !.loading = FALSE,
                            !.rows = [of |-> lists[c].filter, reqs |-> lists[c].rows]]
  /\ lists' = [lists EXCEPT ![c] = NoList]
  /\ UNCHANGED <<session, status, review, crossed>>

\* Faulty variant: without the finally
FailListOnly(c) ==
  /\ lists[c].at # "free"
  /\ lists' = [lists EXCEPT ![c] = NoList]
  /\ crossed' = TRUE
  /\ Fault
  /\ UNCHANGED <<token, user, perms, loading, page, restore, login, form, ordinary, reloads,
                 status, queue, review>>

\* The rows stay, under whatever filter is selected, and the console has the
\* message.  A call without a token is always refused.
FailList(c) ==
  /\ lists[c].at # "free"
  /\ queue' = [queue EXCEPT !.loading = FALSE]
  /\ lists' = [lists EXCEPT ![c] = NoList]
  /\ crossed' = TRUE
  /\ IF lists[c].signed THEN Fault ELSE UNCHANGED faults
  /\ UNCHANGED <<token, user, perms, loading, page, restore, login, form, ordinary, reloads,
                 status, review>>

-----------------------------------------------------------------------------
(* act(): the buttons of a row *)

Buttons(of) ==
  CASE of = "pending" -> {"approve", "reject"} [] of = "approved" -> {"revoke"} [] OTHER -> {}

\* Faulty variant: buttons on the reviewer's own requests too.
ClickAny(r, what) ==
  /\ queue.open /\ ~queue.loading
  /\ r \in queue.rows.reqs /\ what \in Buttons(queue.rows.of)
  /\ review.at = "free"
  /\ review' = [at |-> "sent", req |-> r, what |-> what, by |-> token,
                filter |-> queue.filter, alive |-> TRUE]
  /\ UNCHANGED <<session, status, queue, lists, crossed>>

Click(r, what) ==
  /\ queue.open /\ ~queue.loading
  /\ r \in queue.rows.reqs /\ what \in Buttons(queue.rows.of)
  /\ Owner[r] # user
  /\ review.at = "free"
  /\ review' = [at |-> "sent", req |-> r, what |-> what, by |-> token,
                filter |-> queue.filter, alive |-> TRUE]
  /\ UNCHANGED <<session, status, queue, lists, crossed>>

\* What the service decides (AccessGrants has the steps behind it)
Allowed(v) ==
  /\ v.by # None
  /\ status[v.req] = (IF v.what = "revoke" THEN "approved" ELSE "pending")
  /\ v.what # "revoke" => Owner[v.req] # v.by

After(what) == IF what = "approve" THEN "approved" ELSE "closed"

Served(at) == review' = [NoReview EXCEPT !.at = at, !.filter = review.filter,
                                         !.alive = review.alive]

ServeReview ==
  /\ review.at = "sent"
  /\ \/ /\ Allowed(review)
        /\ status' = [status EXCEPT ![review.req] = After(review.what)]
        /\ Served("done")
     \/ ~Allowed(review) /\ Served("refused") /\ UNCHANGED status
  /\ UNCHANGED <<session, queue, lists, crossed>>

\* The call is lost before the service acts on it, or its answer is.
LoseReview ==
  /\ review.at = "sent"
  /\ \/ UNCHANGED status
     \/ Allowed(review) /\ status' = [status EXCEPT ![review.req] = After(review.what)]
  /\ Served("refused")
  /\ Fault
  /\ UNCHANGED <<token, user, perms, loading, page, restore, login, form, ordinary, reloads,
                 queue, lists, crossed>>

AnswerReview ==
  /\ review.at = "done" /\ review.alive
  /\ queue' = [queue EXCEPT !.loading = TRUE]
  /\ Fetch(review.filter)
  /\ review' = NoReview
  /\ UNCHANGED <<session, status>>

\* An error message, or a component that is gone: nothing is read again.
DropReview ==
  /\ review.at = "refused" \/ (review.at = "done" /\ ~review.alive)
  /\ review' = NoReview
  /\ UNCHANGED <<session, status, queue, lists, crossed>>

-----------------------------------------------------------------------------
(* Composition *)

\* Faulty variant: the answers still come in.
CloseTabOnly ==
  /\ queue' = Closed
  /\ review' = [review EXCEPT !.alive = FALSE, !.filter = "pending"]
  /\ UNCHANGED <<lists, crossed>>

CloseTab ==
  /\ queue' = Closed
  /\ lists' = [c \in Calls |-> NoList]
  /\ review' = [review EXCEPT !.alive = FALSE, !.filter = "pending"]
  /\ crossed' = FALSE

LeaveTab == queue.open /\ CloseTab /\ UNCHANGED <<session, status>>

\* A step of the session unmounts the tab, or leaves it alone.
SessionStep ==
  /\ SessionNext
  /\ IF Shown' \/ ~queue.open THEN UNCHANGED tab ELSE CloseTab
  /\ UNCHANGED status

\* Another reviewer, or the expiry worker
OthersStep ==
  /\ \E r \in Requests, s \in {"approved", "closed"} :
       /\ status[r] # s /\ status[r] # "closed"
       /\ status' = [status EXCEPT ![r] = s]
  /\ UNCHANGED <<session, tab>>

Answers(c) == ServeList(c) \/ AnswerList(c) \/ FailList(c)

TabNext ==
  \/ OpenQueue \/ LeaveTab
  \/ \E f \in Filters : SetFilter(f)
  \/ \E c \in Calls : Answers(c)
  \/ \E r \in Requests, what \in Reviews : Click(r, what)
  \/ ServeReview \/ LoseReview \/ AnswerReview \/ DropReview

Next == SessionStep \/ TabNext \/ OthersStep

\* Calls are answered or fail in the end; nobody has to click.
Fairness ==
  /\ WF_vars(Restore /\ SessionStep) /\ WF_vars(Redirect /\ SessionStep)
  /\ \A s \in Submits : WF_vars(Login(s) /\ SessionStep)
  /\ \A c \in Calls : WF_vars(Answers(c))
  /\ WF_vars(ServeReview \/ AnswerReview \/ DropReview)

Spec == Init /\ [][Next]_vars /\ Fairness

-----------------------------------------------------------------------------
(* Properties *)

\* In an ordinary session nobody sends an approval, a rejection or a
\* revocation of an own request: the buttons are hidden by the user who is
\* shown, and the call is made for that user, or for nobody.
ReviewsOfOthersOnly ==
  ordinary /\ review.at = "sent" => Owner[review.req] # review.by

\* The rows are those of the selected filter, and the spinner is there while
\* and only while a list is on its way, unless two calls of the tab overlapped
\* (a filter was clicked before the answer) or a list call failed.
ListFitsFilter ==
  queue.open /\ ~crossed =>
    /\ queue.loading <=> UnderWay # {}
    /\ ~queue.loading => queue.rows.of = queue.filter

\* The spinner of the queue ends, whether its calls overlap or fail.
SpinnerEnds == queue.loading ~> ~queue.loading
=============================================================================
