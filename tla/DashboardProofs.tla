--------------------------- MODULE DashboardProofs ---------------------------
(***************************************************************************)
(* The approval queue within the session that mounts it, for any users,    *)
(* requests, filters and number of calls.                                  *)
(***************************************************************************)
EXTENDS Dashboard, SessionProofs

-----------------------------------------------------------------------------
(* What the steps do to the session *)

\* The tab changes nothing of the session but the count of failures.
OnlyFaults ==
  /\ UNCHANGED <<token, user, perms, loading, page, restore, login, form, ordinary, reloads>>
  /\ faults' = faults \/ Fault

LEMMA StepOfSession ==
  ASSUME [Next]_vars
  PROVE  SessionStep \/ (OnlyFaults /\ (TabNext \/ OthersStep \/ UNCHANGED vars))
<1>1. ASSUME OpenQueue PROVE OnlyFaults
  BY <1>1 DEF OpenQueue, OnlyFaults, session
<1>2. ASSUME LeaveTab PROVE OnlyFaults
  BY <1>2 DEF LeaveTab, OnlyFaults, session
<1>3. ASSUME NEW f \in Filters, SetFilter(f) PROVE OnlyFaults
  BY <1>3 DEF SetFilter, OnlyFaults, session
<1>4. ASSUME NEW c \in Calls, Answers(c) PROVE OnlyFaults
  BY <1>4 DEF Answers, ServeList, AnswerList, FailList, OnlyFaults, session
<1>5. ASSUME NEW r \in Requests, NEW what \in Reviews, Click(r, what) PROVE OnlyFaults
  BY <1>5 DEF Click, OnlyFaults, session
<1>6. ASSUME ServeReview \/ LoseReview \/ AnswerReview \/ DropReview PROVE OnlyFaults
  BY <1>6 DEF ServeReview, LoseReview, AnswerReview, DropReview, OnlyFaults, session
<1>7. ASSUME OthersStep \/ UNCHANGED vars PROVE OnlyFaults
  BY <1>7 DEF OthersStep, OnlyFaults, session, vars
<1> QED BY <1>1, <1>2, <1>3, <1>4, <1>5, <1>6, <1>7 DEF Next, TabNext

\* So the session keeps its types and its owner here as well.
LEMMA SessionInTab ==
  ASSUME SessionTypeOK, OwnerInv, [Next]_vars
  PROVE  SessionTypeOK' /\ OwnerInv'
<1>1. CASE SessionStep
  BY <1>1, SessionTypeStep, OwnerStep DEF SessionStep
<1>2. CASE OnlyFaults
  <2>1. SessionTypeOK'
    BY <1>2, SessionAssumption DEF OnlyFaults, SessionTypeOK, Fault
  <2>2. OwnerInv'
    BY <1>2 DEF OnlyFaults, OwnerInv, OneAtATime, Only, ActsForOwner, ShownUserOwnsSession
  <2> QED BY <2>1, <2>2
<1> QED BY <1>1, <1>2, StepOfSession

\* A session that has become unusual stays so.
LEMMA OrdinaryBefore ==
  ASSUME SessionTypeOK, [Next]_vars
  PROVE  ordinary' => ordinary
<1>1. ASSUME SessionNext PROVE ordinary' => ordinary
  BY <1>1, FlagsStep DEF SessionTypeOK
<1> QED BY <1>1, StepOfSession DEF SessionStep, OnlyFaults

-----------------------------------------------------------------------------
(* Type correctness *)

QueueStates == [open : BOOLEAN, filter : Filters, loading : BOOLEAN,
                rows : [of : Filters, reqs : SUBSET Requests]]
ListStates == [at : {"free", "sent", "served"}, filter : Filters, signed : BOOLEAN,
               rows : SUBSET Requests]
ReviewStates == [at : {"free", "sent", "done", "refused"}, req : Requests \cup {None},
                 what : Reviews, by : SomeUser, filter : Filters, alive : BOOLEAN]

LEMMA ValueTypes ==
  /\ NoList \in ListStates /\ NoReview \in ReviewStates /\ Closed \in QueueStates
  /\ Closed.open = FALSE /\ NoList.at = "free" /\ NoReview.at = "free"
  /\ NoReview.alive = FALSE
  /\ \A f \in Filters : Listing(f) \in ListStates /\ Listing(f).at = "sent"
  BY QueueAssumption
  DEF NoList, NoReview, Closed, NoRows, Listing, ListStates, ReviewStates, QueueStates,
      Reviews, SomeUser

TabTypeOK ==
  /\ status \in [Requests -> Statuses]
  /\ queue \in QueueStates
  /\ lists \in [Calls -> ListStates]
  /\ review \in ReviewStates
  /\ crossed \in BOOLEAN
  /\ ~queue.open => ~review.alive /\ \A c \in Calls : lists[c].at = "free"
  /\ review.at = "sent" => review.req \in Requests

LEMMA TypeParts == TypeOK <=> SessionTypeOK /\ TabTypeOK
  BY DEF TypeOK, TabTypeOK, QueueStates, ListStates, ReviewStates

LEMMA FetchType ==
  ASSUME TabTypeOK, NEW f \in Filters,
         \E c \in FreeCall : lists' = [lists EXCEPT ![c] = Listing(f)]
  PROVE  lists' \in [Calls -> ListStates]
  BY ValueTypes DEF TabTypeOK, FreeCall, UnderWay

LEMMA CloseType ==
  ASSUME TabTypeOK, CloseTab, UNCHANGED status
  PROVE  TabTypeOK' /\ queue'.open = FALSE
<1>1. queue' = Closed /\ Closed \in QueueStates /\ Closed.open = FALSE
  BY ValueTypes DEF CloseTab
<1>2. lists' = [c \in Calls |-> NoList] /\ NoList \in ListStates /\ NoList.at = "free"
  BY ValueTypes DEF CloseTab
<1>3. review' \in ReviewStates /\ review'.at = review.at /\ review'.req = review.req
      /\ review'.alive = FALSE
  BY QueueAssumption DEF CloseTab, TabTypeOK, ReviewStates
<1>4. crossed' = FALSE
  BY DEF CloseTab
<1> QED BY <1>1, <1>2, <1>3, <1>4 DEF TabTypeOK

LEMMA TabTypeStep ==
  ASSUME SessionTypeOK, TabTypeOK, [Next]_vars
  PROVE  TabTypeOK'
<1>1. CASE SessionStep
  <2>1. CASE UNCHANGED tab BY <1>1, <2>1 DEF SessionStep, tab, TabTypeOK
  <2>2. CASE CloseTab BY <1>1, <2>2, CloseType DEF SessionStep
  <2> QED BY <1>1, <2>1, <2>2 DEF SessionStep
<1>2. CASE OpenQueue
  <2>1. queue' = [Closed EXCEPT !.open = TRUE, !.loading = TRUE]
    BY <1>2 DEF OpenQueue
  <2>2. queue' \in QueueStates /\ queue'.open = TRUE
    BY <2>1, QueueAssumption DEF Closed, NoRows, QueueStates
  <2>3. lists' \in [Calls -> ListStates]
    BY <1>2, FetchType, QueueAssumption DEF OpenQueue
  <2>4. crossed' = FALSE /\ UNCHANGED <<status, review>>
    BY <1>2 DEF OpenQueue
  <2> QED BY <2>2, <2>3, <2>4 DEF TabTypeOK
<1>3. CASE LeaveTab BY <1>3, CloseType DEF LeaveTab
<1>4. ASSUME NEW f \in Filters, SetFilter(f) PROVE TabTypeOK'
  <2>1. queue' \in QueueStates /\ queue'.open = TRUE
    BY <1>4 DEF SetFilter, TabTypeOK, QueueStates
  <2>2. lists' \in [Calls -> ListStates]
    BY <1>4, FetchType DEF SetFilter
  <2>3. crossed' \in BOOLEAN
    BY <1>4, Zenon DEF SetFilter
  <2>4. UNCHANGED <<status, review>>
    BY <1>4 DEF SetFilter
  <2> QED BY <2>1, <2>2, <2>3, <2>4 DEF TabTypeOK
<1>5. ASSUME NEW c \in Calls, Answers(c) PROVE TabTypeOK'
  <2>1. CASE ServeList(c)
    <3>1. {r \in Requests : status[r] = lists[c].filter} \in SUBSET Requests
      OBVIOUS
    <3>2. lists' \in [Calls -> ListStates]
      BY <2>1, <3>1 DEF ServeList, TabTypeOK, ListStates
    <3>3. queue.open = TRUE
      BY <2>1 DEF ServeList, TabTypeOK, QueueStates
    <3> QED BY <2>1, <3>2, <3>3 DEF ServeList, TabTypeOK
  <2>2. CASE AnswerList(c)
    <3>1. lists' \in [Calls -> ListStates]
      BY <2>2, ValueTypes DEF AnswerList, TabTypeOK
    <3>2. queue.open = TRUE
      BY <2>2 DEF AnswerList, TabTypeOK, QueueStates
    <3>3. queue' \in QueueStates /\ queue'.open = TRUE
      BY <2>2, <3>2 DEF AnswerList, TabTypeOK, QueueStates, ListStates
    <3> QED BY <2>2, <3>1, <3>3 DEF AnswerList, TabTypeOK
  <2>3. CASE FailList(c)
    <3>1. lists' \in [Calls -> ListStates]
      BY <2>3, ValueTypes DEF FailList, TabTypeOK
    <3>2. queue.open = TRUE
      BY <2>3 DEF FailList, TabTypeOK, QueueStates
    <3>3. queue' \in QueueStates /\ queue'.open = TRUE
      BY <2>3, <3>2 DEF FailList, TabTypeOK, QueueStates
    <3> QED BY <2>3, <3>1, <3>3 DEF FailList, TabTypeOK
  <2> QED BY <1>5, <2>1, <2>2, <2>3 DEF Answers
<1>6. ASSUME NEW r \in Requests, NEW what \in Reviews, Click(r, what) PROVE TabTypeOK'
  <2>1. review' \in ReviewStates /\ review'.req = r
    BY <1>6 DEF Click, ReviewStates, TabTypeOK, QueueStates, SessionTypeOK
  <2> QED BY <1>6, <2>1 DEF Click, TabTypeOK
<1>7. CASE ServeReview
  <2>1. review.at = "sent" /\ review.req \in Requests /\ review.what \in Reviews
    BY <1>7 DEF ServeReview, TabTypeOK, ReviewStates
  <2>2. /\ review' \in ReviewStates /\ review'.at \in {"done", "refused"}
        /\ review'.alive = review.alive
    BY <1>7, ValueTypes DEF ServeReview, Served, TabTypeOK, ReviewStates
  <2>3. status' \in [Requests -> Statuses]
    BY <1>7, <2>1 DEF ServeReview, TabTypeOK, After, Statuses
  <2> QED BY <1>7, <2>2, <2>3 DEF ServeReview, TabTypeOK
<1>12. CASE LoseReview
  <2>1. review.at = "sent" /\ review.req \in Requests /\ review.what \in Reviews
    BY <1>12 DEF LoseReview, TabTypeOK, ReviewStates
  <2>2. /\ review' \in ReviewStates /\ review'.at = "refused"
        /\ review'.alive = review.alive
    BY <1>12, ValueTypes DEF LoseReview, Served, TabTypeOK, ReviewStates
  <2>3. status' \in [Requests -> Statuses]
    BY <1>12, <2>1 DEF LoseReview, TabTypeOK, After, Statuses
  <2> QED BY <1>12, <2>2, <2>3 DEF LoseReview, TabTypeOK
<1>8. CASE AnswerReview
  <2>1. review.filter \in Filters BY DEF TabTypeOK, ReviewStates
  <2>2. lists' \in [Calls -> ListStates]
    BY <1>8, <2>1, FetchType DEF AnswerReview, Fetch
  <2>3. review' \in ReviewStates /\ review'.at = "free"
    BY <1>8, ValueTypes DEF AnswerReview
  <2>4. crossed' \in BOOLEAN
    BY <1>8, Zenon DEF AnswerReview, Fetch
  <2>5. queue' \in QueueStates /\ queue'.open = queue.open
    BY <1>8 DEF AnswerReview, TabTypeOK, QueueStates
  <2>6. queue.open = TRUE
    BY <1>8 DEF AnswerReview, TabTypeOK, QueueStates
  <2> QED BY <1>8, <2>2, <2>3, <2>4, <2>5, <2>6 DEF AnswerReview, TabTypeOK
<1>9. CASE DropReview
  <2>1. review' \in ReviewStates /\ review'.at = "free" /\ review'.alive = FALSE
    BY <1>9, ValueTypes DEF DropReview
  <2> QED BY <1>9, <2>1 DEF DropReview, TabTypeOK
<1>10. CASE OthersStep
  <2>1. status' \in [Requests -> Statuses]
    BY <1>10 DEF OthersStep, TabTypeOK, Statuses
  <2> QED BY <1>10, <2>1 DEF OthersStep, TabTypeOK, tab
<1>11. CASE UNCHANGED vars BY <1>11 DEF vars, tab, TabTypeOK
<1> QED
  BY <1>1, <1>2, <1>3, <1>4, <1>5, <1>6, <1>7, <1>8, <1>9, <1>10, <1>11, <1>12 DEF Next, TabNext

LEMMA TabTypeInit == Init => TabTypeOK
  BY ValueTypes DEF Init, TabTypeOK, Statuses

-----------------------------------------------------------------------------
(* Reviews *)

MountedInv ==
  /\ queue.open => Shown
  /\ ReviewsOfOthersOnly

LEMMA MountedStep ==
  ASSUME TypeOK, OwnerInv, MountedInv, [Next]_vars
  PROVE  MountedInv'
<1>0. TabTypeOK /\ SessionTypeOK BY TypeParts
<1>1. CASE SessionStep
  <2>1. CASE UNCHANGED tab /\ (Shown' \/ ~queue.open)
    BY <1>0, <2>1, OrdinaryBefore DEF tab, MountedInv, ReviewsOfOthersOnly
  <2>2. CASE CloseTab
    <3>1. queue'.open = FALSE
      BY <2>2 DEF CloseTab, Closed
    <3>2. review'.at = review.at /\ review'.req = review.req /\ review'.by = review.by
      BY <1>0, <2>2 DEF CloseTab, TabTypeOK, ReviewStates
    <3> QED BY <1>0, <3>1, <3>2, OrdinaryBefore DEF MountedInv, ReviewsOfOthersOnly
  <2> QED BY <1>1, <2>1, <2>2 DEF SessionStep
<1>2. CASE OnlyFaults /\ (TabNext \/ OthersStep \/ UNCHANGED vars)
  <2>0. (Shown' <=> Shown) /\ (ordinary' <=> ordinary) /\ token' = token
    BY <1>2 DEF OnlyFaults, Shown
  <2>1. CASE OpenQueue
    BY <2>0, <2>1 DEF OpenQueue, MountedInv, ReviewsOfOthersOnly
  <2>2. CASE LeaveTab
    <3>1. queue'.open = FALSE
      BY <2>2 DEF LeaveTab, CloseTab, Closed
    <3>2. review'.at = review.at /\ review'.req = review.req /\ review'.by = review.by
      BY <1>0, <2>2 DEF LeaveTab, CloseTab, TabTypeOK, ReviewStates
    <3> QED BY <2>0, <3>1, <3>2 DEF MountedInv, ReviewsOfOthersOnly
  <2>3. ASSUME NEW f \in Filters, SetFilter(f) PROVE MountedInv'
    BY <2>0, <2>3 DEF SetFilter, MountedInv, ReviewsOfOthersOnly
  <2>4. ASSUME NEW c \in Calls, Answers(c) PROVE MountedInv'
    <3>1. queue'.open = queue.open /\ UNCHANGED review
      BY <1>0, <2>4 DEF Answers, ServeList, AnswerList, FailList, TabTypeOK, QueueStates
    <3> QED BY <2>0, <3>1 DEF MountedInv, ReviewsOfOthersOnly
  <2>5. ASSUME NEW r \in Requests, NEW what \in Reviews, Click(r, what) PROVE MountedInv'
    <3>1. queue.open /\ Owner[r] # user /\ UNCHANGED queue
      BY <2>5 DEF Click
    <3>2. review'.req = r /\ review'.by = token
      BY <2>5 DEF Click
    <3>3. user # None
      BY <3>1 DEF MountedInv, Shown
    <3>4. ordinary => token \in {None, user}
      BY <3>3 DEF OwnerInv, ShownUserOwnsSession
    <3>5. Owner[r] # None
      BY QueueAssumption, SessionAssumption
    <3> QED BY <3>5, <2>0, <3>1, <3>2, <3>3, <3>4 DEF MountedInv, ReviewsOfOthersOnly
  <2>6. CASE ServeReview \/ LoseReview
    BY <2>0, <2>6 DEF ServeReview, LoseReview, Served, NoReview, MountedInv, ReviewsOfOthersOnly
  <2>7. CASE AnswerReview
    <3>1. queue'.open = queue.open
      BY <1>0, <2>7 DEF AnswerReview, TabTypeOK, QueueStates
    <3> QED BY <2>0, <2>7, <3>1 DEF AnswerReview, NoReview, MountedInv, ReviewsOfOthersOnly
  <2>8. CASE DropReview
    BY <2>0, <2>8 DEF DropReview, NoReview, MountedInv, ReviewsOfOthersOnly
  <2>9. CASE OthersStep \/ UNCHANGED vars
    BY <2>0, <2>9 DEF OthersStep, vars, tab, MountedInv, ReviewsOfOthersOnly
  <2> QED BY <1>2, <2>1, <2>2, <2>3, <2>4, <2>5, <2>6, <2>7, <2>8, <2>9 DEF TabNext
<1> QED BY <1>1, <1>2, StepOfSession

-----------------------------------------------------------------------------
(* The list: with one call at a time it is the call of the selected filter, *)
(* and so is the one a review under way will make.                          *)

FilterInv ==
  queue.open /\ ~crossed =>
    /\ \A c, d \in UnderWay : c = d
    /\ \A c \in UnderWay : lists[c].filter = queue.filter
    /\ review.alive => review.filter = queue.filter
    /\ queue.loading <=> UnderWay # {}
    /\ ~queue.loading => queue.rows.of = queue.filter

LEMMA FirstCall ==
  ASSUME TabTypeOK, UnderWay = {}, NEW f \in Filters,
         \E c \in FreeCall : lists' = [lists EXCEPT ![c] = Listing(f)]
  PROVE  \E c \in Calls : UnderWay' = {c} /\ lists'[c].filter = f
<1>1. PICK c \in FreeCall : lists' = [lists EXCEPT ![c] = Listing(f)]
  OBVIOUS
<1>2. c \in Calls BY DEF FreeCall
<1>3. lists'[c] = Listing(f) /\ \A d \in Calls : d # c => lists'[d] = lists[d]
  BY <1>1, <1>2 DEF TabTypeOK
<1>4. UnderWay' = {c}
  BY <1>2, <1>3 DEF UnderWay, Listing
<1> QED BY <1>2, <1>3, <1>4 DEF Listing

LEMMA FilterStep ==
  ASSUME TypeOK, FilterInv, [Next]_vars
  PROVE  FilterInv'
<1> SUFFICES ASSUME queue'.open, ~crossed' PROVE FilterInv'
  BY DEF FilterInv
<1>0. TabTypeOK BY TypeParts
<1>1. CASE SessionStep
  <2>1. CASE UNCHANGED tab BY <2>1 DEF tab, FilterInv, UnderWay
  <2>2. CASE CloseTab
    <3>1. queue'.open = FALSE BY <2>2 DEF CloseTab, Closed
    <3> QED BY <3>1
  <2> QED BY <1>1, <2>1, <2>2 DEF SessionStep
<1>2. CASE OpenQueue
  <2>1. UnderWay = {} /\ ~review.alive
    BY <1>0, <1>2 DEF OpenQueue, TabTypeOK, UnderWay
  <2>2. PICK c \in Calls : UnderWay' = {c} /\ lists'[c].filter = "pending"
    BY <1>0, <1>2, <2>1, FirstCall, QueueAssumption DEF OpenQueue
  <2>3. queue'.filter = "pending" /\ queue'.loading = TRUE /\ UNCHANGED review
    BY <1>2 DEF OpenQueue, Closed
  <2> QED BY <2>1, <2>2, <2>3 DEF FilterInv
<1>3. CASE LeaveTab
  <2>1. queue'.open = FALSE BY <1>3 DEF LeaveTab, CloseTab, Closed
  <2> QED BY <2>1
<1>4. ASSUME NEW f \in Filters, SetFilter(f) PROVE FilterInv'
  <2>1. UnderWay = {} /\ ~review.alive
    BY <1>4 DEF SetFilter
  <2>2. PICK c \in Calls : UnderWay' = {c} /\ lists'[c].filter = f
    BY <1>0, <1>4, <2>1, FirstCall DEF SetFilter
  <2>3. queue'.filter = f /\ queue'.loading = TRUE /\ UNCHANGED review
    BY <1>0, <1>4 DEF SetFilter, TabTypeOK, QueueStates
  <2> QED BY <2>1, <2>2, <2>3 DEF FilterInv
<1>5. ASSUME NEW c \in Calls, ServeList(c) PROVE FilterInv'
  <2>1. \A d \in Calls : (lists'[d].at # "free" <=> lists[d].at # "free")
                         /\ lists'[d].filter = lists[d].filter
    BY <1>0, <1>5 DEF ServeList, TabTypeOK, ListStates
  <2>2. UnderWay' = UnderWay
    BY <2>1 DEF UnderWay
  <2> QED BY <1>5, <2>1, <2>2 DEF ServeList, FilterInv, UnderWay
<1>6. ASSUME NEW c \in Calls, AnswerList(c) PROVE FilterInv'
  <2>1. c \in UnderWay BY <1>6 DEF AnswerList, UnderWay
  <2>2. queue'.open = queue.open /\ queue'.filter = queue.filter /\ queue'.loading = FALSE
        /\ queue'.rows.of = lists[c].filter /\ UNCHANGED <<review, crossed>>
    BY <1>0, <1>6 DEF AnswerList, TabTypeOK, QueueStates
  <2>3. UnderWay = {c} /\ lists[c].filter = queue.filter
    BY <2>1, <2>2 DEF FilterInv
  <2>4. lists'[c].at = "free" /\ \A d \in Calls : d # c => lists'[d] = lists[d]
    BY <1>0, <1>6 DEF AnswerList, TabTypeOK, NoList
  <2>5. UnderWay' = {}
    BY <2>3, <2>4 DEF UnderWay
  <2> QED BY <2>2, <2>3, <2>5 DEF FilterInv
<1>7. ASSUME NEW c \in Calls, FailList(c) PROVE FilterInv'
  BY <1>7 DEF FailList
<1>8. ASSUME NEW r \in Requests, NEW what \in Reviews, Click(r, what) PROVE FilterInv'
  <2>1. review'.filter = queue.filter
    BY <1>8 DEF Click
  <2> QED BY <1>8, <2>1 DEF Click, FilterInv, UnderWay
<1>9. CASE ServeReview \/ LoseReview
  <2>1. review'.alive = review.alive /\ review'.filter = review.filter
    BY <1>9 DEF ServeReview, LoseReview, Served, NoReview
  <2> QED BY <1>9, <2>1 DEF ServeReview, LoseReview, FilterInv, UnderWay
<1>10. CASE AnswerReview
  <2>1. UnderWay = {} /\ ~crossed /\ queue.open /\ review.filter \in Filters
    BY <1>0, <1>10 DEF AnswerReview, Fetch, TabTypeOK, ReviewStates
  <2>2. review.filter = queue.filter
    BY <1>10, <2>1 DEF AnswerReview, FilterInv
  <2>3. PICK c \in Calls : UnderWay' = {c} /\ lists'[c].filter = review.filter
    BY <1>0, <1>10, <2>1, FirstCall DEF AnswerReview, Fetch
  <2>4. queue'.filter = queue.filter /\ queue'.loading = TRUE /\ ~review'.alive
    BY <1>0, <1>10 DEF AnswerReview, TabTypeOK, QueueStates, NoReview
  <2> QED BY <2>2, <2>3, <2>4 DEF FilterInv
<1>11. CASE DropReview
  <2>1. review'.alive = FALSE BY <1>11 DEF DropReview, NoReview
  <2> QED BY <1>11, <2>1 DEF DropReview, FilterInv, UnderWay
<1>12. CASE OthersStep \/ UNCHANGED vars
  BY <1>12 DEF OthersStep, vars, tab, FilterInv, UnderWay
<1> QED
  BY <1>1, <1>2, <1>3, <1>4, <1>5, <1>6, <1>7, <1>8, <1>9, <1>10, <1>11, <1>12
  DEF Next, TabNext, Answers

-----------------------------------------------------------------------------
(* Theorems *)

LEMMA QueueInvariant == Spec => [](TypeOK /\ OwnerInv /\ MountedInv)
<1>1. Init => TypeOK /\ OwnerInv /\ MountedInv
  BY SessionTypeInit, OwnerInit, TabTypeInit, TypeParts
  DEF Init, MountedInv, ReviewsOfOthersOnly, Closed, NoReview
<1>2. TypeOK /\ OwnerInv /\ MountedInv /\ [Next]_vars => (TypeOK /\ OwnerInv /\ MountedInv)'
  <2> SUFFICES ASSUME TypeOK, OwnerInv, MountedInv, [Next]_vars
               PROVE  TypeOK' /\ OwnerInv' /\ MountedInv'
    OBVIOUS
  <2>1. SessionTypeOK' /\ OwnerInv' BY SessionInTab, TypeParts
  <2>2. TabTypeOK' BY TabTypeStep, TypeParts
  <2>3. TypeOK' BY <2>1, <2>2 DEF TypeOK, TabTypeOK, QueueStates, ListStates, ReviewStates
  <2> QED BY <2>1, <2>3, MountedStep
<1> QED BY <1>1, <1>2, PTL DEF Spec

\* The state of the tab is well-typed, and a closed tab has no answers to
\* come, whatever calls fail and whenever the session ends.
THEOREM QueueTyped == Spec => []TypeOK
  BY QueueInvariant, PTL

\* Nobody sends a review of an own request in an ordinary session: who is shown
\* is whom the stored token makes the call for, if it is for anybody, however
\* many sign-ins are under way (the buttons of ApprovalQueueTab).
THEOREM OwnRequestsNotReviewed == Spec => []ReviewsOfOthersOnly
<1>1. MountedInv => ReviewsOfOthersOnly
  BY DEF MountedInv
<1> QED BY <1>1, QueueInvariant, PTL

\* Of one list call after another the rows are those of the selected filter,
\* and the spinner is there while one is under way.
THEOREM RowsFitFilter == Spec => []ListFitsFilter
<1>1. Init => FilterInv
  BY DEF Init, FilterInv, Closed
<1>2. FilterInv => ListFitsFilter
  BY DEF FilterInv, ListFitsFilter
<1> QED BY <1>1, <1>2, FilterStep, QueueTyped, PTL DEF Spec
=============================================================================
