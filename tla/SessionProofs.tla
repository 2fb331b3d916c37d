---------------------------- MODULE SessionProofs ----------------------------
(***************************************************************************)
(* The session of one tab: its types, and who is shown as signed in, for   *)
(* any users and any number of failures and reloads.                       *)
(***************************************************************************)
EXTENDS Session, TLAPS

LEMMA SessionTypeInit == SessionInit => SessionTypeOK
  BY SessionAssumption DEF SessionInit, SessionTypeOK, SomeUser, Pages, Idle

\* The two flags stay Boolean, and a session that has become unusual stays so.
LEMMA FlagsStep ==
  ASSUME loading \in BOOLEAN, ordinary \in BOOLEAN, [SessionNext]_session
  PROVE  loading' \in BOOLEAN /\ ordinary' \in BOOLEAN /\ (ordinary' => ordinary)
<1>1. loading' = loading \/ loading' = FALSE \/ loading' = TRUE
  BY Zenon DEF SessionNext, session, Restore, RestoreBegin, RestoreMe, RestorePerms,
     RestoreFails, RestoreOver, Login, LoginStored, LoginMe, LoginPerms,
     LoginFails, Logout, Redirect, Reload, OtherTab, Submit, Navigate
<1>2. \/ ordinary' = ordinary \/ ordinary' = FALSE
      \/ ordinary' = (ordinary /\ Only(restore.as) /\ token \in {None, restore.as})
      \/ \E u \in Users : ordinary' = (ordinary /\ Only(u))
      \/ ordinary' = (ordinary /\ ~SigningIn)
  BY Zenon DEF SessionNext, session, Restore, RestoreBegin, RestoreMe, RestorePerms,
     RestoreFails, RestoreOver, Login, LoginStored, LoginMe, LoginPerms,
     LoginFails, Logout, Redirect, Reload, OtherTab, Submit, Navigate
<1>3. ordinary' \in BOOLEAN /\ (ordinary' => ordinary)
  <2>0. CASE ordinary' = ordinary
    BY <2>0
  <2>1. CASE ordinary' = FALSE
    BY <2>1
  <2>2. CASE ordinary' = (ordinary /\ Only(restore.as) /\ token \in {None, restore.as})
    <3> DEFINE P == Only(restore.as) /\ token \in {None, restore.as}
    <3>1. ordinary' = (ordinary /\ P)
      BY <2>2
    <3> HIDE DEF P
    <3> QED BY <3>1, Zenon
  <2>3. ASSUME NEW u \in Users, ordinary' = (ordinary /\ Only(u))
        PROVE  <1>3!:
    BY <2>3, Zenon
  <2>4. CASE ordinary' = (ordinary /\ ~SigningIn)
    BY <2>4, Zenon
  <2> QED BY <1>2, <2>0, <2>1, <2>2, <2>3, <2>4
<1> QED BY <1>1, <1>3

LoginStates == [pc : {"idle", "post", "me", "perms", "unsigned"}, as : SomeUser]

\* What a step of one sign-in does to the sign-ins
LEMMA LoginAtFrame ==
  ASSUME login \in [Submits -> LoginStates], NEW s \in Submits, NEW pc, NEW as, LoginAt(s, pc, as)
  PROVE  /\ login'[s].pc = pc /\ login'[s].as = as
         /\ \A t \in Submits \ {s} : login'[t] = login[t]
         /\ pc \in {"idle", "post", "me", "perms", "unsigned"} /\ as \in SomeUser
            => login' \in [Submits -> LoginStates]
  BY DEF LoginAt, LoginStates

LEMMA SessionTypeStep == SessionTypeOK /\ [SessionNext]_session => SessionTypeOK'
<1> SUFFICES ASSUME SessionTypeOK, [SessionNext]_session PROVE SessionTypeOK'
  OBVIOUS
<1>0. loading' \in BOOLEAN /\ ordinary' \in BOOLEAN
  BY FlagsStep DEF SessionTypeOK
<1>a. login \in [Submits -> LoginStates]
  BY DEF SessionTypeOK, LoginStates
<1> USE <1>0, SessionAssumption DEF SessionTypeOK, SomeUser, Pages
<1>1. CASE Restore
  <2>1. CASE RestoreBegin BY <2>1 DEF RestoreBegin, RestoreOver, RestoreAt
  <2>2. CASE RestoreMe BY <2>2 DEF RestoreMe, RestoreAt, PermsCall
  <2>3. CASE RestorePerms BY <2>3 DEF RestorePerms, PermsAnswer, RestoreOver, RestoreAt, Fault
  <2>4. CASE RestoreFails BY <2>4 DEF RestoreFails, RestoreOver, RestoreAt, Fault
  <2> QED BY <1>1, <2>1, <2>2, <2>3, <2>4 DEF Restore
<1>2. ASSUME NEW s \in Submits, Login(s) PROVE SessionTypeOK'
  <2>0. login[s].pc # "idle" /\ login[s].as \in Users
    BY <1>2 DEF Login, LoginStored, LoginMe, LoginPerms, PermsAnswer, LoginFails
  <2>1. CASE LoginStored(s)
    <3>1. LoginAt(s, "me", login[s].as) BY <2>1 DEF LoginStored
    <3>2. /\ login'[s].pc = "me" /\ login'[s].as = login[s].as
          /\ \A t \in Submits \ {s} : login'[t] = login[t]
          /\ login' \in [Submits -> LoginStates]
      BY <1>a, <2>0, <3>1, LoginAtFrame
    <3> QED BY <2>0, <2>1, <3>2 DEF LoginStored, LoginStates
  <2>2. CASE LoginMe(s)
    <3>1. PICK pc \in {"perms", "unsigned"} : LoginAt(s, pc, login[s].as)
      BY <2>2 DEF LoginMe, PermsCall
    <3>2. /\ login'[s].pc = pc /\ login'[s].as = login[s].as
          /\ \A t \in Submits \ {s} : login'[t] = login[t]
          /\ login' \in [Submits -> LoginStates]
      BY <1>a, <2>0, <3>1, LoginAtFrame
    <3> QED BY <2>0, <2>2, <3>2 DEF LoginMe, LoginStates
  <2>3. CASE LoginPerms(s)
    <3>1. LoginAt(s, "idle", None) BY <2>3 DEF LoginPerms
    <3>2. /\ login'[s].pc = "idle"
          /\ \A t \in Submits \ {s} : login'[t] = login[t]
          /\ login' \in [Submits -> LoginStates]
      BY <1>a, <3>1, LoginAtFrame
    <3> QED BY <2>0, <2>3, <3>2 DEF LoginPerms, PermsAnswer, Fault, LoginStates
  <2>4. CASE LoginFails(s)
    <3>1. LoginAt(s, "idle", None) BY <2>4 DEF LoginFails
    <3>2. /\ login'[s].pc = "idle"
          /\ \A t \in Submits \ {s} : login'[t] = login[t]
          /\ login' \in [Submits -> LoginStates]
      BY <1>a, <3>1, LoginAtFrame
    <3> QED BY <2>0, <2>4, <3>2 DEF LoginFails, Fault, LoginStates
  <2> QED BY <1>2, <2>1, <2>2, <2>3, <2>4 DEF Login
<1>3. CASE Logout BY <1>3 DEF Logout
<1>4. CASE Redirect BY <1>4 DEF Redirect
<1>5. CASE Reload BY <1>5 DEF Reload, Idle
<1>6. CASE OtherTab BY <1>6 DEF OtherTab
<1>7. ASSUME NEW s \in Submits, NEW u \in Users, Submit(s, u) PROVE SessionTypeOK'
  <2>1. LoginAt(s, "post", u) BY <1>7 DEF Submit
  <2>2. /\ login'[s].pc = "post" /\ login'[s].as = u
        /\ \A t \in Submits \ {s} : login'[t] = login[t]
        /\ login' \in [Submits -> LoginStates]
    BY <1>a, <2>1, LoginAtFrame
  <2> QED BY <1>7, <2>2 DEF Submit, LoginStates
<1>8. CASE \E to \in Pages : Navigate(to) BY <1>8 DEF Navigate
<1>9. CASE UNCHANGED session BY <1>9 DEF session
<1> QED BY <1>1, <1>2, <1>3, <1>4, <1>5, <1>6, <1>7, <1>8, <1>9 DEF SessionNext

\* The session state is well-typed whatever calls fail and tabs interfere, and
\* however many sign-ins of forms that were left are under way.
THEOREM SessionTyped == SessionSpec => []SessionTypeOK
  BY SessionTypeInit, SessionTypeStep, PTL DEF SessionSpec

-----------------------------------------------------------------------------
(* Ordinary sessions: whoever signs in is the one who is shown, if anybody *)
(* is, and each flow leaves the token of the user it acts for, or none.    *)

OneAtATime ==
  \A s \in Submits : login[s].pc # "idle" => Only(login[s].as)

ActsForOwner ==
  /\ restore.pc \in {"perms", "unsigned"} => user = restore.as
  /\ \A s \in Submits :
       /\ login[s].pc \in {"me", "perms", "unsigned"} => token \in {None, login[s].as}
       /\ login[s].pc \in {"perms", "unsigned"} => user = login[s].as

OwnerInv ==
  /\ loading \/ restore.pc = "over"
  /\ ordinary => /\ OneAtATime /\ ActsForOwner /\ ShownUserOwnsSession
                 /\ perms \in {None, user}

LEMMA OwnerInit == SessionInit => OwnerInv
  BY DEF SessionInit, OwnerInv, OneAtATime, ActsForOwner, ShownUserOwnsSession, Idle

LEMMA OwnerStep == SessionTypeOK /\ OwnerInv /\ [SessionNext]_session => OwnerInv'
<1> SUFFICES ASSUME SessionTypeOK, OwnerInv, [SessionNext]_session PROVE OwnerInv'
  OBVIOUS
<1>0. ordinary' => ordinary
  BY FlagsStep DEF SessionTypeOK
<1>a. login \in [Submits -> LoginStates]
  BY DEF SessionTypeOK, LoginStates
<1> USE <1>0, SessionAssumption
    DEF OwnerInv, OneAtATime, ActsForOwner, ShownUserOwnsSession, Only
<1>1. CASE Restore
  <2>1. CASE RestoreBegin
    <3>1. CASE token = None BY <2>1, <3>1 DEF RestoreBegin, RestoreOver, RestoreAt
    <3>2. CASE token # None BY <2>1, <3>2 DEF RestoreBegin, RestoreAt
    <3> QED BY <3>1, <3>2
  <2>2. CASE RestoreMe
    <3>1. ordinary' => Only(restore.as) /\ token \in {None, restore.as}
      BY <2>2, Zenon DEF RestoreMe
    <3>2. /\ user' = restore.as /\ restore'.as = restore.as
          /\ restore'.pc \in {"perms", "unsigned"} /\ restore.pc = "me"
          /\ UNCHANGED <<token, perms, loading, login>>
      BY <2>2 DEF RestoreMe, RestoreAt, PermsCall
    <3> SUFFICES ASSUME ordinary' PROVE OwnerInv'
      BY <3>2
    <3>3. OneAtATime' BY <3>1, <3>2
    <3>4. ActsForOwner'
      <4>1. \A s \in Submits :
              login[s].pc \in {"perms", "unsigned"} => login[s].as = restore.as
        BY <3>1
      <4> QED BY <3>2, <4>1
    <3>5. ShownUserOwnsSession'
      <4>1. user \in {None, restore.as} /\ perms \in {None, user}
        BY <3>1
      <4> QED BY <3>1, <3>2, <4>1
    <3> QED BY <3>1, <3>2, <3>3, <3>4, <3>5
  <2>3. CASE RestorePerms BY <2>3 DEF RestorePerms, PermsAnswer, RestoreOver, RestoreAt
  <2>4. CASE RestoreFails BY <2>4 DEF RestoreFails, RestoreOver, RestoreAt
  <2> QED BY <1>1, <2>1, <2>2, <2>3, <2>4 DEF Restore
<1>2. ASSUME NEW s \in Submits, Login(s) PROVE OwnerInv'
  <2>0. login[s].pc # "idle" /\ login[s].as \in Users
    BY <1>2 DEF Login, LoginStored, LoginMe, LoginPerms, PermsAnswer, LoginFails, SessionTypeOK
  <2>1. CASE LoginStored(s)
    <3>1. LoginAt(s, "me", login[s].as) BY <2>1 DEF LoginStored
    <3>2. /\ login'[s].pc = "me" /\ login'[s].as = login[s].as
          /\ \A t \in Submits \ {s} : login'[t] = login[t]
      BY <1>a, <3>1, LoginAtFrame
    <3> QED BY <2>0, <2>1, <3>2 DEF LoginStored
  <2>2. CASE LoginMe(s)
    <3>1. PICK pc \in {"perms", "unsigned"} : LoginAt(s, pc, login[s].as)
      BY <2>2 DEF LoginMe, PermsCall
    <3>2. /\ login'[s].pc = pc /\ login'[s].as = login[s].as
          /\ \A t \in Submits \ {s} : login'[t] = login[t]
      BY <1>a, <3>1, LoginAtFrame
    <3>3. /\ login[s].pc = "me" /\ user' = login[s].as
          /\ UNCHANGED <<token, perms, loading, restore>>
      BY <2>2 DEF LoginMe
    <3> SUFFICES ASSUME ordinary' PROVE OwnerInv'
      BY <3>3
    <3>4. /\ user \in {None, login[s].as} /\ token \in {None, login[s].as}
          /\ \A t \in Submits : login[t].pc # "idle" => login[t].as = login[s].as
      BY <2>0, <3>3
    <3>5. OneAtATime' BY <3>2, <3>3, <3>4
    <3>6. ActsForOwner'
      <4>1. restore.pc \in {"perms", "unsigned"} => restore.as = login[s].as
        BY <3>4 DEF SessionTypeOK
      <4> QED BY <3>2, <3>3, <3>4, <4>1
    <3>7. ShownUserOwnsSession' /\ perms' \in {None, user'} BY <3>3, <3>4
    <3> QED BY <3>3, <3>5, <3>6, <3>7
  <2>3. CASE LoginPerms(s)
    <3>1. LoginAt(s, "idle", None) BY <2>3 DEF LoginPerms
    <3>2. /\ login'[s].pc = "idle"
          /\ \A t \in Submits \ {s} : login'[t] = login[t]
      BY <1>a, <3>1, LoginAtFrame
    <3> QED BY <2>0, <2>3, <3>2 DEF LoginPerms, PermsAnswer
  <2>4. CASE LoginFails(s)
    <3>1. LoginAt(s, "idle", None) BY <2>4 DEF LoginFails
    <3>2. /\ login'[s].pc = "idle"
          /\ \A t \in Submits \ {s} : login'[t] = login[t]
      BY <1>a, <3>1, LoginAtFrame
    <3> QED BY <2>4, <3>2 DEF LoginFails
  <2> QED BY <1>2, <2>1, <2>2, <2>3, <2>4 DEF Login
<1>3. CASE Logout
  <2>1. ordinary' => ~SigningIn BY <1>3, Zenon DEF Logout
  <2>2. /\ restore.pc = "over" /\ user' = None /\ perms' = None
        /\ UNCHANGED <<loading, restore, login>>
    BY <1>3 DEF Logout
  <2> QED BY <2>1, <2>2 DEF SigningIn
<1>4. CASE Redirect BY <1>4 DEF Redirect
<1>5. CASE Reload BY <1>5 DEF Reload, Idle
<1>6. CASE OtherTab BY <1>6 DEF OtherTab
<1>7. ASSUME NEW s \in Submits, NEW u \in Users, Submit(s, u) PROVE OwnerInv'
  <2>1. LoginAt(s, "post", u) BY <1>7 DEF Submit
  <2>2. /\ login'[s].pc = "post" /\ login'[s].as = u
        /\ \A t \in Submits \ {s} : login'[t] = login[t]
    BY <1>a, <2>1, LoginAtFrame
  <2>3. ordinary' => Only(u)
    BY <1>7, Zenon DEF Submit
  <2> QED BY <1>7, <2>2, <2>3 DEF Submit
<1>8. CASE \E to \in Pages : Navigate(to) BY <1>8 DEF Navigate
<1>9. CASE UNCHANGED session BY <1>9 DEF session
<1> QED BY <1>1, <1>2, <1>3, <1>4, <1>5, <1>6, <1>7, <1>8, <1>9 DEF SessionNext

\* Outside what makes a session unusual, and however many sign-ins are under way,
\* the stored token is that of the user who is shown, or a failed restore has
\* removed it, and so are the permissions (AuthProvider).
THEOREM ShownUserIsOwner == SessionSpec => []ShownUserOwnsSession
<1>1. OwnerInv => ShownUserOwnsSession
  BY DEF OwnerInv, ShownUserOwnsSession
<1> QED BY <1>1, OwnerInit, OwnerStep, SessionTyped, PTL DEF SessionSpec
=============================================================================
