------------------------------- MODULE Session -------------------------------
(***************************************************************************)
(* The session of one browser tab: AuthProvider (lib/auth-context.tsx),    *)
(* the sign-in form (app/login/page.tsx) and the redirects of the pages.   *)
(*                                                                         *)
(* The token lives in localStorage, which all tabs share; who is shown as  *)
(* signed in, and with which permissions, is state of this tab.  Restoring *)
(* a session and signing in are flows of the same three kinds of call,     *)
(* each sent with what is stored at that moment and answered later.  A     *)
(* form that is left does not stop its submit: it goes on next to the      *)
(* submit of the form that is mounted then.                                *)
(***************************************************************************)
EXTENDS Naturals

CONSTANTS
  Users,
  None,
  Submits,     \* bound: sign-ins under way
  MaxFaults,   \* bound: calls that fail
  MaxReloads   \* bound: reloads of the tab, and writes of other tabs

ASSUME SessionAssumption ==
  None \notin Users \cup Submits /\ MaxFaults \in Nat /\ MaxReloads \in Nat

VARIABLES
  token,     \* localStorage sentry_token, by its owner
  user,      \* the user state of AuthProvider
  perms,     \* whose permissions its permissions state holds
  loading,   \* its loading state
  page,      \* the page the tab is at
  restore,   \* restoreSession of this mount, and whom it acts for
  login,     \* the runs of handleSubmit, and whom they act for
  form,      \* the one that the mounted form waits for
  ordinary,  \* history: nothing of what Session lists under Unusual happened
  faults, reloads

session == <<token, user, perms, loading, page, restore, login, form, ordinary, faults, reloads>>

SomeUser == Users \cup {None}
Pages == {"home", "login", "dashboard"}
Idle == [pc |-> "idle", as |-> None]

SessionTypeOK ==
  /\ token \in SomeUser /\ user \in SomeUser /\ perms \in SomeUser
  /\ loading \in BOOLEAN /\ ordinary \in BOOLEAN
  /\ page \in Pages
  /\ restore \in [pc : {"mount", "me", "perms", "unsigned", "over"}, as : SomeUser]
  /\ login \in [Submits -> [pc : {"idle", "post", "me", "perms", "unsigned"}, as : SomeUser]]
  /\ form \in Submits \cup {None}
  /\ restore.pc \in {"me", "perms", "unsigned"} => restore.as \in Users
  /\ \A s \in Submits : login[s].pc # "idle" => login[s].as \in Users
  /\ form # None => page = "login" /\ login[form].pc # "idle"
  /\ faults \in 0..MaxFaults /\ reloads \in 0..MaxReloads

\* The tab is opened at any page, with or without a token stored earlier.
SessionInit ==
  /\ token \in SomeUser
  /\ page \in Pages
  /\ user = None /\ perms = None /\ loading = TRUE
  /\ restore = [pc |-> "mount", as |-> None]
  /\ login = [s \in Submits |-> Idle] /\ form = None
  /\ ordinary = TRUE
  /\ faults = 0 /\ reloads = 0

Fault == faults < MaxFaults /\ faults' = faults + 1

\* The call for the permissions is sent with whatever token is stored by then;
\* without one it is refused, which is no error.
PermsCall == IF token = None THEN "unsigned" ELSE "perms"
PermsAnswer(flow) ==
  \/ flow.pc = "perms" /\ perms' = flow.as /\ UNCHANGED faults
  \/ flow.pc = "perms" /\ Fault /\ UNCHANGED perms
  \/ flow.pc = "unsigned" /\ UNCHANGED <<perms, faults>>

-----------------------------------------------------------------------------
(* restoreSession *)

RestoreAt(pc, as) == restore' = [pc |-> pc, as |-> as]
RestoreOver == RestoreAt("over", None) /\ loading' = FALSE

\* Faulty variant: does not look whether a token is stored.
RestoreAnyway ==
  /\ restore.pc = "mount"
  /\ RestoreAt("me", token)
  /\ UNCHANGED <<token, user, perms, loading, page, login, form, ordinary, faults, reloads>>

RestoreBegin ==
  /\ restore.pc = "mount"
  /\ IF token = None THEN RestoreOver ELSE RestoreAt("me", token) /\ UNCHANGED loading
  /\ UNCHANGED <<token, user, perms, page, login, form, ordinary, faults, reloads>>

\* Nobody but u is shown or signing in.
Only(u) ==
  user \in {None, u} /\ \A s \in Submits : login[s].pc # "idle" => login[s].as = u

\* /auth/me answers with the owner of the token it was sent with.
RestoreMe ==
  /\ restore.pc = "me"
  /\ user' = restore.as
  /\ RestoreAt(PermsCall, restore.as)
  /\ ordinary' = (ordinary /\ Only(restore.as) /\ token \in {None, restore.as})
  /\ UNCHANGED <<token, perms, loading, page, login, form, faults, reloads>>

RestorePerms ==
  /\ PermsAnswer(restore)
  /\ RestoreOver
  /\ UNCHANGED <<token, user, page, login, form, ordinary, reloads>>

\* Faulty variant: the catch without the finally
RestoreFailsOnly ==
  /\ restore.pc \in {"me", "perms", "unsigned"}
  /\ Fault
  /\ token' = None
  /\ RestoreAt("over", None)
  /\ UNCHANGED <<user, perms, loading, page, login, form, ordinary, reloads>>

\* /auth/me is refused (401), or no answer comes to either call: the catch
\* removes whatever token is stored by now.
RestoreFails ==
  /\ restore.pc \in {"me", "perms", "unsigned"}
  /\ Fault
  /\ token' = None
  /\ RestoreOver
  /\ UNCHANGED <<user, perms, page, login, form, ordinary, reloads>>

Restore == RestoreBegin \/ RestoreMe \/ RestorePerms \/ RestoreFails

-----------------------------------------------------------------------------
(* handleSubmit of the form, and login() *)

LoginAt(s, pc, as) == login' = [login EXCEPT ![s] = [pc |-> pc, as |-> as]]

\* The button is disabled while the submit of the mounted form runs, not while
\* one of a form that was left runs, or a session is being restored or shown.
Submit(s, u) ==
  /\ page = "login" /\ form = None /\ restore.pc # "mount"
  /\ login[s].pc = "idle"
  /\ LoginAt(s, "post", u) /\ form' = s
  /\ ordinary' = (ordinary /\ Only(u))
  /\ UNCHANGED <<token, user, perms, loading, page, restore, faults, reloads>>

LoginStored(s) ==
  /\ login[s].pc = "post"
  /\ token' = login[s].as
  /\ LoginAt(s, "me", login[s].as)
  /\ UNCHANGED <<user, perms, loading, page, restore, form, ordinary, faults, reloads>>

LoginMe(s) ==
  /\ login[s].pc = "me"
  /\ user' = login[s].as
  /\ LoginAt(s, PermsCall, login[s].as)
  /\ UNCHANGED <<token, perms, loading, page, restore, form, ordinary, faults, reloads>>

\* The dashboard comes up whatever page the tab is at by now, and a form that
\* is mounted goes.
LoginPerms(s) ==
  /\ PermsAnswer(login[s])
  /\ page' = "dashboard" /\ form' = None
  /\ LoginAt(s, "idle", None)
  /\ UNCHANGED <<token, user, loading, restore, ordinary, reloads>>

\* Wrong credentials, or a call that fails: the form, if it is still there,
\* shows the message.
LoginFails(s) ==
  /\ login[s].pc # "idle"
  /\ Fault
  /\ LoginAt(s, "idle", None)
  /\ form' = IF form = s THEN None ELSE form
  /\ UNCHANGED <<token, user, perms, loading, page, restore, ordinary, reloads>>

Login(s) == LoginStored(s) \/ LoginMe(s) \/ LoginPerms(s) \/ LoginFails(s)

SigningIn == \E s \in Submits : login[s].pc # "idle"

\* Faulty variant: leaves the permissions.
LogoutUser ==
  /\ page = "dashboard" /\ user # None /\ ~loading
  /\ token' = None /\ user' = None
  /\ page' = "login"
  /\ ordinary' = (ordinary /\ ~SigningIn)
  /\ UNCHANGED <<perms, loading, restore, login, form, faults, reloads>>

Logout ==
  /\ page = "dashboard" /\ user # None /\ ~loading
  /\ token' = None /\ user' = None /\ perms' = None
  /\ page' = "login"
  /\ ordinary' = (ordinary /\ ~SigningIn)
  /\ UNCHANGED <<loading, restore, login, form, faults, reloads>>

-----------------------------------------------------------------------------
(* The browser *)

\* The effects of the start page and of the dashboard
Redirect ==
  /\ ~loading
  /\ \/ page = "home" /\ page' = (IF user = None THEN "login" ELSE "dashboard")
     \/ page = "dashboard" /\ user = None /\ page' = "login"
  /\ UNCHANGED <<token, user, perms, loading, restore, login, form, ordinary, faults, reloads>>

\* Back and forward within the application keep its state, and the form that
\* is left goes, but for its calls under way ...
Navigate(to) ==
  /\ page # to /\ page' = to /\ form' = None
  /\ UNCHANGED <<token, user, perms, loading, restore, login, ordinary, faults, reloads>>

\* ... and a reload drops it, with every call under way.
Reload ==
  /\ reloads < MaxReloads /\ reloads' = reloads + 1
  /\ user' = None /\ perms' = None /\ loading' = TRUE
  /\ restore' = [pc |-> "mount", as |-> None]
  /\ login' = [s \in Submits |-> Idle] /\ form' = None
  /\ UNCHANGED <<token, page, ordinary, faults>>

\* Another tab signs in or out.
OtherTab ==
  /\ reloads < MaxReloads /\ reloads' = reloads + 1
  /\ \E u \in SomeUser : token' = u
  /\ ordinary' = FALSE
  /\ UNCHANGED <<user, perms, loading, page, restore, login, form, faults>>

SessionNext ==
  \/ Restore \/ Logout \/ Redirect \/ Reload \/ OtherTab
  \/ \E s \in Submits : Login(s)
  \/ \E s \in Submits, u \in Users : Submit(s, u)
  \/ \E to \in Pages : Navigate(to)

\* A call is answered or fails in the end, and effects run after a render.
SessionFairness ==
  /\ WF_session(Restore) /\ WF_session(Redirect)
  /\ \A s \in Submits : WF_session(Login(s))

SessionSpec == SessionInit /\ [][SessionNext]_session /\ SessionFairness

-----------------------------------------------------------------------------
(* Properties *)

\* Unusual is: another tab writes the token; somebody signs in while somebody
\* else is shown or signing in; a session is restored for one user after
\* another one has begun to sign in; the dashboard's logout overtakes a sign-in.
\* Otherwise nobody is shown as one user while the calls are sent with the
\* token of another, whatever calls are refused, late or lost: the token is the
\* one of the user who is shown, or the catch of a restore has removed it, and
\* the permissions are that user's, if any.
ShownUserOwnsSession ==
  ordinary /\ user # None => token \in {None, user} /\ perms \in {None, user}

\* However the calls of restoreSession end, the loading screen does (finally).
LoadingEnds ==
  \A n \in 0..MaxReloads : loading /\ reloads = n ~> ~loading \/ reloads # n
=============================================================================
