---------------------------- MODULE ConsoleSession ----------------------------
(***************************************************************************)
(* Who is signed in and what the console shows for it: AuthProvider (the   *)
(* session restored at load, refreshed by a timer, opened by the sign-in   *)
(* page, ended by the menu), the layout that sends everyone else away, and *)
(* the gate in front of the pages (SetupStatusProvider), which asks for    *)
(* the set-up's status again under every new token.                        *)
(***************************************************************************)
EXTENDS Naturals, ApiQueries

CONSTANTS
    Overlap,      \* whether the user leaves, and the timer fires, while a request is out
    StatusFails   \* whether the status request may fail

VARIABLES
    token, user,    \* the access token held, 0 or 1 in turn, and the user
    authLoading,
    requests,       \* of each kind: "none", "sent", "ok" or "bad" (answered by the server)
    signing,        \* the sign-in form's submission: "idle", "register", "login", "profile"
    mode,           \* the form's: "login" or "register"
    config,         \* whether registration is open, once the configuration is read
    route,          \* where the browser is
    gate,           \* the gate's query
    completedLocally,
    cookie,         \* whether the server knows the browser's session
    known,          \* whether the account exists
    open,           \* whether the server registers accounts
    done,           \* whether the set-up is complete
    signedOut       \* the user signed out and has not submitted the form since

auth == <<token, user, authLoading>>
form == <<signing, mode, config>>
shell == <<route, gate, completedLocally>>
server == <<cookie, known, open, done>>
vars == <<auth, requests, form, shell, server, signedOut>>

Kinds == {"boot", "tick", "profile", "login", "register", "logout"}
EXEMPT_PREFIXES == {"setup", "settings"}
Gated == {"console", "setup", "settings"}      \* the routes behind the gate

NoRequests == [k \in Kinds |-> "none"]
Restoring == [NoRequests EXCEPT !.boot = "sent"]

Init ==
    /\ token = None /\ user = None /\ authLoading = TRUE /\ requests = Restoring
    /\ signing = "idle" /\ mode = "login" /\ config = None
    /\ gate = NewQuery /\ completedLocally = FALSE /\ signedOut = FALSE /\ route \in Gated \cup {"signin"}
    /\ cookie \in BOOLEAN /\ known \in BOOLEAN /\ (cookie => known)
    /\ open \in BOOLEAN /\ done \in BOOLEAN

--------------------------------------------------------------------------------
(***************************************************************************)
(* The gate.  Its query runs while somebody is signed in, and again under  *)
(* each new token with what it knew kept; a page outside has no gate.      *)
(***************************************************************************)
Out(k) == requests[k] # "none"
Quiet == Overlap \/ \A k \in Kinds : ~Out(k)
Exempt == route \in EXEMPT_PREFIXES

\* Mutant: completing the wizard is not remembered here.
StatusOfQuery == gate.data

status == IF completedLocally THEN TRUE ELSE gate.data
\* Mutant: a status that could not be read is waited for.
CheckingDespiteError == token # None /\ user # None /\ status = None

checkingStatus == token # None /\ user # None /\ status = None /\ ~gate.error
redirectingToSetup == status = FALSE /\ ~Exempt

Blocked == route \in Gated /\ ~Exempt /\ (checkingStatus \/ redirectingToSetup)
Showing == route \in Gated /\ user # None /\ ~Blocked
Waiting == route \in Gated /\ (Blocked \/ user = None)

\* The effect's dependencies, before and after a step.
Enabled(t, u, r) == t # None /\ u # None /\ r \in Gated

\* Mutant: a new token starts from knowing nothing.
GateForgets(t, u, r) ==
    IF Enabled(t, u, r) /\ (~Enabled(token, user, route) \/ t # token) THEN Ask(NewQuery)
    ELSE IF Enabled(t, u, r) THEN gate ELSE NewQuery

GateAfter(t, u, r) ==
    IF ~Enabled(t, u, r) THEN NewQuery
    ELSE IF ~Enabled(token, user, route) \/ t # token THEN Ask(gate)
    ELSE gate

Becomes(t, u, r) ==
    /\ token' = t /\ user' = u /\ route' = r /\ gate' = GateAfter(t, u, r)
    /\ completedLocally' = (completedLocally /\ r \in Gated)

ServeStatus ==
    /\ Unserved(gate) /\ gate' = Serve(gate, done)
    /\ UNCHANGED <<auth, requests, form, route, completedLocally, server, signedOut>>

StatusAnswers ==
    /\ \/ gate.served /\ gate' = Land(gate)
       \/ StatusFails /\ gate.loading /\ gate' = Fault(gate)
    /\ UNCHANGED <<auth, requests, form, route, completedLocally, server, signedOut>>

RedirectToSetup ==
    /\ route \in Gated /\ redirectingToSetup /\ Becomes(token, user, "setup")
    /\ UNCHANGED <<authLoading, requests, form, server, signedOut>>

\* The wizard's launch: the server has installed everything, the gate is told,
\* and the browser goes to the new collection.
markComplete ==
    /\ Showing /\ route = "setup" /\ token # None /\ done' = TRUE /\ completedLocally' = TRUE
    /\ route' = "console"
    /\ UNCHANGED <<auth, requests, form, gate, cookie, known, open, signedOut>>

--------------------------------------------------------------------------------
(***************************************************************************)
(* The layout.                                                             *)
(***************************************************************************)
SendAway ==
    /\ route \in Gated /\ ~authLoading /\ user = None /\ Becomes(token, user, "signin")
    /\ UNCHANGED <<authLoading, requests, form, server, signedOut>>

FollowLink(r) ==
    /\ Showing /\ r # route /\ Becomes(token, user, r)
    /\ UNCHANGED <<authLoading, requests, form, server, signedOut>>

\* The page is opened afresh: whose session it is is asked for again.
Reload ==
    /\ token' = None /\ user' = None /\ authLoading' = TRUE /\ requests' = Restoring
    /\ signing' = "idle" /\ mode' = "login" /\ config' = None
    /\ gate' = NewQuery /\ completedLocally' = FALSE /\ signedOut' = FALSE
    /\ UNCHANGED <<route, server>>

--------------------------------------------------------------------------------
(***************************************************************************)
(* The requests.  A fault may take each; a refresh is good while the       *)
(* server knows the session.                                               *)
(***************************************************************************)
Put(k, s) == requests' = [requests EXCEPT ![k] = s]

Accepted(k) ==
    CASE k \in {"boot", "tick"} -> cookie
      [] k = "login"            -> known
      [] k = "register"         -> open /\ ~known
      [] OTHER                  -> TRUE

ServerAnswers(k) ==
    /\ requests[k] = "sent"
    /\ \/ Accepted(k) /\ Put(k, "ok")
       \/ Put(k, "bad")
    /\ cookie' = (IF requests'[k] = "ok" /\ k = "login" THEN TRUE
                  ELSE IF k = "logout" /\ requests'[k] = "ok" THEN FALSE ELSE cookie)
    /\ known' = (known \/ (k = "register" /\ requests'[k] = "ok"))
    /\ UNCHANGED <<auth, form, shell, open, done, signedOut>>

\* Another browser, or an administrator, revokes the session.
Revoked ==
    /\ cookie /\ cookie' = FALSE
    /\ UNCHANGED <<auth, requests, form, shell, known, open, done, signedOut>>

NewToken == IF token = 0 THEN 1 ELSE 0

\* The session is restored at load; the profile is read under its token.
bootAnswers ==
    /\ requests.boot \in {"ok", "bad"}
    /\ IF requests.boot = "ok"
       THEN /\ Becomes(NewToken, user, route) /\ authLoading' = TRUE
            /\ requests' = [requests EXCEPT !.boot = "none", !.profile = "sent"]
       ELSE /\ authLoading' = FALSE /\ Put("boot", "none") /\ UNCHANGED <<token, user, shell>>
    /\ UNCHANGED <<form, server, signedOut>>

\* A profile that cannot be read signs the user out.  The form goes to the
\* dashboard when its own has been answered, whichever way.
fetchProfileAnswers ==
    /\ requests.profile \in {"ok", "bad"}
    /\ LET r == IF signing = "profile" THEN "console" ELSE route
       IN IF requests.profile = "ok" THEN Becomes(token, "u", r) ELSE Becomes(None, None, r)
    /\ authLoading' = FALSE /\ Put("profile", "none")
    /\ signing' = (IF signing = "profile" THEN "idle" ELSE signing)
    /\ UNCHANGED <<mode, config, server, signedOut>>

\* A panel that changed the user's settings reads the profile again.
refreshProfile ==
    /\ Showing /\ token # None /\ ~Out("profile") /\ Quiet
    /\ Put("profile", "sent") /\ authLoading' = TRUE
    /\ UNCHANGED <<token, user, form, shell, server, signedOut>>

\* The timer runs while a token is held.
Tick ==
    /\ token # None /\ ~Out("tick") /\ Quiet
    /\ Put("tick", "sent")
    /\ UNCHANGED <<auth, form, shell, server, signedOut>>

tickAnswers ==
    /\ requests.tick \in {"ok", "bad"}
    /\ IF requests.tick = "ok" THEN Becomes(NewToken, user, route) ELSE Becomes(None, None, route)
    /\ Put("tick", "none")
    /\ UNCHANGED <<authLoading, form, server, signedOut>>

signOut ==
    /\ Showing /\ ~Out("logout") /\ Quiet /\ Put("logout", "sent")
    /\ UNCHANGED <<auth, form, shell, server, signedOut>>

\* A sign-out that fails keeps the user signed in.
signOutAnswers ==
    /\ requests.logout \in {"ok", "bad"} /\ Put("logout", "none")
    /\ IF requests.logout = "ok" THEN Becomes(None, None, route) /\ signedOut' = TRUE
       ELSE UNCHANGED <<token, user, shell, signedOut>>
    /\ UNCHANGED <<authLoading, form, server>>

--------------------------------------------------------------------------------
(***************************************************************************)
(* The sign-in page, which everyone may open.  Until the configuration is  *)
(* read registration looks open; the server has the last word.             *)
(***************************************************************************)
ReadConfig ==
    /\ config = None
    /\ \/ config' = open
       \/ config' = TRUE     \* the read failed: the defaults stay
    /\ UNCHANGED <<auth, requests, signing, mode, shell, server, signedOut>>

switchMode ==
    /\ route = "signin" /\ (config # FALSE \/ mode = "register")
    /\ mode' = IF mode = "login" THEN "register" ELSE "login"
    /\ UNCHANGED <<auth, requests, signing, config, shell, server, signedOut>>

handleSubmit ==
    /\ route = "signin" /\ signing = "idle" /\ ~authLoading
    /\ mode = "login" \/ config # FALSE
    /\ ~Out(mode) /\ ~Out("login") /\ Quiet
    /\ signing' = mode /\ Put(mode, "sent") /\ signedOut' = FALSE
    /\ UNCHANGED <<auth, mode, config, shell, server>>

\* An account just made is signed in to straight away.
registerAnswers ==
    /\ signing = "register" /\ requests.register \in {"ok", "bad"}
    /\ IF requests.register = "ok"
       THEN signing' = "login" /\ requests' = [requests EXCEPT !.register = "none", !.login = "sent"]
       ELSE signing' = "idle" /\ Put("register", "none")
    /\ UNCHANGED <<auth, mode, config, shell, server, signedOut>>

signInAnswers ==
    /\ signing = "login" /\ requests.login \in {"ok", "bad"}
    /\ IF requests.login = "ok"
       THEN /\ signing' = "profile" /\ authLoading' = TRUE /\ Becomes(NewToken, user, route)
            /\ requests' = [requests EXCEPT !.login = "none", !.profile = "sent"]
       ELSE /\ signing' = "idle" /\ Put("login", "none") /\ UNCHANGED <<auth, shell>>
    /\ UNCHANGED <<mode, config, server, signedOut>>

--------------------------------------------------------------------------------
Next ==
    \/ ServeStatus \/ StatusAnswers \/ RedirectToSetup \/ markComplete
    \/ SendAway \/ Reload \/ Revoked
    \/ \E r \in {"console", "settings"} : FollowLink(r)
    \/ \E k \in Kinds : ServerAnswers(k)
    \/ bootAnswers \/ fetchProfileAnswers \/ refreshProfile
    \/ Tick \/ tickAnswers \/ signOut \/ signOutAnswers
    \/ ReadConfig \/ switchMode \/ handleSubmit \/ registerAnswers \/ signInAnswers

\* Requests are answered, effects run, and the timer fires.
Fairness ==
    /\ \A k \in Kinds : WF_vars(ServerAnswers(k))
    /\ WF_vars(ServeStatus) /\ WF_vars(StatusAnswers) /\ WF_vars(bootAnswers)
    /\ WF_vars(fetchProfileAnswers) /\ WF_vars(tickAnswers) /\ WF_vars(signOutAnswers)
    /\ WF_vars(registerAnswers) /\ WF_vars(signInAnswers)
    /\ WF_vars(RedirectToSetup) /\ WF_vars(SendAway)

Spec == Init /\ [][Next]_vars /\ Fairness

--------------------------------------------------------------------------------
(***************************************************************************)
(* Properties.                                                             *)
(***************************************************************************)
\* Types, and: a profile is read and a form submitted one at a time, the
\* gate asks for signed-in users only.
TypeOK ==
    /\ token \in {None, 0, 1} /\ user \in {None, "u"} /\ authLoading \in BOOLEAN
    /\ route \in Gated \cup {"signin"} /\ config \in BOOLEAN \cup {None}
    /\ (signing \in {"login", "register"} => Out(signing))
    /\ (signing = "profile" => Out("profile"))
    /\ (gate.loading => Enabled(token, user, route))

\* Signing out lasts: no refresh or profile read answered late brings the
\* user back until the form is submitted (signOut's setToken, setUser
\* against those of the timer and of fetchProfile).
SignedOutStays == signedOut => token = None /\ user = None

\* A page on screen has a token to read with, whatever order the session's
\* requests were answered in.
PageHasToken == Showing => token # None

\* A user whose set-up has just been completed is not sent back to it by a
\* status read before (completedLocally over the query's data).
NoBounce == completedLocally => ~(redirectingToSetup /\ route \in Gated)

\* The session being refreshed never takes away a page the user works on:
\* what the gate knew stays known while it asks again.
PageStaysStep ==
    Showing /\ token' # None /\ token' # token /\ gate.data # None => Showing'
PageStays == [][PageStaysStep]_vars

\* Why they hold when nothing overlaps: one request is out at a time, and each
\* only where its answer may act: the restored session's before anybody is
\* signed in, the profile's under a token, the form's on the sign-in page, none
\* after a sign-out.
Outcomes == {"none", "sent", "ok", "bad"}
GateQueries == [data : BOOLEAN \cup {None}, loading : BOOLEAN, error : BOOLEAN,
                served : BOOLEAN, answer : BOOLEAN \cup {None}]

SessionInv ==
    /\ TypeOK
    /\ requests \in [Kinds -> Outcomes] /\ gate \in GateQueries /\ mode \in {"login", "register"}
    /\ signing \in {"idle", "login", "register", "profile"}
    /\ completedLocally \in BOOLEAN /\ signedOut \in BOOLEAN /\ open \in BOOLEAN /\ done \in BOOLEAN
    /\ \A k, l \in Kinds : Out(k) /\ Out(l) => k = l
    /\ user # None => token # None
    /\ Out("boot") => token = None /\ user = None
    /\ Out("profile") => token # None
    /\ Out("login") \/ Out("register") => route = "signin"
    /\ signedOut => token = None /\ user = None /\ \A k \in Kinds : ~Out(k)

\* Unless the page is reloaded for ever, the workspace spinner gives way to a
\* page or to the sign-in form, whatever answers the requests get, a failed
\* status included.
SpinnerGivesWay == []<><<Reload>>_vars \/ (Waiting ~> ~Waiting)
===============================================================================
