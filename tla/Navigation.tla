----------------------------- MODULE Navigation -----------------------------
(***************************************************************************)
(* Which page of the frontend is shown: the router with its guard, the     *)
(* sign-in and registration forms, and the ends of a session.  A           *)
(* navigation takes time - the guard runs, then the chunk of the page is   *)
(* fetched - and a newer one supersedes it; meanwhile logins are answered  *)
(* and sessions end.  How a session ends is in Sessions.                   *)
(***************************************************************************)
EXTENDS Naturals, FiniteSets

CONSTANTS Form,       \* bound: logins in flight at once
          MaxSteps,   \* bound: what the user does
          MaxMisses   \* bound: chunks that cannot be fetched

ASSUME BoundAssumption == MaxSteps \in Nat /\ MaxMisses \in Nat

VARIABLES
    who,       \* auth store: the role of the user signed in, or "none"
    expired,   \* whether its token has expired
    route,     \* the current route: the page shown, and its ?redirect=
    pending,   \* the navigation under way: where to, and what it awaits
    loaded,    \* pages whose chunk was fetched
    failed,    \* whether the last navigation failed
    login,     \* the page each login in flight was sent from
    awaited,   \* the login the form on the page awaits
    steps, misses

auth == <<who, expired>>
router == <<route, pending, loaded, failed>>
forms == <<login, awaited>>
navVars == <<auth, router, forms, steps, misses>>

Guest == {"login", "register"}
Guarded == {"dashboard", "transactions", "ledger", "admin-transactions"}
Page == Guest \union Guarded

To(page) == [page |-> page, redirect |-> "none"]
Idle == [to |-> To("none"), awaits |-> "nothing"]

\* The catch-all route leads to the dashboard.
Resolve(path) == To(IF path \in Page THEN path ELSE "dashboard")

\* Addresses a user can go to, a link to the sign-in form with a redirect of any
\* kind among them.
Address == {Resolve(path) : path \in Page}
             \union {[page |-> "login", redirect |-> path] : path \in Page \union {"elsewhere"}}

\* A computed value: it is not computed again when the token expires.
IsAuthenticated == who # "none"

IsAdmin == who = "ADMIN"

NavInit ==
    /\ who = "none" /\ expired = FALSE
    /\ route = To("none") /\ pending = [to |-> To("dashboard"), awaits |-> "guard"]
    /\ loaded = {} /\ failed = FALSE
    /\ login = [f \in Form |-> "none"] /\ awaited = "none"
    /\ steps = 0 /\ misses = 0

\* router.push and replace: a navigation to the current route ends at once, and
\* still supersedes the one under way.
Push(to) ==
    /\ pending' = IF to = route THEN Idle ELSE [to |-> to, awaits |-> "guard"]
    /\ failed' = FALSE
    /\ UNCHANGED <<route, loaded>>

\* Mutant of Guard: what must be signed in asks the clock, too.
GuardByClock(to) ==
    IF to.page \in Guarded /\ (~IsAuthenticated \/ expired)
    THEN [page |-> "login", redirect |-> IF to.page = "dashboard" THEN "none" ELSE to.page]
    ELSE IF to.page \in Guest /\ IsAuthenticated THEN To("dashboard")
    ELSE IF to.page = "admin-transactions" /\ ~IsAdmin THEN To("dashboard")
    ELSE to

\* router.beforeEach: where a navigation ends up.
Guard(to) ==
    IF to.page \in Guarded /\ ~IsAuthenticated
    THEN [page |-> "login", redirect |-> IF to.page = "dashboard" THEN "none" ELSE to.page]
    ELSE IF to.page \in Guest /\ IsAuthenticated THEN To("dashboard")
    ELSE IF to.page = "admin-transactions" /\ ~IsAdmin THEN To("dashboard")
    ELSE to

RunGuard ==
    /\ pending.awaits = "guard"
    /\ IF Guard(pending.to) = pending.to
         THEN /\ pending' = [pending EXCEPT !.awaits = "chunk"]
              /\ UNCHANGED <<route, loaded, failed>>
         ELSE Push(Guard(pending.to))
    /\ UNCHANGED <<auth, forms, steps, misses>>

\* The page is there.  Another page is a new view, which awaits no login.
Arrive ==
    /\ pending.awaits = "chunk"
    /\ loaded' = loaded \union {pending.to.page}
    /\ route' = pending.to
    /\ pending' = Idle
    /\ IF route.page = route'.page
         THEN UNCHANGED awaited
         ELSE awaited' = "none"
    /\ UNCHANGED <<auth, failed, login, steps, misses>>

\* The chunk of a page cannot be fetched: the old page stays.
ImportFails ==
    /\ pending.awaits = "chunk" /\ pending.to.page \notin loaded
    /\ misses < MaxMisses
    /\ misses' = misses + 1
    /\ failed' = TRUE
    /\ pending' = Idle
    /\ UNCHANGED <<auth, route, loaded, forms, steps>>

UserStep == steps < MaxSteps /\ steps' = steps + 1

\* The links on the page, and those of the header, which is there for a user
\* who is signed in.
Links ==
    LET own == [page \in {"login", "register", "dashboard"} |->
                  CASE page = "login" -> "register"
                    [] page = "register" -> "login"
                    [] page = "dashboard" -> "transactions"]
    IN  {To(own[page]) : page \in DOMAIN own \intersect {route.page}}
          \union {To(page) : page \in {p \in Guarded : IsAuthenticated
                                            /\ (p = "admin-transactions" => IsAdmin)}}

FollowLink(to) ==
    /\ UserStep
    /\ to \in Links
    /\ Push(to)
    /\ UNCHANGED <<auth, forms, misses>>

\* The back and forward buttons: the guard runs in any case.
GoBack(to) ==
    /\ UserStep
    /\ pending' = [to |-> to, awaits |-> "guard"]
    /\ failed' = FALSE
    /\ UNCHANGED <<auth, route, loaded, forms, misses>>

\* The page is loaded anew, or its address typed: loadSession takes a stored
\* session whose token has not expired, and the router starts over.
LoadPage(to) ==
    /\ UserStep
    /\ who' = IF expired THEN "none" ELSE who
    /\ expired' = FALSE
    /\ route' = To("none")
    /\ pending' = [to |-> to, awaits |-> "guard"]
    /\ loaded' = {} /\ failed' = FALSE
    /\ login' = [f \in Form |-> "none"] /\ awaited' = "none"
    /\ UNCHANGED misses

\* submit of LoginView and RegisterView, up to its await; the buttons are
\* disabled while this view awaits an answer.
Submit(f) ==
    /\ UserStep
    /\ route.page \in Guest
    /\ awaited = "none" /\ login[f] = "none"
    /\ login' = [login EXCEPT ![f] = route.page]
    /\ awaited' = f
    /\ UNCHANGED <<auth, router, misses>>

Answered(f) ==
    /\ login[f] # "none"
    /\ login' = [login EXCEPT ![f] = "none"]
    /\ awaited' = IF awaited = f THEN "none" ELSE awaited

\* auth.login keeps the session, and the form goes where it was asked to: the
\* redirect of the route that is current by then.
SubmitSucceeds(f, role) ==
    /\ Answered(f)
    /\ who' = role /\ expired' = FALSE
    /\ LET redirect == IF login[f] = "login" THEN route.redirect ELSE "none"
       IN  Push(Resolve(IF redirect = "none" THEN "dashboard" ELSE redirect))
    /\ UNCHANGED <<steps, misses>>

\* The answer is an error, which the form shows.
SubmitFails(f) ==
    /\ Answered(f)
    /\ UNCHANGED <<auth, router, steps, misses>>

\* The button in the header.
ClickLogout ==
    /\ UserStep
    /\ IsAuthenticated
    /\ who' = "none" /\ expired' = FALSE
    /\ Push(To("login"))
    /\ UNCHANGED <<forms, misses>>

\* Mutant of EndSession: the next navigation will find out.
EndSessionInPlace ==
    /\ who # "none"
    /\ who' = "none" /\ expired' = FALSE
    /\ UNCHANGED <<router, forms, steps, misses>>

\* endSession, on a 401 or on the word of the socket.
SessionEnds ==
    /\ who # "none"
    /\ who' = "none" /\ expired' = FALSE
    /\ Push(To("login"))
    /\ UNCHANGED <<forms, steps, misses>>

\* Time passes; nothing in the browser notices.
Expire ==
    /\ who # "none" /\ ~expired
    /\ expired' = TRUE
    /\ UNCHANGED <<who, router, forms, steps, misses>>

NavNext ==
    \/ RunGuard \/ Arrive \/ ImportFails
    \/ \E to \in Address : FollowLink(to) \/ GoBack(to) \/ LoadPage(to)
    \/ \E f \in Form : \/ Submit(f) \/ SubmitFails(f)
                       \/ \E role \in {"USER", "ADMIN"} : SubmitSucceeds(f, role)
    \/ ClickLogout \/ SessionEnds \/ Expire

NavSpec == NavInit /\ [][NavNext]_navVars

\* The router's promises settle.  The user, the server and the clock owe nothing.
FairNavSpec == NavSpec /\ WF_navVars(RunGuard) /\ WF_navVars(Arrive)

-----------------------------------------------------------------------------
\* Unless its chunk could not be fetched, the page shown suits whoever is signed
\* in as soon as no navigation is under way, whatever happened while it was: no
\* wallet without a session, no list of all transactions for one who is not an
\* admin, no sign-in form for one who is signed in.
PageSuitsSession ==
    pending = Idle /\ ~failed =>
        /\ route.page \in Guarded => who # "none"
        /\ route.page \in Guest => who = "none"
        /\ route.page = "admin-transactions" => who = "ADMIN"

\* A navigation gets somewhere: the guard's redirects never go round in circles,
\* also not between a session and a token that has expired.
NavigationSettles == pending # Idle ~> pending = Idle
=============================================================================
