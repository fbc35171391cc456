------------------------------ MODULE Sessions ------------------------------
(***************************************************************************)
(* A browser tab signed in to the API by any users, one after another or   *)
(* over each other's sessions: the auth, realtime, wallet and toast stores *)
(* of the frontend with App.vue between them, the Socket.io server with    *)
(* its session expiry timers, and what is on its way between the two -     *)
(* socket events, which keep their order, and HTTP requests and answers,   *)
(* logins among them, which do not.                                        *)
(*                                                                         *)
(* The clock is the server's and the browser's.  One token is issued per   *)
(* login, so logins are numbered and stand for their tokens.               *)
(***************************************************************************)
EXTENDS Integers, Sequences

CONSTANTS User,
          Lifetime,    \* JWT_EXPIRES_IN
          MaxTimer,    \* MAX_TIMER_MS, in the same unit
          MaxLogin,    \* bound: logins
          MaxNow,      \* bound: the clock
          MaxEvents,   \* bound: transfers received, refreshes asked for
          MaxFaults,   \* bound: connections and requests lost, page loads
          Request,     \* bound: HTTP requests in flight at once
          Nobody

ASSUME SessionsAssumption ==
    /\ Lifetime \in Nat \ {0} /\ MaxTimer \in Nat
    /\ MaxLogin \in Nat /\ MaxNow \in Nat /\ MaxEvents \in Nat /\ MaxFaults \in Nat
    /\ Nobody \notin User /\ Request \subseteq Nat

VARIABLES
    now,
    issued,    \* the tokens issued, one per login: their user and expiry
    session,   \* auth store: the login whose token it holds, 0 for none
    socket,    \* realtime store: the client socket of each login that has listeners
    status,    \* realtime store: what the header shows
    wallet,    \* wallet store: whose wallet it shows
    toasts,    \* toast store: the transfers shown, to whom they came and in which session
    conns,     \* Socket.io server: the connected sockets
    wire,      \* the events on their way to each client socket
    request,   \* the HTTP requests in flight
    events, faults

server == <<issued, conns>>
browser == <<session, socket, status, wallet>>
vars == <<now, server, browser, toasts, wire, request, events, faults>>

Login == 1 .. MaxLogin
Event == {"session:ready", "session:expired", "transfer:received", "connect_error", "disconnect"}

\* A request for the wallet or for a token, with the token of a login or with none;
\* an answer grants a token to a login.
Ask(what, k) == [for |-> what, login |-> k, answer |-> "none", grants |-> 0]
NoRequest == Ask("nothing", 0)

UserOf(k) == IF k = 0 THEN Nobody ELSE issued[k].user
Expired(k) == now >= issued[k].expiresAt

Init ==
    /\ now = 0 /\ issued = <<>> /\ session = 0
    /\ socket = [k \in Login |-> "none"] /\ status = "offline" /\ wallet = Nobody
    /\ toasts = {}
    /\ conns = {} /\ wire = [k \in Login |-> <<>>]
    /\ request = [q \in Request |-> NoRequest]
    /\ events = 0 /\ faults = 0

Happens == events < MaxEvents /\ events' = events + 1
Fault == faults < MaxFaults /\ faults' = faults + 1

Unlink(k) == {[c EXCEPT !.linked = c.linked /\ c.login # k] : c \in conns}

Send(k, e) == wire' = [wire EXCEPT ![k] = Append(@, e)]

-----------------------------------------------------------------------------
(* The Socket.io server.                                                    *)

\* Mutant of ExpiryTimer: every connection gets a whole lifetime.
ExpiryTimerAnew(k) == now + Lifetime

\* scheduleSessionExpiry: the delay is cut to what setTimeout can take.
ExpiryTimer(k) ==
    LET remaining == issued[k].expiresAt - now
    IN  now + (IF remaining > MaxTimer THEN MaxTimer ELSE remaining)

\* authenticateSocket and the connection handler, for a client socket that is
\* trying to connect.
Handshake(k) ==
    /\ socket[k] = "connecting"
    /\ IF Expired(k)
       THEN /\ Send(k, "connect_error")
            /\ socket' = [socket EXCEPT ![k] = "rejected"]
            /\ UNCHANGED conns
       ELSE /\ Send(k, "session:ready")
            /\ socket' = [socket EXCEPT ![k] = "open"]
            /\ conns' = conns \union {[login |-> k, timer |-> ExpiryTimer(k), linked |-> TRUE]}
    /\ UNCHANGED <<now, issued, session, status, wallet, toasts, request, events, faults>>

\* The expiry timer of a connection.
ExpiryFires(c) ==
    /\ c \in conns
    /\ c.timer <= now
    /\ conns' = conns \ {c}
    /\ wire' = IF c.linked
               THEN [wire EXCEPT ![c.login] = @ \o <<"session:expired", "disconnect">>]
               ELSE wire
    /\ UNCHANGED <<now, issued, browser, toasts, request, events, faults>>

\* The server notices that a client is gone: clearTimeout.
ServerDisconnect(c) ==
    /\ c \in conns
    /\ ~ c.linked
    /\ conns' = conns \ {c}
    /\ UNCHANGED <<now, issued, browser, toasts, wire, request, events, faults>>

\* notifyTransferReceived: an emit to the room of the user.
NotifyTransferReceived(u) ==
    LET room == {c.login : c \in {d \in conns : d.linked /\ UserOf(d.login) = u}}
    IN  /\ room # {}
        /\ Happens
        /\ wire' = [k \in Login |-> IF k \in room THEN Append(wire[k], "transfer:received")
                                                 ELSE wire[k]]
        /\ UNCHANGED <<now, server, browser, toasts, request, faults>>

\* An attempt to connect does not reach the server; the client will try again.
ConnectFails(k) ==
    /\ socket[k] = "connecting"
    /\ Fault
    /\ status' = "offline"
    /\ UNCHANGED <<now, server, session, socket, wallet, toasts, wire, request, events>>

\* The transport of a client socket breaks, without a word to either side.
ConnectionLost(k) ==
    /\ socket[k] = "open"
    /\ Fault
    /\ conns' = Unlink(k)
    /\ wire' = [wire EXCEPT ![k] = <<>>]
    /\ socket' = [socket EXCEPT ![k] = "cut"]
    /\ UNCHANGED <<now, issued, session, status, wallet, toasts, request, events>>

\* Mutant of NoticeLoss: nobody listens to "disconnect".
NoticeLossUnseen(k) ==
    /\ socket[k] = "cut"
    /\ socket' = [socket EXCEPT ![k] = "connecting"]
    /\ UNCHANGED <<now, server, session, status, wallet, toasts, wire, request, events, faults>>

\* The client misses the server's heartbeat, or is told at once: "disconnect".  It
\* reconnects by itself; the server finds out sooner, later or never.
NoticeLoss(k) ==
    /\ socket[k] = "cut"
    /\ socket' = [socket EXCEPT ![k] = "connecting"]
    /\ status' = "connecting"
    /\ UNCHANGED <<now, server, session, wallet, toasts, wire, request, events, faults>>

-----------------------------------------------------------------------------
(* The stores of the frontend.                                              *)

\* Mutant of SocketsAfterDisconnect: removeAllListeners and disconnect forgotten.
SocketsKept == socket

\* realtime.disconnect.
SocketsAfterDisconnect == [k \in Login |-> "none"]

\* Nothing more is delivered to a client socket that was closed, or replaced.
CloseSockets(sockets) ==
    /\ socket' = sockets
    /\ wire' = [k \in Login |-> IF sockets[k] \in {"none", "connecting"} THEN <<>> ELSE wire[k]]
    /\ conns' = {[c EXCEPT !.linked = c.linked /\ sockets[c.login] = "open"] : c \in conns}

\* App.vue's watch of auth.token, for a token: connect and refresh the wallet.
SignedIn(k) ==
    /\ CloseSockets([SocketsAfterDisconnect EXCEPT ![k] = "connecting"])
    /\ status' = "connecting"

\* Mutant of SignOut: wallet.reset forgotten.
SignOutWithBalance ==
    /\ session' = 0
    /\ CloseSockets(SocketsAfterDisconnect)
    /\ status' = "offline"
    /\ UNCHANGED wallet

\* auth.logout and the watch of auth.token: disconnect and reset the wallet.
SignOut ==
    /\ session' = 0
    /\ CloseSockets(SocketsAfterDisconnect)
    /\ status' = "offline"
    /\ wallet' = Nobody

\* endSession, for a session that is there.
EndSession == IF session = 0 THEN UNCHANGED <<browser, wire, conns>> ELSE SignOut

\* http.request.  The slots, a bound of the model, are taken in their order.
SendRequest(q, r) ==
    /\ \A p \in Request : request[p] = NoRequest => q <= p
    /\ request[q] = NoRequest
    /\ request' = [request EXCEPT ![q] = r]

\* auth.login, to its await, from a form: also from one that is still on the page
\* when another login has been answered.
SendLogin(q) ==
    /\ Len(issued) < MaxLogin
    /\ SendRequest(q, Ask("token", session))
    /\ UNCHANGED <<now, server, browser, toasts, wire, events, faults>>

\* AppHeader's button.
Logout ==
    /\ session # 0
    /\ SignOut
    /\ UNCHANGED <<now, issued, toasts, request, events, faults>>

\* The page is loaded anew: loadSession takes a stored token that is not expired.
Reload(q) ==
    /\ Fault
    /\ IF session = 0 \/ Expired(session)
       THEN SignOut /\ request' = [r \in Request |-> NoRequest]
       ELSE /\ SignedIn(session)
            /\ request' = [r \in Request |->
                  IF r = q THEN Ask("wallet", session) ELSE NoRequest]
            /\ wallet' = Nobody
            /\ UNCHANGED session
    /\ toasts' = {}
    /\ UNCHANGED <<now, issued, events>>

\* BalanceCard's button.
RefreshWallet(q) ==
    /\ session # 0
    /\ Happens
    /\ SendRequest(q, Ask("wallet", session))
    /\ UNCHANGED <<now, server, browser, toasts, wire, faults>>

\* A toast goes after seven seconds, or when it is clicked away.
DismissToast(t) ==
    /\ t \in toasts
    /\ toasts' = toasts \ {t}
    /\ UNCHANGED <<now, server, browser, wire, request, events, faults>>

\* The listeners of connect.
Ready(k) == /\ status' = "live"
            /\ UNCHANGED <<session, socket, wallet, toasts, conns, request>>
            /\ wire' = [wire EXCEPT ![k] = Tail(@)]

\* The toast, and wallet.markActivity.
TransferReceived(k, q) ==
    /\ toasts' = toasts \union {[to |-> UserOf(k), during |-> session]}
    /\ SendRequest(q, Ask("wallet", session))
    /\ wire' = [wire EXCEPT ![k] = Tail(@)]
    /\ UNCHANGED <<browser, conns>>

\* Mutant of Ends: a rejected reconnection is retried like a network error.
EndsOnExpiredOnly(e) == e = "session:expired"

\* The events on which onSessionExpired is called.
Ends(e) == e \in {"session:expired", "connect_error"}

SessionExpired(k) == EndSession /\ UNCHANGED <<toasts, request>>

\* Any other event of the socket's end.
Closed(k) ==
    /\ wire' = [wire EXCEPT ![k] = Tail(@)]
    /\ status' = "connecting"
    /\ UNCHANGED <<session, socket, wallet, toasts, conns, request>>

Deliver(k, q) ==
    /\ wire[k] # <<>>
    /\ LET e == Head(wire[k])
       IN  \/ e = "session:ready" /\ Ready(k)
           \/ e = "transfer:received" /\ TransferReceived(k, q)
           \/ Ends(e) /\ SessionExpired(k)
           \/ e \notin {"session:ready", "transfer:received"} /\ ~ Ends(e) /\ Closed(k)
    /\ UNCHANGED <<now, issued, events, faults>>

-----------------------------------------------------------------------------
(* HTTP.                                                                    *)

\* authenticate: tokenService.verify, when the request gets to the API.
AnswerWallet(q) ==
    /\ request[q].for = "wallet"
    /\ request' = [request EXCEPT ![q].answer = IF Expired(request[q].login) THEN "401" ELSE "200"]
    /\ UNCHANGED issued

\* authService.login: a new token for the user who was named, whatever token came
\* with the request.
GrantLogin(u, q) ==
    /\ request[q].for = "token"
    /\ Len(issued) < MaxLogin
    /\ issued' = Append(issued, [user |-> u, expiresAt |-> now + Lifetime])
    /\ request' = [request EXCEPT ![q] = [for |-> "token", login |-> @.login,
                                          answer |-> "200", grants |-> Len(issued')]]

\* INVALID_CREDENTIALS.
RefuseLogin(q) ==
    /\ request[q].for = "token"
    /\ request' = [request EXCEPT ![q].answer = "401"]
    /\ UNCHANGED issued

Answer(q) ==
    /\ request[q] # NoRequest /\ request[q].answer = "none"
    /\ AnswerWallet(q) \/ (\E u \in User : GrantLogin(u, q)) \/ RefuseLogin(q)
    /\ UNCHANGED <<now, conns, browser, toasts, wire, events, faults>>

\* auth.login after its await, and the watch of auth.token: the new session takes
\* the place of any that is there, whose wallet stays shown until the refresh that
\* is now sent is answered.
SignIn(q) ==
    /\ session' = request[q].grants
    /\ SignedIn(request[q].grants)
    /\ request' = [request EXCEPT ![q] = Ask("wallet", request[q].grants)]
    /\ UNCHANGED wallet

\* wallet.refresh after its await.
ShowWallet(q) ==
    /\ wallet' = UserOf(request[q].login)
    /\ request' = [request EXCEPT ![q] = NoRequest]
    /\ UNCHANGED <<session, socket, status, conns, wire>>

\* http.request on a 401: onUnauthorized if the request carried a token, be it to
\* sign in.
Unauthorized(q) ==
    /\ IF request[q].login = 0 THEN UNCHANGED <<browser, wire, conns>> ELSE EndSession
    /\ request' = [request EXCEPT ![q] = NoRequest]

\* The answer gets to the browser, whoever is signed in by then.
Receive(q) ==
    /\ \/ request[q].answer = "200" /\ request[q].for = "wallet" /\ ShowWallet(q)
       \/ request[q].answer = "200" /\ request[q].for = "token" /\ SignIn(q)
       \/ request[q].answer = "401" /\ Unauthorized(q)
    /\ UNCHANGED <<now, issued, toasts, events, faults>>

\* fetch rejects: NETWORK_ERROR, swallowed by the callers of refresh and shown by a form.
RequestLost(q) ==
    /\ request[q] # NoRequest
    /\ Fault
    /\ request' = [request EXCEPT ![q] = NoRequest]
    /\ UNCHANGED <<now, server, browser, toasts, wire, events>>

-----------------------------------------------------------------------------
\* Timers are not late by as much as a tick: those of the connections, of the toasts,
\* and of the client for the server's heartbeat.
Tick ==
    /\ now < MaxNow
    /\ toasts = {} /\ \A k \in Login : socket[k] # "cut"
    /\ \A c \in conns : c.timer > now
    /\ now' = now + 1
    /\ UNCHANGED <<server, browser, toasts, wire, request, events, faults>>

SocketStep(k) == Handshake(k) \/ NoticeLoss(k) \/ \E q \in Request : Deliver(k, q)

Next ==
    \/ Tick
    \/ \E k \in Login : SocketStep(k) \/ ConnectFails(k) \/ ConnectionLost(k)
    \/ \E c \in conns : ExpiryFires(c) \/ ServerDisconnect(c)
    \/ \E u \in User : NotifyTransferReceived(u)
    \/ \E q \in Request : SendLogin(q)
    \/ \E t \in toasts : DismissToast(t)
    \/ Logout
    \/ \E q \in Request : \/ Reload(q)
                          \/ RefreshWallet(q)
                          \/ Answer(q)
                          \/ Receive(q)
                          \/ RequestLost(q)

Spec == Init /\ [][Next]_vars

\* Awaits settle, timers fire, and a browser delivers what arrives, however
\* often its request slots (a bound of the model) are taken.  No request, no
\* login and no tick of the clock is owed.
FairSpec ==
    /\ Spec
    /\ SF_vars(\E k \in Login : SocketStep(k))
    /\ WF_vars(\E c \in conns : ExpiryFires(c))
    /\ WF_vars(\E q \in Request : Answer(q) \/ Receive(q))

-----------------------------------------------------------------------------
(* Properties.                                                              *)

\* "An expired token cannot keep an old socket alive" (README): no connection
\* outlives its token, however late in the token's life it was made and
\* whether or not its client is still there.
ExpiredTokenHasNoSocket == \A c \in conns : now <= issued[c.login].expiresAt

\* A transfer is shown to its recipient only, whoever used the browser before and
\* whatever was still on its way to them - except that a toast that came up for
\* its recipient stays for its seven seconds though somebody else signs in: nothing
\* clears it (App.vue:36-39).
ToastsAreOwn ==
    \A t \in toasts :
        \/ t.to = UserOf(session)
        \/ t.during # session /\ t.to = UserOf(t.during)

\* "Live" in the header is true: the next transfer will be delivered, unless the
\* end of the session is already on its way, or the link is cut and the client has
\* yet to miss a heartbeat.
LiveIsTrue ==
    status = "live" =>
        \/ \E c \in conns : c.linked /\ c.login = session
        \/ \E i \in DOMAIN wire[session] : wire[session][i] = "session:expired"
        \/ socket[session] = "cut"

\* Two things only show the balance of another than the user signed in, or end a
\* session before its token has expired without the user asking: the answer to a
\* request that outlived its session (App.vue and wallet.js do not ask whose it
\* is), and the answer to a login sent over a session (auth.js:39-42 keeps its
\* token without resetting the wallet, http.js:45 takes a wrong password for the
\* end of the session).
Foreign == wallet \notin {Nobody, UserOf(session)}
EndedEarly == session # 0 /\ session' = 0 /\ ~Expired(session)
OnlyLateAnswersMix ==
    [][(~Foreign /\ Foreign') \/ (EndedEarly /\ ~Logout)
          => \E q \in Request :
                /\ request[q].login # session \/ (session # 0 /\ request[q].for = "token")
                /\ Receive(q)]_vars

\* "An expired token signs the user out" (README), through lost connections,
\* lost events and late reconnections, even if no request is ever made.
ExpiredIsSignedOut ==
    session # 0 /\ Expired(session) ~> session = 0 \/ ~Expired(session)
=============================================================================
