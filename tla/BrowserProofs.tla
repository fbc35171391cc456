--------------------------- MODULE BrowserProofs ---------------------------
(***************************************************************************)
(* Proofs about one browser tab: its sessions and sockets (Sessions), for  *)
(* any users, lifetimes, timers, numbers of logins, requests in flight and *)
(* failures, and the pages it shows (Navigation), for any number of logins *)
(* in flight and of things a user does.                                    *)
(***************************************************************************)
EXTENDS Sessions, Navigation, SequenceTheorems, TLAPS

Issued == 1 .. Len(issued)

Conns == [login : Issued, timer : Int, linked : BOOLEAN]

Asked == [for : {"nothing", "wallet", "token"}, login : Issued \union {0},
          answer : {"none", "200", "401"}, grants : Issued \union {0}]

TypeOK ==
    /\ now \in Nat
    /\ issued \in Seq([user : User, expiresAt : Nat]) /\ Len(issued) \in 0 .. MaxLogin
    /\ session \in Issued \union {0}
    /\ socket \in [Login -> {"none", "connecting", "open", "cut", "rejected"}]
    /\ conns \subseteq Conns
    /\ wire \in [Login -> Seq(Event)]
    /\ request \in [Request -> Asked]

\* Only the session has a client socket, and only that socket has a connection
\* or anything on its way to it.
SocketInv ==
    /\ \A k \in Login : socket[k] # "none" => k = session
    /\ \A c \in conns : c.linked => socket[c.login] = "open"
    /\ \A k \in Login : wire[k] # <<>> => socket[k] \in {"open", "rejected"}
    /\ \A k \in Login : socket[k] = "rejected" => wire[k] \in Seq({"connect_error"})

\* The timer of a connection is still to come, and fires with its token's
\* expiry at the latest; where no delay is cut, with it.
TimerInv ==
    /\ \A c \in conns : now <= c.timer /\ c.timer <= issued[c.login].expiresAt
    /\ \A k \in Issued : issued[k].expiresAt <= now + Lifetime
    /\ Lifetime <= MaxTimer => \A c \in conns : c.timer = issued[c.login].expiresAt

Ending(k) == \E i \in DOMAIN wire[k] : wire[k][i] = "session:expired"

\* A socket that is open on the client is connected, or will hear why not; the
\* header says "live" of an open one only, or one that is cut.
LiveInv ==
    /\ \A k \in Login : socket[k] = "open" =>
          (\E c \in conns : c.linked /\ c.login = k) \/ Ending(k)
    /\ status = "live" => \E k \in Login : k = session /\ socket[k] \in {"open", "cut"}

Harmless == {"session:ready", "transfer:received", "disconnect"}

\* A request for the wallet has a token, an answer is to a request, and one that
\* grants a login has a token to grant.
IsWhole(r) ==
    /\ r.for = "wallet" => r.login # 0
    /\ r.answer # "none" => r.for # "nothing"
    /\ r.answer = "200" /\ r.for = "token" => r.grants # 0

\* What ends a session is only said of a token that has expired, or of a login.
EndInv ==
    /\ \A q \in Request : IsWhole(request[q])
    /\ \A q \in Request : request[q].answer = "401" /\ request[q].for = "wallet"
                            => Expired(request[q].login)
    /\ Lifetime <= MaxTimer =>
          \A k \in Login : wire[k] \in Seq(Harmless) \/ (k \in Issued /\ Expired(k))

\* A toast came to the user of the session in which it came up.
ToastInv == \A t \in toasts : t.during \in Issued /\ t.to = UserOf(t.during)

IInv == TypeOK /\ SocketInv /\ TimerInv /\ LiveInv /\ EndInv /\ ToastInv

LEMMA InitInvariant == Init => IInv
<1> SUFFICES ASSUME Init PROVE IInv
  OBVIOUS
<1>1. issued = <<>> /\ Len(issued) = 0 /\ Issued = {}
  BY DEF Init, Issued
<1>2. /\ now \in Nat /\ session = 0 /\ conns = {}
      /\ \A k \in Login : wire[k] = <<>> /\ socket[k] = "none"
      /\ toasts = {}
      /\ \A q \in Request : request[q].for = "nothing" /\ request[q].answer = "none"
  BY DEF Init, NoRequest, Ask
<1>3. TypeOK
  <2>1. issued \in Seq([user : User, expiresAt : Nat]) /\ wire \in [Login -> Seq(Event)]
    BY DEF Init
  <2>2. Len(issued) \in 0 .. MaxLogin
    BY <1>1, SessionsAssumption
  <2>3. request \in [Request -> Asked]
    BY DEF Init, NoRequest, Ask, Asked
  <2>4. socket \in [Login -> {"none", "connecting", "open", "cut", "rejected"}]
    BY DEF Init
  <2> QED
    BY <1>2, <2>1, <2>2, <2>3, <2>4 DEF TypeOK
<1>4. SocketInv /\ TimerInv
  BY <1>1, <1>2 DEF SocketInv, TimerInv
<1>5. LiveInv /\ EndInv /\ ToastInv
  <2>1. \A k \in Login : wire[k] \in Seq(Harmless)
    <3>1. <<>> \in Seq(Harmless)
      OBVIOUS
    <3> QED
      BY <1>2, <3>1
  <2> QED
    BY <1>2, <2>1 DEF Init, LiveInv, EndInv, IsWhole, ToastInv
<1> QED
  BY <1>3, <1>4, <1>5 DEF IInv

-----------------------------------------------------------------------------
(* What is known of a client socket.                                        *)

LEMMA SocketFacts ==
  ASSUME IInv, NEW k \in Login, socket[k] # "none"
  PROVE  /\ k = session /\ k \in Issued
         /\ \A j \in Login : j # k => socket[j] = "none" /\ wire[j] = <<>>
         /\ socket[k] = "connecting" => wire[k] = <<>> /\ \A c \in conns : ~c.linked
<1>1. k = session /\ k \in Issued
  BY SessionsAssumption DEF IInv, TypeOK, SocketInv, Login, Issued
<1>2. \A j \in Login : j # k => socket[j] = "none" /\ wire[j] = <<>>
  BY <1>1 DEF IInv, SocketInv
<1>3. \A c \in conns : c.login \in Login
  BY SessionsAssumption DEF IInv, TypeOK, Conns, Issued, Login
<1>4. socket[k] = "connecting" => wire[k] = <<>> /\ \A c \in conns : ~c.linked
  BY <1>2, <1>3 DEF IInv, SocketInv
<1> QED
  BY <1>1, <1>2, <1>4

\* The requests after a step are those before it, none, or new ones.
Requests ==
    /\ request' \in [Request -> Asked]
    /\ \A q \in Request :
          request'[q] = request[q] \/ (request'[q].answer = "none" /\ IsWhole(request'[q]))

\* Toasts that are added came to the user of the session.
Toasts ==
    \A t \in toasts' :
        t \in toasts \/ (session # 0 /\ t = [to |-> UserOf(session), during |-> session])

\* A step that takes every client socket away, but for one that connects anew.
Cut ==
    /\ wire' = [k \in Login |-> <<>>]
    /\ \A d \in conns' : ~d.linked /\ \E c \in conns :
          d = [login |-> c.login, timer |-> c.timer, linked |-> FALSE]

LEMMA CloseCuts ==
  ASSUME TypeOK, NEW sockets \in [Login -> {"none", "connecting"}], CloseSockets(sockets)
  PROVE  socket' = sockets /\ Cut
<1>1. wire' = [k \in Login |-> <<>>]
  BY DEF CloseSockets
<1>2. ASSUME NEW d \in conns'
      PROVE  ~d.linked /\ \E c \in conns :
                d = [login |-> c.login, timer |-> c.timer, linked |-> FALSE]
  <2>1. PICK c \in conns : d = [c EXCEPT !.linked = c.linked /\ sockets[c.login] = "open"]
    BY DEF CloseSockets
  <2>2. c \in Conns /\ c.login \in Login
    BY SessionsAssumption DEF TypeOK, Conns, Issued, Login
  <2>3. sockets[c.login] # "open"
    BY <2>2
  <2>4. d = [c EXCEPT !.linked = FALSE]
    BY <2>1, <2>3
  <2> QED
    BY <2>2, <2>4 DEF Conns
<1> QED
  BY <1>1, <1>2 DEF CloseSockets, Cut

LEMMA CutInvariant ==
  ASSUME IInv, Cut, UNCHANGED <<now, issued>>,
         session' \in Issued \union {0},
         socket' \in [Login -> {"none", "connecting"}],
         \A k \in Login : socket'[k] # "none" => k = session',
         status' # "live", toasts' \subseteq toasts, Requests
  PROVE  IInv'
<1>0. Issued' = Issued /\ Conns' = Conns /\ Asked' = Asked
  BY DEF Issued, Conns, Asked
<1>1. /\ conns' \subseteq Conns' /\ \A d \in conns' : ~d.linked
      /\ \A d \in conns' : \E c \in conns : c.login = d.login /\ c.timer = d.timer
  <2>1. ASSUME NEW d \in conns'
        PROVE  /\ d \in Conns /\ ~d.linked
               /\ \E c \in conns : c.login = d.login /\ c.timer = d.timer
    <3>1. PICK c \in conns : d = [login |-> c.login, timer |-> c.timer, linked |-> FALSE]
      BY DEF Cut
    <3>2. c.login \in Issued /\ c.timer \in Int
      BY DEF IInv, TypeOK, Conns
    <3> QED
      BY <3>1, <3>2 DEF Conns
  <2> QED
    BY <1>0, <2>1
<1>2. wire' \in [Login -> Seq(Event)] /\ \A k \in Login : wire'[k] = <<>>
  BY DEF Cut
<1>3. TypeOK'
  BY <1>0, <1>1, <1>2 DEF IInv, TypeOK, Requests
<1>4. SocketInv'
  BY <1>1, <1>2 DEF SocketInv
<1>5. TimerInv'
  BY <1>0, <1>1 DEF IInv, TimerInv
<1>6. LiveInv' /\ ToastInv'
  BY <1>0 DEF IInv, LiveInv, ToastInv, UserOf
<1>7. EndInv'
  <2>1. \A k \in Login : wire'[k] \in Seq(Harmless)
    <3>1. <<>> \in Seq(Harmless)
      OBVIOUS
    <3> QED
      BY <1>2, <3>1
  <2> QED
    BY <2>1 DEF IInv, EndInv, Requests, Expired
<1> QED
  BY <1>3, <1>4, <1>5, <1>6, <1>7 DEF IInv

LEMMA SignOutInvariant ==
  ASSUME IInv, SignOut, UNCHANGED <<now, issued>>, toasts' \subseteq toasts, Requests
  PROVE  IInv'
<1>1. SocketsAfterDisconnect \in [Login -> {"none", "connecting"}]
  BY DEF SocketsAfterDisconnect
<1>2. socket' = SocketsAfterDisconnect /\ Cut
  BY <1>1, CloseCuts DEF IInv, SignOut
<1>3. \A k \in Login : socket'[k] = "none"
  BY <1>2 DEF SocketsAfterDisconnect
<1> QED
  BY <1>1, <1>2, <1>3, CutInvariant DEF SignOut

\* A session takes over, its client socket still to be connected.
LEMMA SignedInInvariant ==
  ASSUME IInv, NEW k \in Issued, SignedIn(k), session' = k,
         UNCHANGED <<now, issued>>, toasts' \subseteq toasts, Requests
  PROVE  IInv'
<1> DEFINE sockets == [SocketsAfterDisconnect EXCEPT ![k] = "connecting"]
<1>1. sockets \in [Login -> {"none", "connecting"}] /\ k \in Login
  BY SessionsAssumption DEF SocketsAfterDisconnect, IInv, TypeOK, Issued, Login
<1>2. socket' = sockets /\ Cut
  BY <1>1, CloseCuts DEF IInv, SignedIn
<1>3. \A j \in Login : socket'[j] # "none" => j = k
  BY <1>2 DEF SocketsAfterDisconnect
<1> QED
  BY <1>1, <1>2, <1>3, CutInvariant DEF SignedIn

\* What is asked for the wallet or for a token.
LEMMA AskIsWhole ==
  ASSUME NEW k \in Issued \union {0}, NEW what \in {"wallet", "token"},
         what = "wallet" => k # 0
  PROVE  Ask(what, k) \in Asked /\ IsWhole(Ask(what, k)) /\ Ask(what, k).answer = "none"
  BY DEF Ask, Asked, IsWhole

LEMMA NoRequestIsWhole ==
  NoRequest \in Asked /\ IsWhole(NoRequest) /\ NoRequest.answer = "none"
  BY DEF NoRequest, Ask, Asked, IsWhole

LEMMA SendRequests ==
  ASSUME IInv, UNCHANGED issued, NEW q \in Request, NEW k \in Issued \union {0},
         NEW what \in {"wallet", "token"}, what = "wallet" => k # 0,
         request' = [request EXCEPT ![q] = Ask(what, k)]
  PROVE  Requests
  BY AskIsWhole DEF IInv, TypeOK, Requests, Asked, Issued

\* A request is answered, lost or forgotten.
LEMMA EndRequests ==
  ASSUME IInv, UNCHANGED issued, NEW q \in Request,
         request' = [request EXCEPT ![q] = NoRequest]
  PROVE  Requests
  BY NoRequestIsWhole DEF IInv, TypeOK, Requests, Asked, Issued

LEMMA SameRequests ==
  ASSUME IInv, UNCHANGED <<issued, request>>
  PROVE  Requests
  BY DEF IInv, TypeOK, Requests, Asked, Issued

LEMMA ReloadInvariant ==
  ASSUME IInv, NEW q \in Request, Reload(q)
  PROVE  IInv'
<1>0. UNCHANGED <<now, issued>> /\ Asked' = Asked /\ toasts' \subseteq toasts
  BY DEF Reload, Issued, Asked
<1>1. CASE session = 0 \/ Expired(session)
  <2>1. request' = [r \in Request |-> NoRequest]
    BY <1>1 DEF Reload
  <2>2. Requests
    BY <1>0, <2>1, NoRequestIsWhole DEF Requests
  <2> QED
    BY <1>0, <1>1, <2>2, SignOutInvariant DEF Reload
<1>2. CASE ~(session = 0 \/ Expired(session))
  <2>1. session \in Issued
    BY <1>2 DEF IInv, TypeOK
  <2>2. request' = [r \in Request |-> IF r = q THEN Ask("wallet", session) ELSE NoRequest]
    BY <1>2 DEF Reload
  <2>3. Requests
    BY <1>0, <1>2, <2>1, <2>2, AskIsWhole, NoRequestIsWhole DEF Requests
  <2> QED
    BY <1>0, <1>2, <2>1, <2>3, SignedInInvariant DEF Reload
<1> QED
  BY <1>1, <1>2

-----------------------------------------------------------------------------
(* Requests alone.                                                          *)

LEMMA RequestInvariant ==
  ASSUME IInv, UNCHANGED <<now, issued, session, socket, status, toasts, conns, wire>>,
         request' \in [Request -> Asked],
         \A q \in Request : IsWhole(request'[q]),
         \A q \in Request : request'[q] = request[q]
            \/ (request'[q].answer = "401" /\ request'[q].for = "wallet" => Expired(request'[q].login))
  PROVE  IInv'
<1>1. TypeOK' /\ SocketInv' /\ TimerInv' /\ LiveInv' /\ ToastInv'
  BY DEF IInv, TypeOK, Issued, Conns, Asked, SocketInv, TimerInv, LiveInv, Ending, ToastInv, UserOf
<1>2. EndInv'
  BY DEF IInv, EndInv, Expired, Issued
<1> QED
  BY <1>1, <1>2 DEF IInv

LEMMA RequestSteps ==
  ASSUME IInv, NEW q \in Request, \/ RefreshWallet(q) \/ SendLogin(q) \/ RequestLost(q)
  PROVE  IInv'
<1>0. UNCHANGED <<now, issued, session, socket, status, toasts, conns, wire>> /\ Asked' = Asked
  BY DEF RefreshWallet, SendLogin, RequestLost, server, browser, Issued, Asked
<1>1. session \in Issued \union {0}
  BY DEF IInv, TypeOK
<1>2. Requests
  <2>1. CASE RefreshWallet(q)
    BY <1>0, <1>1, <2>1, SendRequests DEF RefreshWallet, SendRequest
  <2>2. CASE SendLogin(q)
    BY <1>0, <1>1, <2>2, SendRequests DEF SendLogin, SendRequest
  <2>3. CASE RequestLost(q)
    BY <1>0, <2>3, EndRequests DEF RequestLost
  <2> QED
    BY <2>1, <2>2, <2>3
<1> QED
  BY <1>0, <1>2, RequestInvariant DEF Requests, IInv, EndInv

\* Tokens are only added.
Grown ==
    \/ issued' = issued
    \/ /\ Len(issued) < MaxLogin
       /\ \E u \in User :
             issued' = Append(issued, [user |-> u, expiresAt |-> now + Lifetime])

LEMMA Growth ==
  ASSUME TypeOK, Grown
  PROVE  /\ issued' \in Seq([user : User, expiresAt : Nat]) /\ Len(issued') \in 0 .. MaxLogin
         /\ Issued \subseteq Issued'
         /\ \A k \in Issued : issued'[k] = issued[k]
         /\ \A k \in Issued' : k \notin Issued => issued'[k].expiresAt = now + Lifetime
<1>1. CASE issued' = issued
  BY <1>1 DEF TypeOK, Issued
<1>2. ASSUME NEW u \in User, Len(issued) < MaxLogin,
             issued' = Append(issued, [user |-> u, expiresAt |-> now + Lifetime])
      PROVE  /\ issued' \in Seq([user : User, expiresAt : Nat]) /\ Len(issued') \in 0 .. MaxLogin
             /\ Issued \subseteq Issued'
             /\ \A k \in Issued : issued'[k] = issued[k]
             /\ \A k \in Issued' : k \notin Issued => issued'[k].expiresAt = now + Lifetime
  <2> DEFINE token == [user |-> u, expiresAt |-> now + Lifetime]
  <2>1. token \in [user : User, expiresAt : Nat] /\ token.expiresAt = now + Lifetime
    BY SessionsAssumption DEF TypeOK
  <2> HIDE DEF token
  <2>2. issued' = Append(issued, token)
    BY <1>2 DEF token
  <2>3. /\ issued' \in Seq([user : User, expiresAt : Nat])
        /\ Len(issued') = Len(issued) + 1
        /\ \A k \in 1 .. Len(issued) : issued'[k] = issued[k]
        /\ issued'[Len(issued) + 1] = token
    BY <2>1, <2>2 DEF TypeOK
  <2>4. Len(issued') \in 0 .. MaxLogin /\ Issued \subseteq Issued'
    BY <1>2, <2>3, SessionsAssumption DEF TypeOK, Issued
  <2>5. \A k \in Issued' : k \notin Issued => k = Len(issued) + 1
    BY <2>3 DEF TypeOK, Issued
  <2> QED
    BY <2>1, <2>3, <2>4, <2>5 DEF Issued
<1> QED
  BY <1>1, <1>2 DEF Grown

\* A login that is granted leaves the sessions, sockets and requests of others alone.
LEMMA GrantInvariant ==
  ASSUME IInv, NEW q \in Request, NEW u \in User, GrantLogin(u, q), Answer(q),
         UNCHANGED <<now, conns, session, socket, status, toasts, wire>>
  PROVE  IInv'
<1> DEFINE asked == [for |-> "token", login |-> request[q].login, answer |-> "200",
                     grants |-> Len(issued')]
<1>0. Grown /\ TypeOK
  BY DEF IInv, GrantLogin, Grown
<1>1. /\ issued' \in Seq([user : User, expiresAt : Nat]) /\ Len(issued') \in 0 .. MaxLogin
      /\ Issued \subseteq Issued'
      /\ \A k \in Issued : issued'[k] = issued[k]
      /\ \A k \in Issued' : k \notin Issued => issued'[k].expiresAt = now + Lifetime
  BY <1>0, Growth
<1>2. Len(issued') \in Issued' /\ Len(issued') # 0
  <2>1. Len(issued') = Len(issued) + 1 /\ Len(issued) \in Nat
    BY <1>0 DEF TypeOK, GrantLogin
  <2> QED
    BY <2>1 DEF Issued
<1>3. request' = [request EXCEPT ![q] = asked]
  BY DEF GrantLogin
<1>4. asked \in Asked' /\ IsWhole(asked) /\ Asked \subseteq Asked'
  BY <1>1, <1>2, <1>0 DEF TypeOK, Asked, IsWhole, GrantLogin
<1>5. asked.answer = "200"
  OBVIOUS
<1> HIDE DEF asked
<1>6. TypeOK'
  <2>1. conns' \subseteq Conns'
    BY <1>0, <1>1 DEF TypeOK, Conns
  <2>2. request' \in [Request -> Asked']
    BY <1>0, <1>3, <1>4 DEF TypeOK
  <2> QED
    BY <1>0, <1>1, <2>1, <2>2 DEF TypeOK
<1>7. SocketInv' /\ LiveInv'
  BY DEF IInv, SocketInv, LiveInv, Ending
<1>8. TimerInv'
  <2>1. \A c \in conns : c.login \in Issued /\ issued'[c.login] = issued[c.login]
    BY <1>0, <1>1 DEF TypeOK, Conns
  <2>2. ASSUME NEW k \in Issued'
        PROVE  issued'[k].expiresAt <= now + Lifetime
    <3>1. CASE k \in Issued
      BY <1>1, <3>1 DEF IInv, TimerInv
    <3>2. CASE k \notin Issued
      BY <1>0, <1>1, <3>2, SessionsAssumption DEF TypeOK
    <3> QED
      BY <3>1, <3>2
  <2> QED
    BY <2>1, <2>2 DEF IInv, TimerInv
<1>9. ToastInv'
  <2>1. \A k \in Issued : k # 0 /\ issued'[k] = issued[k]
    BY <1>0, <1>1 DEF TypeOK, Issued
  <2> QED
    BY <1>1, <2>1 DEF IInv, ToastInv, UserOf
<1>10. EndInv'
  <2>1. \A r \in Request : r # q => request'[r] = request[r]
    BY <1>0, <1>3 DEF TypeOK
  <2>2. request'[q] = asked
    BY <1>0, <1>3 DEF TypeOK
  <2>3. \A k \in Issued : Expired(k) => Expired(k)'
    BY <1>1 DEF Expired
  <2>4. ASSUME NEW r \in Request, request'[r].answer = "401", request'[r].for = "wallet"
        PROVE  now' >= issued'[request'[r].login].expiresAt
    <3>1. r # q
      BY <1>5, <2>2, <2>4
    <3>2. request[r].login \in Issued /\ Expired(request[r].login)
      <4>1. request'[r] = request[r] /\ request[r] \in Asked /\ IsWhole(request[r])
        BY <1>0, <2>1, <3>1 DEF IInv, TypeOK, EndInv
      <4> QED
        BY <2>4, <4>1 DEF IInv, EndInv, Asked, IsWhole
    <3>3. issued'[request[r].login] = issued[request[r].login]
      BY <1>1, <3>2
    <3> QED
      BY <2>1, <3>1, <3>2, <3>3 DEF Expired
  <2>5. \A r \in Request : IsWhole(request'[r])
    BY <1>4, <2>1, <2>2 DEF IInv, EndInv
  <2>6. \A k \in Login : wire[k] \in Seq(Harmless) \/ (k \in Issued /\ Expired(k))
           => wire'[k] \in Seq(Harmless) \/ (k \in Issued' /\ Expired(k)')
    BY <1>1 DEF Expired
  <2> QED
    BY <2>4, <2>5, <2>6 DEF IInv, EndInv, Expired
<1> QED
  BY <1>6, <1>7, <1>8, <1>9, <1>10 DEF IInv

LEMMA AnswerInvariant ==
  ASSUME IInv, NEW q \in Request, Answer(q)
  PROVE  IInv'
<1>0. UNCHANGED <<now, conns, session, socket, status, toasts, wire>>
  BY DEF Answer, browser
<1>1. request \in [Request -> Asked] /\ \A r \in Request : IsWhole(request[r])
  BY DEF IInv, TypeOK, EndInv
<1>2. CASE AnswerWallet(q)
  <2>1. /\ request' \in [Request -> Asked]
        /\ \A r \in Request : r # q => request'[r] = request[r]
        /\ request'[q].answer = "401" => Expired(request'[q].login)
        /\ IsWhole(request'[q])
    BY <1>1, <1>2 DEF AnswerWallet, Asked, IsWhole
  <2> QED
    BY <1>0, <1>1, <1>2, <2>1, RequestInvariant DEF AnswerWallet
<1>3. CASE RefuseLogin(q)
  <2>1. /\ request' \in [Request -> Asked]
        /\ \A r \in Request : r # q => request'[r] = request[r]
        /\ request'[q].for = "token"
        /\ IsWhole(request'[q])
    BY <1>1, <1>3 DEF RefuseLogin, Asked, IsWhole
  <2> QED
    BY <1>0, <1>1, <1>3, <2>1, RequestInvariant DEF RefuseLogin
<1> QED
  BY <1>0, <1>2, <1>3, GrantInvariant DEF Answer

LEMMA ReceiveInvariant ==
  ASSUME IInv, NEW q \in Request, Receive(q)
  PROVE  IInv'
<1>0. UNCHANGED <<now, issued, toasts>> /\ Asked' = Asked
  BY DEF Receive, Issued, Asked
<1>1. request[q] \in Asked /\ IsWhole(request[q])
  BY DEF IInv, TypeOK, EndInv
<1>2. CASE request[q].answer = "200" /\ request[q].for = "token" /\ SignIn(q)
  <2>1. request[q].grants \in Issued
    BY <1>1, <1>2 DEF Asked, IsWhole
  <2>2. Requests
    <3>1. request[q].grants # 0
      BY <1>1, <1>2 DEF IsWhole
    <3> QED
      BY <1>0, <1>2, <2>1, <3>1, SendRequests DEF SignIn
  <2> QED
    BY <1>0, <1>2, <2>1, <2>2, SignedInInvariant DEF SignIn
<1>3. CASE /\ request' = [request EXCEPT ![q] = NoRequest]
           /\ (UNCHANGED <<session, socket, status, conns, wire>>) \/ SignOut
  <2>1. Requests
    BY <1>0, <1>3, EndRequests
  <2>2. CASE UNCHANGED <<session, socket, status, conns, wire>>
    BY <1>0, <2>1, <2>2, RequestInvariant DEF Requests, IInv, EndInv
  <2>3. CASE SignOut
    BY <1>0, <2>1, <2>3, SignOutInvariant
  <2> QED
    BY <1>3, <2>2, <2>3
<1> QED
  BY <1>2, <1>3 DEF Receive, ShowWallet, Unauthorized, EndSession, browser

-----------------------------------------------------------------------------
(* The server and the wire.                                                 *)

LEMMA ExpiryIsNat ==
  ASSUME IInv, NEW k \in Issued
  PROVE  issued[k].expiresAt \in Nat
<1> DEFINE Token == [user : User, expiresAt : Nat]
<1>1. issued[k] \in Token
  <2>1. issued \in Seq(Token) /\ k \in 1 .. Len(issued)
    BY DEF IInv, TypeOK, Issued
  <2> HIDE DEF Token
  <2> QED
    BY <2>1
<1> QED
  BY <1>1

\* Connections that go take only their own timers with them.
LEMMA FewerConns ==
  ASSUME IInv, UNCHANGED <<now, issued>>,
         \A d \in conns' : d \in Conns /\ \E c \in conns : c.login = d.login /\ c.timer = d.timer
  PROVE  conns' \subseteq Conns /\ TimerInv'
  BY DEF IInv, TimerInv, Issued

LEMMA TickInvariant ==
  ASSUME IInv, Tick
  PROVE  IInv'
<1>0. /\ now' = now + 1 /\ now \in Nat
      /\ UNCHANGED <<issued, session, socket, status, toasts, conns, wire, request>>
  BY DEF IInv, TypeOK, Tick, server, browser
<1>1. TypeOK' /\ SocketInv' /\ LiveInv' /\ ToastInv'
  BY <1>0 DEF IInv, TypeOK, SocketInv, LiveInv, Ending, ToastInv, UserOf, Issued, Conns, Asked
<1>2. TimerInv'
  <2>1. \A c \in conns : c.timer \in Int /\ now < c.timer
    BY DEF IInv, TypeOK, Conns, Tick
  <2>2. \A c \in conns : now' <= c.timer
    BY <1>0, <2>1
  <2>3. \A k \in Issued : issued[k].expiresAt <= now' + Lifetime
    BY <1>0, ExpiryIsNat, SessionsAssumption DEF IInv, TimerInv
  <2> QED
    BY <1>0, <2>2, <2>3 DEF IInv, TimerInv, Issued
<1>3. EndInv'
  <2>1. \A k \in Issued : Expired(k) => now' >= issued[k].expiresAt
    BY <1>0, ExpiryIsNat DEF Expired
  <2>2. \A q \in Request : request[q].login \in Issued \union {0} /\ IsWhole(request[q])
    BY DEF IInv, TypeOK, EndInv, Asked
  <2>3. \A q \in Request : request[q].answer = "401" /\ request[q].for = "wallet"
                           => Expired(request[q].login)'
    BY <1>0, <2>1, <2>2 DEF IInv, EndInv, IsWhole, Expired
  <2> QED
    BY <1>0, <2>1, <2>2, <2>3 DEF IInv, EndInv, Expired, Issued
<1> QED
  BY <1>1, <1>2, <1>3 DEF IInv

LEMMA HandshakeInvariant ==
  ASSUME IInv, NEW k \in Login, Handshake(k)
  PROVE  IInv'
<1>0. /\ UNCHANGED <<now, issued, session, status, toasts, request>>
      /\ Issued' = Issued /\ Conns' = Conns /\ Asked' = Asked
      /\ socket[k] = "connecting"
  BY DEF Handshake, Issued, Conns, Asked
<1>1. /\ k = session /\ k \in Issued /\ wire[k] = <<>>
      /\ \A j \in Login : j # k => socket[j] = "none" /\ wire[j] = <<>>
      /\ \A c \in conns : ~c.linked
  BY <1>0, SocketFacts
<1>2. /\ now \in Nat /\ issued[k].expiresAt \in Nat
  BY <1>1, ExpiryIsNat DEF IInv, TypeOK
<1>3. status # "live" /\ ToastInv'
  BY <1>0, <1>1 DEF IInv, LiveInv, ToastInv, UserOf
<1>4. CASE Expired(k)
  <2>1. /\ conns' = conns /\ socket' = [socket EXCEPT ![k] = "rejected"]
        /\ wire' = [wire EXCEPT ![k] = <<"connect_error">>]
    BY <1>1, <1>4 DEF Handshake, Send
  <2>2. <<"connect_error">> \in Seq(Event) /\ <<"connect_error">> \in Seq({"connect_error"})
    BY DEF Event
  <2>3. TypeOK'
    BY <1>0, <2>1, <2>2 DEF IInv, TypeOK
  <2>4. SocketInv'
    BY <1>0, <1>1, <2>1, <2>2 DEF IInv, TypeOK, SocketInv
  <2>5. TimerInv' /\ LiveInv'
    BY <1>0, <1>1, <1>3, <2>1 DEF IInv, TypeOK, TimerInv, LiveInv
  <2>6. EndInv'
    BY <1>0, <1>1, <1>4, <2>1 DEF IInv, TypeOK, EndInv, Expired
  <2> QED
    BY <1>3, <2>3, <2>4, <2>5, <2>6 DEF IInv
<1>5. CASE ~Expired(k)
  <2> DEFINE new == [login |-> k, timer |-> ExpiryTimer(k), linked |-> TRUE]
  <2>1. /\ conns' = conns \union {new} /\ socket' = [socket EXCEPT ![k] = "open"]
        /\ wire' = [wire EXCEPT ![k] = <<"session:ready">>]
    BY <1>1, <1>5 DEF Handshake, Send
  <2>2. /\ ExpiryTimer(k) \in Int /\ now <= ExpiryTimer(k)
        /\ ExpiryTimer(k) <= issued[k].expiresAt
    BY <1>2, <1>5, SessionsAssumption DEF ExpiryTimer, Expired
  <2>3. Lifetime <= MaxTimer => ExpiryTimer(k) = issued[k].expiresAt
    <3>1. issued[k].expiresAt <= now + Lifetime
      BY <1>1 DEF IInv, TimerInv
    <3> QED
      BY <1>2, <3>1, SessionsAssumption DEF ExpiryTimer
  <2>4. new \in Conns /\ new.login = k /\ new.timer = ExpiryTimer(k) /\ new.linked = TRUE
    BY <1>1, <2>2 DEF Conns
  <2> HIDE DEF new
  <2>5. <<"session:ready">> \in Seq(Event) /\ <<"session:ready">> \in Seq(Harmless)
    BY DEF Event, Harmless
  <2>6. TypeOK'
    BY <1>0, <2>1, <2>4, <2>5 DEF IInv, TypeOK
  <2>7. SocketInv'
    BY <1>0, <1>1, <2>1, <2>4 DEF IInv, TypeOK, SocketInv
  <2>8. TimerInv'
    BY <1>0, <2>1, <2>2, <2>3, <2>4 DEF IInv, TimerInv
  <2>9. LiveInv'
    BY <1>0, <1>1, <1>3, <2>1, <2>4 DEF IInv, TypeOK, LiveInv
  <2>10. EndInv'
    BY <1>0, <1>1, <2>1, <2>5 DEF IInv, TypeOK, EndInv, Expired
  <2> QED
    BY <1>3, <2>6, <2>7, <2>8, <2>9, <2>10 DEF IInv
<1> QED
  BY <1>4, <1>5

LEMMA ConnectFailsInvariant ==
  ASSUME IInv, NEW k \in Login, ConnectFails(k)
  PROVE  IInv'
<1>1. /\ UNCHANGED <<now, issued, session, socket, toasts, conns, wire, request>>
      /\ status' = "offline" /\ Issued' = Issued /\ Conns' = Conns /\ Asked' = Asked
  BY DEF ConnectFails, server, Issued, Conns, Asked
<1>2. TypeOK' /\ SocketInv'
  BY <1>1 DEF IInv, TypeOK, SocketInv
<1>3. TimerInv'
  BY <1>1 DEF IInv, TimerInv
<1>4. LiveInv' /\ ToastInv'
  BY <1>1 DEF IInv, LiveInv, Ending, ToastInv, UserOf
<1>5. EndInv'
  BY <1>1 DEF IInv, EndInv, Expired
<1> QED
  BY <1>2, <1>3, <1>4, <1>5 DEF IInv

LEMMA ConnectionLostInvariant ==
  ASSUME IInv, NEW k \in Login, ConnectionLost(k)
  PROVE  IInv'
<1>0. /\ UNCHANGED <<now, issued, session, status, toasts, request>>
      /\ Issued' = Issued /\ Conns' = Conns /\ Asked' = Asked
      /\ conns' = Unlink(k) /\ wire' = [wire EXCEPT ![k] = <<>>]
      /\ socket' = [socket EXCEPT ![k] = "cut"]
  BY DEF ConnectionLost, Issued, Conns, Asked
<1>1. /\ k = session /\ \A j \in Login : j # k => socket[j] = "none" /\ wire[j] = <<>>
  BY SocketFacts DEF ConnectionLost
<1>2. \A c \in conns : c \in Conns /\ c.login \in Login
  BY SessionsAssumption DEF IInv, TypeOK, Conns, Issued, Login
<1>3. \A c \in conns : c.linked => c.login = k
  BY <1>1, <1>2 DEF IInv, SocketInv
<1>4. ASSUME NEW d \in conns'
      PROVE  d \in Conns /\ ~d.linked /\ \E c \in conns : c.login = d.login /\ c.timer = d.timer
  <2>1. PICK c \in conns : d = [c EXCEPT !.linked = c.linked /\ c.login # k]
    BY <1>0 DEF Unlink
  <2>2. d = [c EXCEPT !.linked = FALSE]
    BY <1>2, <1>3, <2>1 DEF Conns
  <2> QED
    BY <1>2, <2>2 DEF Conns
<1>5. conns' \subseteq Conns /\ TimerInv'
  BY <1>0, <1>4, FewerConns
<1>6. TypeOK' /\ \A j \in Login : wire'[j] = <<>>
  BY <1>0, <1>1, <1>5 DEF IInv, TypeOK
<1>7. SocketInv' /\ LiveInv' /\ ToastInv'
  BY <1>0, <1>1, <1>4, <1>6 DEF IInv, TypeOK, SocketInv, LiveInv, ToastInv, UserOf
<1>8. EndInv'
  <2>1. <<>> \in Seq(Harmless)
    OBVIOUS
  <2> QED
    BY <1>0, <1>6, <2>1 DEF IInv, EndInv, Expired
<1> QED
  BY <1>5, <1>6, <1>7, <1>8 DEF IInv

LEMMA NoticeLossInvariant ==
  ASSUME IInv, NEW k \in Login, NoticeLoss(k)
  PROVE  IInv'
<1>0. /\ UNCHANGED <<now, issued, session, toasts, conns, wire, request>>
      /\ Issued' = Issued /\ Conns' = Conns /\ Asked' = Asked
      /\ socket[k] = "cut" /\ socket' = [socket EXCEPT ![k] = "connecting"]
      /\ status' = "connecting"
  BY DEF NoticeLoss, server, Issued, Conns, Asked
<1>1. TypeOK' /\ SocketInv'
  BY <1>0 DEF IInv, TypeOK, SocketInv
<1>2. TimerInv' /\ EndInv'
  BY <1>0 DEF IInv, TimerInv, EndInv, Expired
<1>3. LiveInv' /\ ToastInv'
  BY <1>0 DEF IInv, TypeOK, LiveInv, Ending, ToastInv, UserOf
<1> QED
  BY <1>1, <1>2, <1>3 DEF IInv

LEMMA ServerDisconnectInvariant ==
  ASSUME IInv, NEW c \in conns, ServerDisconnect(c)
  PROVE  IInv'
<1>0. /\ UNCHANGED <<now, issued, session, socket, status, toasts, wire, request>>
      /\ Issued' = Issued /\ Conns' = Conns /\ Asked' = Asked
      /\ conns' = conns \ {c} /\ ~c.linked
  BY DEF ServerDisconnect, browser, Issued, Conns, Asked
<1>1. conns' \subseteq Conns /\ TimerInv'
  BY <1>0, FewerConns DEF IInv, TypeOK
<1>2. TypeOK' /\ SocketInv' /\ EndInv'
  BY <1>0, <1>1 DEF IInv, TypeOK, SocketInv, EndInv, Expired
<1>3. LiveInv' /\ ToastInv'
  BY <1>0 DEF IInv, LiveInv, Ending, ToastInv, UserOf
<1> QED
  BY <1>1, <1>2, <1>3 DEF IInv

LEMMA TwoMore ==
  ASSUME NEW S, NEW s \in Seq(S), NEW t \in Seq(S), Len(t) = 2
  PROVE  /\ s \o t \in Seq(S) /\ Len(s \o t) = Len(s) + 2 /\ Len(s) \in Nat
         /\ (s \o t)[Len(s) + 1] = t[1]
         /\ \A i \in DOMAIN s : (s \o t)[i] = s[i]
<1>1. Len(s) \in Nat
  OBVIOUS
<1>2. /\ s \o t \in Seq(S) /\ Len(s \o t) = Len(s) + Len(t)
      /\ \A i \in 1 .. Len(s) + Len(t) : (s \o t)[i] = IF i <= Len(s) THEN s[i] ELSE t[i - Len(s)]
  BY ConcatProperties
<1>3. (s \o t)[Len(s) + 1] = t[1]
  BY <1>1, <1>2
<1> QED
  BY <1>1, <1>2, <1>3

LEMMA ExpiryFiresInvariant ==
  ASSUME IInv, NEW c \in conns, ExpiryFires(c)
  PROVE  IInv'
<1> DEFINE k == c.login
           news == <<"session:expired", "disconnect">>
<1>0. /\ UNCHANGED <<now, issued, session, socket, status, toasts, request>>
      /\ Issued' = Issued /\ Conns' = Conns /\ Asked' = Asked
      /\ conns' = conns \ {c} /\ c.timer <= now
      /\ wire' = IF c.linked THEN [wire EXCEPT ![k] = @ \o news] ELSE wire
  BY DEF ExpiryFires, browser, Issued, Conns, Asked
<1>1. conns' \subseteq Conns /\ TimerInv'
  BY <1>0, FewerConns DEF IInv, TypeOK
<1>2. k \in Issued /\ k \in Login
  BY SessionsAssumption DEF IInv, TypeOK, Conns, Issued, Login
<1>3. c.linked => socket[k] = "open"
  BY DEF IInv, SocketInv
<1>4. Lifetime <= MaxTimer => Expired(k)
  BY <1>0 DEF IInv, TimerInv, Expired
<1>5. /\ wire[k] \o news \in Seq(Event)
      /\ Len(wire[k] \o news) = Len(wire[k]) + 2
      /\ (wire[k] \o news)[Len(wire[k]) + 1] = "session:expired"
      /\ \A i \in DOMAIN wire[k] : (wire[k] \o news)[i] = wire[k][i]
      /\ Len(wire[k]) \in Nat
  <2>1. wire[k] \in Seq(Event)
    BY <1>2 DEF IInv, TypeOK
  <2>2. news \in Seq(Event) /\ Len(news) = 2 /\ news[1] = "session:expired"
    BY DEF Event
  <2> HIDE DEF news
  <2> QED
    BY <2>1, <2>2, TwoMore
<1> HIDE DEF news
<1>6. TypeOK'
  BY <1>0, <1>1, <1>2, <1>5 DEF IInv, TypeOK
<1>7. SocketInv'
  BY <1>0, <1>2, <1>3 DEF IInv, TypeOK, SocketInv
<1>8. EndInv'
  BY <1>0, <1>2, <1>4 DEF IInv, TypeOK, EndInv, Expired
<1>9. LiveInv'
  <2>1. ASSUME NEW j \in Login, socket[j] = "open"
        PROVE  (\E d \in conns' : d.linked /\ d.login = j) \/ Ending(j)'
    <3>1. CASE c.linked /\ j = k
      <4>1. wire'[k] = wire[k] \o news
        BY <1>0, <1>2, <3>1 DEF IInv, TypeOK
      <4>2. Len(wire[k]) + 1 \in DOMAIN wire'[k] /\ wire'[k][Len(wire[k]) + 1] = "session:expired"
        BY <1>5, <1>6, <1>2, <4>1 DEF TypeOK
      <4> QED
        BY <3>1, <4>2 DEF Ending
    <3>2. CASE ~(c.linked /\ j = k)
      <4>1. wire'[j] = wire[j]
        BY <1>0, <3>2 DEF IInv, TypeOK
      <4> QED
        BY <1>0, <2>1, <3>2, <4>1 DEF IInv, LiveInv, Ending
    <3> QED
      BY <3>1, <3>2
  <2> QED
    BY <1>0, <2>1 DEF IInv, LiveInv
<1>10. ToastInv'
  BY <1>0 DEF IInv, ToastInv, UserOf
<1> QED
  BY <1>1, <1>6, <1>7, <1>8, <1>9, <1>10 DEF IInv

\* One more event on a wire keeps those before it where they are.
LEMMA OneMore ==
  ASSUME NEW S, NEW s \in Seq(S), NEW e \in S
  PROVE  /\ Append(s, e) \in Seq(S)
         /\ \A i \in DOMAIN s : i \in DOMAIN Append(s, e) /\ Append(s, e)[i] = s[i]
<1>1. /\ Append(s, e) \in Seq(S)
      /\ Len(Append(s, e)) = Len(s) + 1
      /\ \A i \in 1 .. Len(s) : Append(s, e)[i] = s[i]
  BY AppendProperties
<1>2. /\ Len(s) \in Nat
      /\ DOMAIN s = 1 .. Len(s)
  BY LenProperties
<1>3. DOMAIN Append(s, e) = 1 .. Len(s) + 1
  BY <1>1, LenProperties
<1>4. 1 .. Len(s) \subseteq 1 .. Len(s) + 1
  BY <1>2
<1> QED
  BY <1>1, <1>2, <1>3, <1>4

LEMMA NotifyInvariant ==
  ASSUME IInv, NEW u \in User, NotifyTransferReceived(u)
  PROVE  IInv'
<1>0. /\ UNCHANGED <<now, issued, conns, session, socket, status, toasts, request>>
      /\ Issued' = Issued /\ Conns' = Conns /\ Asked' = Asked
  BY DEF NotifyTransferReceived, server, browser, Issued, Conns, Asked
<1>1. ASSUME NEW k \in Login
      PROVE  \/ wire'[k] = wire[k]
             \/ wire'[k] = Append(wire[k], "transfer:received") /\ socket[k] = "open"
  BY DEF IInv, SocketInv, NotifyTransferReceived
<1>2. ASSUME NEW k \in Login
      PROVE  /\ wire'[k] \in Seq(Event)
             /\ wire[k] \in Seq(Harmless) => wire'[k] \in Seq(Harmless)
             /\ \A i \in DOMAIN wire[k] : i \in DOMAIN wire'[k] /\ wire'[k][i] = wire[k][i]
  <2>1. wire[k] \in Seq(Event)
    BY DEF IInv, TypeOK
  <2>2. "transfer:received" \in Event /\ "transfer:received" \in Harmless
    BY DEF Event, Harmless
  <2>3. CASE wire'[k] = wire[k]
    BY <2>1, <2>3
  <2>4. CASE wire'[k] = Append(wire[k], "transfer:received")
    <3>1. wire'[k] \in Seq(Event)
      BY <2>1, <2>2, <2>4, OneMore
    <3>2. wire[k] \in Seq(Harmless) => wire'[k] \in Seq(Harmless)
      BY <2>2, <2>4, OneMore
    <3>3. \A i \in DOMAIN wire[k] : i \in DOMAIN wire'[k] /\ wire'[k][i] = wire[k][i]
      BY <2>1, <2>2, <2>4, OneMore
    <3> QED
      BY <3>1, <3>2, <3>3
  <2> QED
    BY <1>1, <2>3, <2>4
<1>3. TypeOK'
  <2>1. wire' \in [Login -> Seq(Event)]
    BY <1>2 DEF NotifyTransferReceived
  <2> QED
    BY <1>0, <2>1 DEF IInv, TypeOK
<1>4. SocketInv' /\ TimerInv'
  BY <1>0, <1>1 DEF IInv, SocketInv, TimerInv
<1>5. LiveInv' /\ ToastInv'
  BY <1>0, <1>2 DEF IInv, LiveInv, Ending, ToastInv, UserOf
<1>6. EndInv'
  BY <1>0, <1>2 DEF IInv, EndInv, Expired
<1> QED
  BY <1>3, <1>4, <1>5, <1>6 DEF IInv

-----------------------------------------------------------------------------
(* The listeners.                                                           *)

\* An event that is delivered takes none of the others away.
LEMMA TailKeeps ==
  ASSUME NEW S, NEW s \in Seq(S), s # <<>>, NEW e, Head(s) # e,
         \E i \in DOMAIN s : s[i] = e
  PROVE  \E i \in DOMAIN Tail(s) : Tail(s)[i] = e
<1> PICK i \in DOMAIN s : s[i] = e
  OBVIOUS
<1>1. i \in 1 .. Len(s) /\ i # 1 /\ Len(s) \in Nat
  OBVIOUS
<1>2. i - 1 \in 1 .. Len(Tail(s)) /\ Tail(s)[i - 1] = s[i]
  BY <1>1
<1> QED
  BY <1>2

LEMMA DeliveredInvariant ==
  ASSUME IInv, NEW k \in Login, wire[k] # <<>>, Head(wire[k]) # "session:expired",
         wire' = [wire EXCEPT ![k] = Tail(@)],
         UNCHANGED <<now, issued, session, socket, conns>>, Requests, Toasts,
         status' = "live" => status = "live" \/ Head(wire[k]) = "session:ready"
  PROVE  IInv'
<1>0. Issued' = Issued /\ Conns' = Conns /\ Asked' = Asked
  BY DEF Issued, Conns, Asked
<1>1. /\ wire[k] \in Seq(Event) /\ Tail(wire[k]) \in Seq(Event)
      /\ wire[k] \in Seq(Harmless) => Tail(wire[k]) \in Seq(Harmless)
      /\ wire[k] \in Seq({"connect_error"}) => Tail(wire[k]) \in Seq({"connect_error"})
  BY DEF IInv, TypeOK
<1>2. TypeOK'
  BY <1>0, <1>1 DEF IInv, TypeOK, Requests
<1>3. SocketInv' /\ TimerInv'
  BY <1>0, <1>1 DEF IInv, TypeOK, SocketInv, TimerInv
<1>4. LiveInv'
  <2>1. ASSUME NEW j \in Login, Ending(j) PROVE Ending(j)'
    <3>1. CASE j = k
      <4>1. \E i \in DOMAIN Tail(wire[k]) : Tail(wire[k])[i] = "session:expired"
        <5>1. wire[k] \in Seq(Event)
          BY <1>1
        <5>2. \E i \in DOMAIN wire[k] : wire[k][i] = "session:expired"
          BY <2>1, <3>1 DEF Ending
        <5> QED
          BY <5>1, <5>2, TailKeeps
      <4> QED
        BY <3>1, <4>1 DEF IInv, TypeOK, Ending
    <3>2. CASE j # k
      BY <2>1, <3>2 DEF IInv, TypeOK, Ending
    <3> QED
      BY <3>1, <3>2
  <2>2. CASE Head(wire[k]) = "session:ready"
    <3>1. wire[k] \notin Seq({"connect_error"})
      BY <2>2
    <3>2. socket[k] = "open" /\ k = session
      BY <3>1 DEF IInv, SocketInv
    <3> QED
      BY <2>1, <3>2 DEF IInv, LiveInv
  <2>3. CASE Head(wire[k]) # "session:ready"
    BY <2>1, <2>3 DEF IInv, LiveInv
  <2> QED
    BY <2>2, <2>3
<1>5. EndInv'
  <2>1. \A j \in Login : wire[j] \in Seq(Harmless) => wire'[j] \in Seq(Harmless)
    BY <1>1 DEF IInv, TypeOK
  <2>2. ASSUME NEW q \in Request, request'[q].answer # "none"
        PROVE  request'[q] = request[q]
    BY <2>2 DEF Requests
  <2>3. \A q \in Request : IsWhole(request'[q])
    BY DEF IInv, EndInv, Requests
  <2> QED
    BY <1>0, <2>1, <2>2, <2>3 DEF IInv, EndInv, Expired
<1>6. ToastInv'
  <2>1. session # 0 => session \in Issued
    BY DEF IInv, TypeOK
  <2> QED
    BY <1>0, <2>1 DEF IInv, ToastInv, Toasts, UserOf
<1> QED
  BY <1>2, <1>3, <1>4, <1>5, <1>6 DEF IInv

LEMMA DeliverInvariant ==
  ASSUME IInv, NEW k \in Login, NEW q \in Request, Deliver(k, q)
  PROVE  IInv'
<1>0. UNCHANGED <<now, issued>> /\ wire[k] # <<>>
  BY DEF Deliver
<1>1. k = session /\ session # 0 /\ session \in Issued
  <2>1. k = session
    BY <1>0 DEF IInv, SocketInv
  <2> QED
    BY <2>1, SessionsAssumption DEF IInv, TypeOK, Login
<1>2. CASE Head(wire[k]) = "session:ready" /\ Ready(k)
  <2>1. Requests /\ Toasts
    BY <1>0, <1>2, SameRequests DEF Ready, Toasts
  <2> QED
    BY <1>0, <1>2, <2>1, DeliveredInvariant DEF Ready
<1>3. CASE Head(wire[k]) = "transfer:received" /\ TransferReceived(k, q)
  <2>1. Requests
    BY <1>0, <1>1, <1>3, SendRequests DEF TransferReceived, SendRequest
  <2>2. Toasts
    BY <1>1, <1>3 DEF TransferReceived, Toasts
  <2> QED
    BY <1>0, <1>3, <2>1, <2>2, DeliveredInvariant DEF TransferReceived, browser
<1>4. CASE Ends(Head(wire[k])) /\ SessionExpired(k)
  <2>1. Requests /\ toasts' \subseteq toasts /\ SignOut
    BY <1>0, <1>1, <1>4, SameRequests DEF SessionExpired, EndSession
  <2> QED
    BY <1>0, <2>1, SignOutInvariant
<1>5. CASE ~Ends(Head(wire[k])) /\ Closed(k)
  <2>1. Requests /\ Toasts
    BY <1>0, <1>5, SameRequests DEF Closed, Toasts
  <2> QED
    BY <1>0, <1>5, <2>1, DeliveredInvariant DEF Closed, Ends
<1> QED
  BY <1>2, <1>3, <1>4, <1>5 DEF Deliver

LEMMA DismissInvariant ==
  ASSUME IInv, NEW t \in toasts, DismissToast(t)
  PROVE  IInv'
<1>1. /\ UNCHANGED <<now, issued, conns, session, socket, status, wire, request>>
      /\ toasts' \subseteq toasts
  BY DEF DismissToast, server, browser
<1> QED
  BY <1>1 DEF IInv, TypeOK, SocketInv, TimerInv, LiveInv, Ending, EndInv, Expired, ToastInv, UserOf,
              Issued, Conns, Asked

LEMMA StepInvariant == IInv /\ [Next]_vars => IInv'
<1> SUFFICES ASSUME IInv, [Next]_vars PROVE IInv'
  OBVIOUS
<1>1. CASE UNCHANGED vars
  BY <1>1 DEF IInv, TypeOK, SocketInv, TimerInv, LiveInv, Ending, EndInv, Expired, ToastInv, UserOf,
              Issued, Conns, Asked, vars, server, browser
<1>2. CASE Logout
  BY <1>2, SameRequests, SignOutInvariant DEF Logout
<1>3. CASE \E k \in Login : SocketStep(k) \/ ConnectFails(k) \/ ConnectionLost(k)
  BY <1>3, HandshakeInvariant, NoticeLossInvariant, DeliverInvariant, ConnectFailsInvariant,
     ConnectionLostInvariant DEF SocketStep
<1>4. CASE \/ \E c \in conns : ExpiryFires(c) \/ ServerDisconnect(c)
           \/ \E u \in User : NotifyTransferReceived(u)
           \/ \E t \in toasts : DismissToast(t)
  BY <1>4, ExpiryFiresInvariant, ServerDisconnectInvariant, NotifyInvariant, DismissInvariant
<1>5. CASE \E q \in Request : \/ SendLogin(q) \/ Reload(q) \/ RefreshWallet(q)
                             \/ Answer(q) \/ Receive(q) \/ RequestLost(q)
  BY <1>5, ReloadInvariant, RequestSteps, AnswerInvariant, ReceiveInvariant
<1> QED
  BY <1>1, <1>2, <1>3, <1>4, <1>5, TickInvariant DEF Next

-----------------------------------------------------------------------------
(* What follows of every behaviour.                                         *)

\* Tokens, sockets, connections and what is on its way keep to their kinds and
\* belong together.
THEOREM Invariant == Spec => []IInv
  BY InitInvariant, StepInvariant, PTL DEF Spec

\* No connection outlives its token.
THEOREM ExpiryTheorem == Spec => []ExpiredTokenHasNoSocket
<1>1. IInv => ExpiredTokenHasNoSocket
  <2> SUFFICES ASSUME IInv, NEW c \in conns PROVE now <= issued[c.login].expiresAt
    BY DEF ExpiredTokenHasNoSocket
  <2>1. c.login \in Issued /\ c.timer \in Int /\ now \in Nat
    BY DEF IInv, TypeOK, Conns
  <2>2. issued[c.login].expiresAt \in Nat
    BY <2>1, ExpiryIsNat
  <2> QED
    BY <2>1, <2>2 DEF IInv, TimerInv
<1> QED
  BY <1>1, Invariant, PTL

\* "Live" in the header is said of a socket that is connected, or about to hear
\* of the end of its session, or cut without the client's having noticed.
THEOREM LiveTheorem == Spec => []LiveIsTrue
<1>1. IInv => LiveIsTrue
  BY DEF IInv, LiveInv, LiveIsTrue, Ending
<1> QED
  BY <1>1, Invariant, PTL

\* Every transfer shown is shown to its recipient, or was when it came up, in a
\* session before the present one.
THEOREM ToastsTheorem == Spec => []ToastsAreOwn
<1>1. IInv => ToastsAreOwn
  BY DEF IInv, ToastInv, ToastsAreOwn
<1> QED
  BY <1>1, Invariant, PTL

\* Where no token lives longer than a timer can wait, sessions mix through answers
\* only: to requests of another session, and to logins sent over one.
THEOREM LateAnswersTheorem == Lifetime <= MaxTimer => (Spec => OnlyLateAnswersMix)
<1> SUFFICES ASSUME Lifetime <= MaxTimer PROVE Spec => OnlyLateAnswersMix
  OBVIOUS
<1> DEFINE Mix == (~Foreign /\ Foreign') \/ (EndedEarly /\ ~Logout)
           Late == \E q \in Request :
                      /\ request[q].login # session \/ (session # 0 /\ request[q].for = "token")
                      /\ Receive(q)
<1>1. IInv /\ [Next]_vars => [Mix => Late]_vars
  <2> SUFFICES ASSUME IInv, Next, Mix PROVE Late
    OBVIOUS
  <2>0. session \in Issued \union {0}
    BY DEF IInv, TypeOK
  <2>1. CASE UNCHANGED <<issued, session, wallet>>
    BY <2>1 DEF Foreign, EndedEarly, UserOf
  <2>2. CASE Logout
    BY <2>2 DEF Logout, SignOut, Foreign
  <2>3. CASE \E q \in Request : Answer(q)
    <3> PICK q \in Request : Answer(q)
      BY <2>3
    <3>1. CASE issued' = issued
      BY <2>1, <3>1 DEF Answer, browser
    <3>2. CASE \E u \in User : GrantLogin(u, q)
      <4>1. Grown /\ TypeOK
        BY <3>2 DEF IInv, GrantLogin, Grown
      <4>2. session \in Issued => issued'[session] = issued[session]
        BY <4>1, Growth
      <4>3. UNCHANGED <<session, wallet>>
        BY DEF Answer, browser
      <4> QED
        BY <2>0, <4>2, <4>3 DEF Foreign, EndedEarly, UserOf
    <3> QED
      BY <3>1, <3>2 DEF Answer, AnswerWallet, RefuseLogin
  <2>4. CASE \E q \in Request : Reload(q)
    BY <2>4 DEF Reload, SignOut, Foreign, EndedEarly
  <2>5. CASE \E q \in Request : Receive(q)
    <3> PICK q \in Request : Receive(q)
      BY <2>5
    <3> SUFFICES ASSUME request[q].login = session, ~(session # 0 /\ request[q].for = "token")
                 PROVE  FALSE
      OBVIOUS
    <3>0. IsWhole(request[q]) /\ request[q] \in Asked
      BY DEF IInv, TypeOK, EndInv
    <3>1. CASE request[q].answer = "200" /\ request[q].for = "wallet" /\ ShowWallet(q)
      <4>1. session' = session /\ wallet' = UserOf(session) /\ UserOf(session)' = UserOf(session)
        BY <3>1 DEF Receive, ShowWallet, UserOf
      <4> QED
        BY <4>1 DEF Foreign, EndedEarly
    <3>2. CASE request[q].answer = "200" /\ request[q].for = "token" /\ SignIn(q)
      <4>1. session = 0 /\ wallet' = wallet
        BY <3>2 DEF SignIn
      <4> QED
        BY <4>1 DEF Foreign, EndedEarly, UserOf
    <3>3. CASE request[q].answer = "401" /\ Unauthorized(q)
      <4>1. CASE session = 0
        <5>1. UNCHANGED <<issued, session, wallet>>
          BY <3>3, <4>1 DEF Receive, Unauthorized, browser
        <5> QED
          BY <5>1 DEF Foreign, EndedEarly, UserOf
      <4>2. CASE session # 0
        <5>1. request[q].for = "wallet"
          BY <3>0, <3>3, <4>2 DEF IsWhole, Asked
        <5>2. Expired(session) /\ SignOut
          BY <3>3, <4>2, <5>1 DEF IInv, EndInv, Unauthorized, EndSession
        <5> QED
          BY <5>2 DEF SignOut, Foreign, EndedEarly
      <4> QED
        BY <4>1, <4>2
    <3> QED
      BY <3>1, <3>2, <3>3 DEF Receive
  <2>6. CASE \E k \in Login, q \in Request : Deliver(k, q)
    <3> PICK k \in Login, q \in Request : Deliver(k, q)
      BY <2>6
    <3>1. CASE Ends(Head(wire[k])) /\ SessionExpired(k)
      <4>1. wire[k] # <<>> /\ wire[k] \in Seq(Event) /\ k = session /\ session # 0
        <5>1. wire[k] # <<>> /\ wire[k] \in Seq(Event)
          BY DEF IInv, TypeOK, Deliver
        <5>2. k = session
          BY <5>1 DEF IInv, SocketInv
        <5> QED
          BY <5>1, <5>2, SessionsAssumption DEF Login
      <4>2. wire[k] \notin Seq(Harmless)
        BY <3>1, <4>1 DEF Ends, Harmless
      <4>3. Expired(session)
        BY <4>1, <4>2 DEF IInv, EndInv
      <4> QED
        BY <3>1, <4>1, <4>3 DEF SessionExpired, EndSession, SignOut, Foreign, EndedEarly
    <3>2. CASE ~(Ends(Head(wire[k])) /\ SessionExpired(k))
      BY <3>2, <2>1 DEF Deliver, Ready, TransferReceived, Closed, browser
    <3> QED
      BY <3>1, <3>2
  <2> QED
    BY <2>1, <2>2, <2>3, <2>4, <2>5, <2>6
       DEF Next, Tick, SocketStep, Handshake, NoticeLoss, ConnectFails, ConnectionLost, ExpiryFires,
           ServerDisconnect, NotifyTransferReceived, SendLogin, DismissToast, RefreshWallet,
           RequestLost, server, browser
<1> QED
  BY <1>1, Invariant, PTL DEF Spec, OnlyLateAnswersMix

-----------------------------------------------------------------------------
(* Navigation, the other half of the tab.  All it knows of the session is who  *)
(* is signed in, by role, and whether the token has expired.                  *)

Path == Page \union {"elsewhere", "none"}
Route == [page : Page \union {"none"}, redirect : Path]

\* An address the router goes to: only the sign-in form has a redirect.
Proper(to) == to \in Route /\ (to.page # "login" => to.redirect = "none")

\* The page p may be shown in session s.
Suits(p, s) ==
    /\ p \in Guarded => s # "none"
    /\ p \in Guest => s = "none"
    /\ p = "admin-transactions" => s = "ADMIN"

\* A navigation past its guard is still one the guard lets through: whatever
\* changes the session starts another one.
NavInv ==
    /\ who \in {"none", "USER", "ADMIN"}
    /\ Proper(route) /\ Proper(pending.to)
    /\ login \in [Form -> Guest \union {"none"}]
    /\ pending \in [to : Route, awaits : {"nothing", "guard", "chunk"}]
    /\ pending.awaits = "nothing" => pending = Idle
    /\ pending.awaits = "chunk" => Suits(pending.to.page, who)
    /\ PageSuitsSession

LEMMA PagesDiffer ==
  /\ "none" \notin Page
  /\ Guest \intersect Guarded = {}
  BY DEF Page, Guest, Guarded

LEMMA ToIsProper ==
  ASSUME NEW p \in Page \union {"none"}
  PROVE  Proper(To(p))
  BY DEF Proper, To, Route, Path

LEMMA ResolveIsProper ==
  ASSUME NEW p \in Path
  PROVE  Proper(Resolve(p)) /\ Resolve(p).page \in Page /\ Resolve(p).redirect = "none"
  BY DEF Proper, Resolve, To, Route, Path, Page, Guest, Guarded

\* What the guard lets through suits the session, and where else it leads is
\* proper, and suits it, too.
LEMMA GuardIsRight ==
  ASSUME who \in {"none", "USER", "ADMIN"}, NEW to \in Route, Proper(to)
  PROVE  /\ Guard(to) = to => Suits(to.page, who)
         /\ Proper(Guard(to))
         /\ Guard(to) # to => Suits(Guard(to).page, who)
  BY DEF Guard, Suits, Proper, To, Route, Path, Page, Guest, Guarded, IsAuthenticated, IsAdmin

\* A navigation that is started keeps the invariant if it is proper, and if it
\* leads nowhere new the page suits the session it is started in.
LEMMA PushInvariant ==
  ASSUME NavInv, NEW to \in Route, Proper(to), Push(to),
         who' \in {"none", "USER", "ADMIN"},
         login' \in [Form -> Guest \union {"none"}],
         to = route => Suits(to.page, who')
  PROVE  NavInv'
<1>1. CASE to = route
  <2>1. pending' = Idle /\ route' = route /\ failed' = FALSE
    BY <1>1 DEF Push
  <2>2. Proper(Idle.to) /\ Idle \in [to : Route, awaits : {"nothing", "guard", "chunk"}]
        /\ Idle.awaits = "nothing"
    BY DEF Idle, To, Proper, Route, Path
  <2>3. PageSuitsSession'
    BY <1>1, <2>1 DEF PageSuitsSession, Suits
  <2> QED
    BY <2>1, <2>2, <2>3 DEF NavInv, Proper
<1>2. CASE to # route
  <2>1. pending' = [to |-> to, awaits |-> "guard"] /\ route' = route
    BY <1>2 DEF Push
  <2>2. pending' # Idle
    BY <2>1 DEF Idle
  <2> QED
    BY <2>1, <2>2 DEF NavInv, Proper, PageSuitsSession
<1> QED
  BY <1>1, <1>2

LEMMA RunGuardInvariant ==
  ASSUME NavInv, RunGuard
  PROVE  NavInv'
<1>1. who' = who /\ login' = login
  BY DEF RunGuard, auth, forms
<1>2. pending.to \in Route /\ Proper(pending.to) /\ who \in {"none", "USER", "ADMIN"}
  BY DEF NavInv
<1>3. CASE Guard(pending.to) = pending.to
  <2>1. /\ pending' = [pending EXCEPT !.awaits = "chunk"]
        /\ UNCHANGED <<route, failed>>
    BY <1>3 DEF RunGuard
  <2>2. /\ pending' \in [to : Route, awaits : {"nothing", "guard", "chunk"}]
        /\ pending'.to = pending.to /\ pending'.awaits = "chunk"
    BY <2>1 DEF NavInv
  <2>3. Suits(pending'.to.page, who')
    BY <1>1, <1>2, <1>3, <2>2, GuardIsRight
  <2>4. pending' # Idle
    BY <2>2 DEF Idle
  <2> QED
    BY <1>1, <2>1, <2>2, <2>3, <2>4 DEF NavInv, PageSuitsSession, Proper
<1>4. CASE Guard(pending.to) # pending.to
  <2>1. Push(Guard(pending.to))
    BY <1>4 DEF RunGuard
  <2>2. Proper(Guard(pending.to)) /\ Suits(Guard(pending.to).page, who)
    BY <1>2, <1>4, GuardIsRight
  <2>3. Guard(pending.to) \in Route
    BY <2>2 DEF Proper
  <2> QED
    BY <1>1, <2>1, <2>2, <2>3, PushInvariant DEF NavInv
<1> QED
  BY <1>3, <1>4

LEMMA ArriveInvariant ==
  ASSUME NavInv, Arrive
  PROVE  NavInv'
<1>1. /\ who' = who /\ login' = login
      /\ route' = pending.to /\ pending' = Idle
  BY DEF Arrive, auth
<1>2. Suits(route'.page, who')
  BY <1>1 DEF NavInv, Arrive
<1>3. Proper(Idle.to) /\ Idle \in [to : Route, awaits : {"nothing", "guard", "chunk"}]
      /\ Idle.awaits = "nothing"
  BY DEF Idle, To, Proper, Route, Path
<1> QED
  BY <1>1, <1>2, <1>3 DEF NavInv, PageSuitsSession, Suits, Proper

\* The links lead to proper pages that suit whoever is signed in, or to another
\* page than the one shown.
LEMMA LinksAreRight ==
  ASSUME NavInv, NEW to \in Links
  PROVE  Proper(to) /\ (to = route => Suits(to.page, who))
<1>1. CASE \E p \in {q \in Guarded : IsAuthenticated /\ (q = "admin-transactions" => IsAdmin)} :
             to = To(p)
  BY <1>1, PagesDiffer DEF To, Proper, Route, Path, Page, Suits, IsAuthenticated, IsAdmin
<1>2. CASE /\ route.page \in {"login", "register", "dashboard"}
           /\ to = To(CASE route.page = "login" -> "register"
                        [] route.page = "register" -> "login"
                        [] route.page = "dashboard" -> "transactions")
  <2>1. CASE route.page = "login"
    BY <1>2, <2>1 DEF To, Proper, Route, Path, Page, Guest, Guarded
  <2>2. CASE route.page = "register"
    BY <1>2, <2>2 DEF To, Proper, Route, Path, Page, Guest, Guarded
  <2>3. CASE route.page = "dashboard"
    BY <1>2, <2>3 DEF To, Proper, Route, Path, Page, Guest, Guarded
  <2> QED
    BY <1>2, <2>1, <2>2, <2>3
<1> QED
  BY <1>1, <1>2 DEF Links

LEMMA AddressesAreProper ==
  ASSUME NEW to \in Address
  PROVE  Proper(to)
  BY DEF Address, Resolve, To, Proper, Route, Path, Page, Guest, Guarded

\* The steps of the user.
LEMMA UserInvariant ==
  ASSUME NavInv, NEW to \in Address, FollowLink(to) \/ GoBack(to) \/ LoadPage(to)
  PROVE  NavInv'
<1>1. CASE FollowLink(to)
  <2>1. who' = who /\ login' = login /\ Push(to) /\ to \in Links
    BY <1>1 DEF FollowLink, auth, forms
  <2>2. Proper(to) /\ (to = route => Suits(to.page, who))
    BY <2>1, LinksAreRight
  <2>3. to \in Route
    BY <2>2 DEF Proper
  <2> QED
    BY <2>1, <2>2, <2>3, PushInvariant DEF NavInv
<1>2. CASE GoBack(to) \/ LoadPage(to)
  <2>1. /\ who' \in {"none", "USER", "ADMIN"}
        /\ login' \in [Form -> Guest \union {"none"}]
        /\ pending' = [to |-> to, awaits |-> "guard"]
        /\ route' = route \/ route' = To("none")
    BY <1>2 DEF NavInv, GoBack, LoadPage, auth, forms
  <2>2. Proper(to) /\ Proper(route')
    BY <2>1, AddressesAreProper, ToIsProper DEF NavInv
  <2>3. pending' # Idle
    BY <2>1 DEF Idle
  <2>4. pending' \in [to : Route, awaits : {"nothing", "guard", "chunk"}]
    BY <2>1, <2>2 DEF Proper
  <2> QED
    BY <2>1, <2>2, <2>3, <2>4 DEF NavInv, PageSuitsSession, Proper
<1> QED
  BY <1>1, <1>2

\* A login is answered: the form goes where the current route says.
LEMMA NavSignInInvariant ==
  ASSUME NavInv, NEW f \in Form, NEW role \in {"USER", "ADMIN"}, SubmitSucceeds(f, role)
  PROVE  NavInv'
<1> DEFINE redirect == IF login[f] = "login" THEN route.redirect ELSE "none"
           to == Resolve(IF redirect = "none" THEN "dashboard" ELSE redirect)
<1>1. who' = role /\ Push(to)
  BY DEF SubmitSucceeds
<1>2. redirect \in Path
  BY DEF NavInv, Proper, Route, Path
<1>3. Proper(to) /\ to.page \in Page /\ to.redirect = "none"
  BY <1>2, ResolveIsProper DEF Path, Page, Guarded
<1>4. to = route => to = To("dashboard")
  BY <1>3 DEF NavInv, Proper, Resolve, To, Page, Guarded, Route
<1>5. login' \in [Form -> Guest \union {"none"}]
  BY DEF SubmitSucceeds, Answered, NavInv
<1>6. to = route => Suits(to.page, who')
  BY <1>1, <1>4 DEF Suits, To, Guest
<1>7. to \in Route
  BY <1>3 DEF Proper
<1> HIDE DEF to
<1> QED
  BY <1>1, <1>3, <1>5, <1>6, <1>7, PushInvariant

\* A session ends, by the user or not: the page is left for the sign-in form.
LEMMA NavEndInvariant ==
  ASSUME NavInv, ClickLogout \/ SessionEnds
  PROVE  NavInv'
<1>1. who' = "none" /\ Push(To("login")) /\ login' = login
  BY DEF ClickLogout, SessionEnds, forms
<1>2. Proper(To("login")) /\ To("login") \in Route /\ Suits(To("login").page, "none")
  BY DEF To, Proper, Route, Path, Page, Guest, Guarded, Suits
<1> QED
  BY <1>1, <1>2, PushInvariant DEF NavInv

LEMMA NavInvariant == NavSpec => []NavInv
<1>1. NavInit => NavInv
  <2> SUFFICES ASSUME NavInit PROVE NavInv
    OBVIOUS
  <2>1. pending = [to |-> To("dashboard"), awaits |-> "guard"] /\ route = To("none")
        /\ who = "none" /\ login = [f \in Form |-> "none"]
    BY DEF NavInit
  <2>2. Proper(To("dashboard")) /\ Proper(To("none"))
    BY ToIsProper DEF Page, Guarded
  <2>3. pending # Idle
    BY <2>1 DEF Idle
  <2> QED
    BY <2>1, <2>2, <2>3 DEF NavInv, PageSuitsSession, Proper
<1>2. NavInv /\ [NavNext]_navVars => NavInv'
  <2> SUFFICES ASSUME NavInv, [NavNext]_navVars PROVE NavInv'
    OBVIOUS
  <2>1. CASE ImportFails
    <3>1. UNCHANGED <<who, route, login>> /\ pending' = Idle /\ failed' = TRUE
      BY <2>1 DEF ImportFails, auth, forms
    <3>2. Proper(Idle.to) /\ Idle \in [to : Route, awaits : {"nothing", "guard", "chunk"}]
          /\ Idle.awaits = "nothing"
      BY DEF Idle, To, Proper, Route, Path
    <3> QED
      BY <3>1, <3>2 DEF NavInv, PageSuitsSession, Proper
  <2>2. ASSUME NEW f \in Form, Submit(f) \/ SubmitFails(f) PROVE NavInv'
    <3>1. UNCHANGED <<who, route, pending, failed>>
      BY <2>2 DEF Submit, SubmitFails, auth, router
    <3>2. login' \in [Form -> Guest \union {"none"}]
      BY <2>2 DEF NavInv, Submit, SubmitFails, Answered
    <3> QED
      BY <3>1, <3>2 DEF NavInv, PageSuitsSession, Proper
  <2>3. CASE Expire
    BY <2>3 DEF Expire, NavInv, PageSuitsSession, Proper, router, forms
  <2>4. CASE UNCHANGED navVars
    BY <2>4 DEF navVars, auth, router, forms, NavInv, PageSuitsSession, Proper
  <2> QED
    BY <2>1, <2>2, <2>3, <2>4, RunGuardInvariant, ArriveInvariant, UserInvariant,
       NavSignInInvariant, NavEndInvariant
       DEF NavNext
<1> QED
  BY <1>1, <1>2, PTL DEF NavSpec

\* Whatever happens while a navigation is under way (router/index.js:30, App.vue,
\* LoginView.vue), the page it ends at suits whoever is signed in by then.
THEOREM PageSuitsTheorem == NavSpec => []PageSuitsSession
<1>1. NavInv => PageSuitsSession
  BY DEF NavInv
<1> QED
  BY <1>1, NavInvariant, PTL

-----------------------------------------------------------------------------
(* What NavigationSettles rests on besides fairness.                        *)

\* A redirect is not redirected again: one round through the guard is enough.
LEMMA RedirectsOnce ==
  ASSUME NEW to
  PROVE  Guard(Guard(to)) = Guard(to)
<1>1. CASE to.page \in Guarded /\ ~IsAuthenticated
  BY <1>1 DEF Guard, Guarded, Guest
<1>2. CASE ~(to.page \in Guarded /\ ~IsAuthenticated) /\ to.page \in Guest /\ IsAuthenticated
  BY <1>2 DEF Guard, To, Guarded, Guest
<1>3. CASE /\ ~(to.page \in Guarded /\ ~IsAuthenticated)
           /\ ~(to.page \in Guest /\ IsAuthenticated)
           /\ to.page = "admin-transactions" /\ ~IsAdmin
  <2>1. Guard(to) = To("dashboard") /\ IsAuthenticated
    BY <1>3 DEF Guard, Guarded
  <2> QED
    BY <2>1 DEF Guard, To, Guest
<1>4. CASE Guard(to) = to
  BY <1>4
<1> QED
  BY <1>1, <1>2, <1>3, <1>4 DEF Guard

\* How many steps of the router a navigation has before it at most.
HopsLeft ==
    IF pending.awaits = "nothing" THEN 0
    ELSE IF pending.awaits = "chunk" THEN 1
    ELSE IF Guard(pending.to) = pending.to THEN 2 ELSE 3

\* The router gets nearer to a page with every step of its own.
HopsShorten == RunGuard \/ Arrive \/ ImportFails => HopsLeft' < HopsLeft

\* No navigation is stuck: one that is under way has its guard or its chunk to
\* come.
NavigationGoesOn == pending = Idle \/ pending.awaits \in {"guard", "chunk"}

\* Three steps of the router bring any navigation to its end, whoever is signed
\* in and whether or not their token has expired: router/index.js:30 does not ask
\* the clock, so it never sends back and forth between a form and a page.
THEOREM HopsTheorem == NavSpec => []NavigationGoesOn /\ [][HopsShorten]_navVars
<1>1. NavInv => NavigationGoesOn
  BY DEF NavInv, NavigationGoesOn
<1>2. NavInv /\ [NavNext]_navVars => [HopsShorten]_navVars
  <2> SUFFICES ASSUME NavInv, RunGuard \/ Arrive \/ ImportFails PROVE HopsLeft' < HopsLeft
    BY DEF HopsShorten
  <2>1. CASE Arrive \/ ImportFails
    <3>1. pending.awaits = "chunk" /\ pending'.awaits = "nothing"
      BY <2>1 DEF Arrive, ImportFails, Idle
    <3> QED
      BY <3>1 DEF HopsLeft
  <2>2. CASE RunGuard
    <3>1. pending.awaits = "guard" /\ \A to : Guard(to)' = Guard(to)
      BY <2>2 DEF RunGuard, auth, Guard, IsAuthenticated, IsAdmin
    <3>2. CASE Guard(pending.to) = pending.to
      <4>1. pending' = [pending EXCEPT !.awaits = "chunk"]
        BY <2>2, <3>2 DEF RunGuard
      <4>2. pending'.awaits = "chunk"
        BY <4>1 DEF NavInv
      <4> QED
        BY <3>1, <3>2, <4>2 DEF HopsLeft
    <3>3. CASE Guard(pending.to) # pending.to
      <4> DEFINE there == Guard(pending.to)
      <4>1. pending' = Idle \/ pending' = [to |-> there, awaits |-> "guard"]
        BY <2>2, <3>3 DEF RunGuard, Push
      <4> QED
        BY <3>1, <3>3, <4>1, RedirectsOnce DEF HopsLeft, Idle
    <3> QED
      BY <3>2, <3>3
  <2> QED
    BY <2>1, <2>2
<1> QED
  BY <1>1, <1>2, NavInvariant, PTL DEF NavSpec
=============================================================================
