------------------------------ MODULE HttpApi -------------------------------
(***************************************************************************)
(* What the HTTP API answers: the chain of every request (JSON body,       *)
(* route, authenticate, authorize, validate, service, error handler), who  *)
(* may read which transaction, and pages over a list that grows while it   *)
(* is read.                                                                *)
(*                                                                         *)
(* A request with one query is one step: nothing it uses changes between   *)
(* its arrival and its query.  A request that only reads changes nothing   *)
(* at all and has no action; Respond is its answer at any moment.          *)
(* Requests with a second await, and clients that go from page to page,    *)
(* keep a place in call.                                                   *)
(*                                                                         *)
(* Balances are TransferFunds' matter, the way of a receipt the worker's:  *)
(* here receipts follow ReceiptLifecycle, which ReceiptPipeline implements.*)
(***************************************************************************)
EXTENDS Naturals, Sequences, FiniteSets

CONSTANTS User, Admin,  \* the usernames, and those whose role is ADMIN
          Seeded,       \* the accounts that runSeed made
          Txn, NoTxn,   \* identities of transfers, and one that nobody has
          Large,        \* the transfers of an amount above the threshold
          Request,      \* bound: requests and readers at a time
          Limit         \* the ?limit= that readers use

ASSUME HttpAssumption ==
    /\ Admin \subseteq User /\ Seeded \subseteq User
    /\ User \intersect (Txn \union {"missing", "invalid", "expired"}) = {}
    /\ NoTxn \notin Txn /\ Large \subseteq Txn
    /\ IsFiniteSet(Seeded)
    /\ Limit \subseteq 1 .. 100

VARIABLES
    accounts,         \* usernames with a users and a wallets row
    parties,          \* sender and recipient of each transfer that is committed
    newer,            \* ORDER BY created_at DESC, id DESC: which of two rows comes
                      \* first; a user stands for the opening of the wallet
    receipt, stored,  \* receipt_status, and the objects in the bucket
    call              \* what each request or reader is at

Receipts == INSTANCE ReceiptLifecycle
receipts == <<receipt, stored>>
book == <<parties, newer>>
vars == <<accounts, book, receipts, call>>

Committed == {t \in Txn : parties[t] # {}}

-----------------------------------------------------------------------------
(* The error handler.                                                       *)

Answer(status, code) == [status |-> status, code |-> code]
InternalError == Answer(500, "INTERNAL_SERVER_ERROR")

\* The SQLSTATEs with an answer of their own.
DatabaseErrors ==
    [WL001 |-> Answer(400, "INVALID_AMOUNT"),
     WL002 |-> Answer(400, "SELF_TRANSFER_NOT_ALLOWED"),
     WL003 |-> Answer(404, "SENDER_WALLET_NOT_FOUND"),
     WL004 |-> Answer(404, "RECIPIENT_NOT_FOUND"),
     WL005 |-> Answer(422, "INSUFFICIENT_FUNDS")]

\* Mutant: no constraint violation is mapped.
MapCustomOnly(state) ==
    IF state \in DOMAIN DatabaseErrors THEN DatabaseErrors[state] ELSE InternalError

MapDatabaseError(state) ==
    CASE state \in DOMAIN DatabaseErrors -> DatabaseErrors[state]
      [] state = "23505" -> Answer(409, "DUPLICATE_RESOURCE")
      [] state = "23514" -> Answer(400, "CONSTRAINT_VIOLATION")
      [] OTHER -> InternalError

-----------------------------------------------------------------------------
(* The chain before the service.  A query has an operation, the token that  *)
(* comes with it (of the account it names, when it is good), what is to be  *)
(* said of its input, and the user, transaction or page it asks for.        *)

AuthRoutes == {"register", "login"}
UserRoutes == {"user"}
WalletRoutes == {"wallet", "ledger"}
TransferRoutes == {"transfer"}
TransactionRoutes == {"list", "get", "receipt"}
AdminRoutes == {"listAll"}

Guarded == UserRoutes \union WalletRoutes \union TransferRoutes
              \union TransactionRoutes \union AdminRoutes
PathRoutes == {"user", "get", "receipt"}
Token == User \union {"missing", "invalid", "expired"}

\* "unreadable" is a body that express.json gives up on for another reason: its
\* charset or encoding, or a size that is not the announced one; "undecodable" a
\* path with a malformed percent-escape; "unstorable" text that the schemas admit
\* and PostgreSQL refuses: U+0000.
Input == {"fine", "unparsable", "oversized", "unreadable", "undecodable", "malformed", "unstorable"}

\* express.json: the body, before anything else.  The error handler looks at two
\* types of its errors, and at no error's own status.
ParseBody(q) ==
    CASE q.input = "unparsable" -> <<Answer(400, "INVALID_JSON")>>
      [] q.input = "oversized" -> <<Answer(413, "PAYLOAD_TOO_LARGE")>>
      [] q.input = "unreadable" -> <<InternalError>>
      [] OTHER -> <<>>

FindRoute(q) ==
    IF q.op \in AuthRoutes \union Guarded THEN <<>> ELSE <<Answer(404, "ROUTE_NOT_FOUND")>>

Verify(token) ==
    CASE token = "expired" -> <<Answer(401, "TOKEN_EXPIRED")>>
      [] token = "invalid" -> <<Answer(401, "INVALID_TOKEN")>>
      [] OTHER -> <<>>

Authenticate(q) ==
    IF q.op \notin Guarded THEN <<>>
    ELSE IF q.token = "missing" THEN <<Answer(401, "UNAUTHORIZED")>>
    ELSE Verify(q.token)

\* Express decodes the parameters in a path when it comes to the route they are
\* of, behind the router's authenticate.
DecodePath(q) ==
    IF q.op \in PathRoutes /\ q.input = "undecodable" THEN <<InternalError>> ELSE <<>>

\* The admin's list is for admins.  The transfer route names both roles.
Authorize(q) ==
    IF q.op \in AdminRoutes /\ q.token \notin Admin THEN <<Answer(403, "FORBIDDEN")>> ELSE <<>>

Validate(q) ==
    IF q.op # "wallet" /\ q.input = "malformed" THEN <<Answer(400, "VALIDATION_ERROR")>> ELSE <<>>

\* What is wrong with a request, in the order of the chain: the first is the answer.
Refusals(q) ==
    ParseBody(q) \o FindRoute(q) \o Authenticate(q) \o DecodePath(q) \o Authorize(q) \o Validate(q)

Stopped(q) == Refusals(q) # <<>>
Refusal(q) == Refusals(q)[1]

-----------------------------------------------------------------------------
(* Reading.  L are the transactions there are at the moment of the query.   *)

OwnOf(L, u) == {t \in L : u \in parties[t]}

LedgerOf(u) == OwnOf(Committed, u) \union (accounts \intersect {u})

\* Mutant: pages counted from zero.
ToOffsetFromZero(page, limit) == page * limit

ToOffset(page, limit) == (page - 1) * limit

\* How many rows of L come before e.
Rank(L, e) == Cardinality({f \in L : <<f, e>> \in newer})

\* LIMIT and OFFSET; the total is taken from the first row of the page, and is
\* zero when the page has none.
Rows(L, page, limit) ==
    LET offset == ToOffset(page, limit)
        items == {e \in L : Rank(L, e) \in offset .. offset + limit - 1}
    IN [items |-> items, total |-> IF items = {} THEN 0 ELSE Cardinality(L)]

ToPaginatedResponse(rows, limit) ==
    [status |-> 200, items |-> rows.items, total |-> rows.total,
     totalPages |-> (rows.total + limit - 1) \div limit]

ListForUser(L, u, page, limit) ==
    ToPaginatedResponse(Rows(OwnOf(L, u), page, limit), limit)
GetLedger(u, page, limit) == ToPaginatedResponse(Rows(LedgerOf(u), page, limit), limit)
ListAll(L, page, limit) == ToPaginatedResponse(Rows(L, page, limit), limit)

GetPublicProfile(u) ==
    IF u \in accounts THEN [status |-> 200, profile |-> u] ELSE Answer(404, "USER_NOT_FOUND")

GetWallet(u) ==
    IF u \in accounts THEN [status |-> 200, wallet |-> u] ELSE Answer(404, "WALLET_NOT_FOUND")

CanView(t, u) == u \in Admin \/ u \in parties[t]

GetById(L, t, u) ==
    IF t \in L /\ CanView(t, u)
    THEN [status |-> 200, transaction |-> t, receiptStatus |-> receipt[t]]
    ELSE Answer(404, "TRANSACTION_NOT_FOUND")

\* Mutant: the receipt is asked about before the requester is.
ReceiptFirst(L, t, u) ==
    IF t \in L /\ receipt[t] \in {"PENDING", "FAILED"}
    THEN Answer(409, "RECEIPT_NOT_READY")
    ELSE IF GetById(L, t, u).status = 404 THEN GetById(L, t, u)
    ELSE IF receipt[t] = "NOT_REQUIRED" THEN Answer(404, "RECEIPT_NOT_REQUIRED")
    ELSE [status |-> 302, link |-> t]

GetReceiptDownloadUrl(L, t, u) ==
    LET found == GetById(L, t, u)
    IN IF found.status = 404 THEN found
       ELSE CASE found.receiptStatus = "NOT_REQUIRED" -> Answer(404, "RECEIPT_NOT_REQUIRED")
              [] found.receiptStatus \in {"PENDING", "FAILED"} -> Answer(409, "RECEIPT_NOT_READY")
              [] OTHER -> [status |-> 302, link |-> t]

Respond(q, L) ==
    IF Stopped(q) THEN Refusal(q) ELSE
    CASE q.op = "list" -> ListForUser(L, q.token, q.page, q.limit)
      [] q.op = "listAll" -> ListAll(L, q.page, q.limit)
      [] q.op = "get" -> GetById(L, q.id, q.token)
      [] q.op = "receipt" -> GetReceiptDownloadUrl(L, q.id, q.token)
      [] q.op = "user" -> GetPublicProfile(q.user)
      [] q.op = "ledger" -> GetLedger(q.token, q.page, q.limit)
      [] q.op = "wallet" -> GetWallet(q.token)

-----------------------------------------------------------------------------
(* Steps.                                                                   *)

\* The rows that a database transaction commits.  created_at is when it began and
\* the ids are random, so they may come anywhere in the order, a transfer even
\* before the opening of a wallet it waited for; the seed's are the oldest.  Every
\* wallet opens with money, and rows of two tables with the same created_at are
\* taken to be in the same order.
Insert(e) ==
    LET rows == accounts \union Committed
    IN \E older \in SUBSET rows :
          /\ Seeded \subseteq older
          /\ \A f \in older, g \in rows : <<f, g>> \in newer => g \in older
          /\ newer' = newer \union ({e} \X older) \union ((rows \ older) \X {e})

Init ==
    /\ accounts = Seeded
    /\ parties = [t \in Txn |-> {}] /\ newer = {}
    /\ Receipts!Init
    /\ call = [r \in Request |-> [at |-> "rest"]]

Free(r) == call[r].at = "rest"
GoTo(r, place) == call' = [call EXCEPT ![r] = place]

\* An answer is taken note of with what a 500 is due to: the input, or a failure.
Finish(r, answer, cause) ==
    GoTo(r, [at |-> "answered", brokenBy |-> IF answer.status = 500 THEN cause ELSE "nothing"])

\* A query fails: pg's error has a SQLSTATE that no map has, or none.
Fail(r) == Finish(r, MapDatabaseError("08006"), "failure")

\* A request stops before its service.
Refused(r) ==
    /\ Free(r)
    /\ \E op \in AuthRoutes \union Guarded \union {"unknown route"},
          token \in accounts \union (Token \ User), input \in Input :
          LET q == [op |-> op, token |-> token, input |-> input]
          IN Stopped(q) /\ Finish(r, Refusal(q), input)
    /\ UNCHANGED <<accounts, book, receipts>>

\* register up to its second query: bcrypt, then the INSERTs.
RegisterFind(r) ==
    /\ Free(r)
    /\ \/ \E name \in User, input \in {"fine", "unstorable"} :
             IF name \in accounts
             THEN Finish(r, Answer(409, "USERNAME_TAKEN"), "fine")
             ELSE GoTo(r, [at |-> "insert", name |-> name, input |-> input])
       \/ Fail(r)
    /\ UNCHANGED <<accounts, book, receipts>>

\* The INSERTs commit together, or the username's UNIQUE index refuses them,
\* or the text does.
RegisterInsert(r) ==
    /\ call[r].at = "insert"
    /\ \/ /\ call[r].input = "unstorable"
          /\ Finish(r, MapDatabaseError("22021"), "unstorable")
          /\ UNCHANGED <<accounts, newer>>
       \/ /\ call[r].input = "fine" /\ call[r].name \in accounts
          /\ Finish(r, MapDatabaseError("23505"), "fine")
          /\ UNCHANGED <<accounts, newer>>
       \/ /\ call[r].input = "fine" /\ call[r].name \notin accounts
          /\ accounts' = accounts \union {call[r].name}
          /\ Insert(call[r].name)
          /\ Finish(r, Answer(201, "CREATED"), "fine")
       \/ Fail(r) /\ UNCHANGED <<accounts, newer>>
    /\ UNCHANGED <<parties, receipts>>

\* login: the account and its password, or the same refusal for either.
Login(r) ==
    /\ Free(r)
    /\ \/ accounts # {} /\ Finish(r, Answer(200, "OK"), "fine")
       \/ Finish(r, Answer(401, "INVALID_CREDENTIALS"), "fine")
       \/ Fail(r)
    /\ UNCHANGED <<accounts, book, receipts>>

\* transfer_funds raises: the recipient is the sender or nobody, or the funds,
\* which are TransferFunds' matter, do not suffice.
TransferRefused(r) ==
    /\ Free(r)
    /\ \E u \in accounts, v \in User :
          \/ /\ u = v
             /\ Finish(r, MapDatabaseError("WL002"), "fine")
          \/ /\ u # v
             /\ Finish(r, MapDatabaseError(IF v \in accounts THEN "WL005" ELSE "WL004"), "fine")
          \/ Finish(r, MapDatabaseError("22021"), "unstorable")
    /\ UNCHANGED <<accounts, book, receipts>>

\* A transfer commits.  The findById after the commit may fail.
Transfer(r) ==
    /\ Free(r)
    /\ \E u, v \in accounts, t \in Txn \ Committed :
          /\ u # v
          /\ Insert(t)
          /\ parties' = [parties EXCEPT ![t] = {u, v}]
          /\ Receipts!Issue(t) /\ (receipt'[t] = "PENDING" <=> t \in Large)
    /\ \/ Finish(r, Answer(201, "CREATED"), "fine")
       \/ Fail(r)
    /\ UNCHANGED accounts

\* A receipt is asked for and is there: the link is next.
AskReceipt(r) ==
    /\ Free(r)
    /\ \E u \in accounts, t \in Txn :
          LET found == Respond([op |-> "receipt", token |-> u, input |-> "fine", id |-> t], Committed)
          IN found.status = 302 /\ GoTo(r, [at |-> "presign", link |-> found.link])
    /\ UNCHANGED <<accounts, book, receipts>>

\* The link is signed and the client redirected to it.
Redirect(r) ==
    /\ call[r].at = "presign"
    /\ \/ GoTo(r, [at |-> "redirected", link |-> call[r].link])
       \/ Fail(r)
    /\ UNCHANGED <<accounts, book, receipts>>

\* The client has its answer.
Take(r) ==
    /\ call[r].at \in {"answered", "redirected", "read"}
    /\ GoTo(r, [at |-> "rest"])
    /\ UNCHANGED <<accounts, book, receipts>>

\* A reader asks for the next page of its list, until the answer says that it
\* was the last.  owed are the transactions that were listed when it asked for
\* the first page and that it has not been shown.
ReadPage(r, op, u, page, limit, owed) ==
    LET query == [op |-> op, token |-> u, input |-> "fine", page |-> page, limit |-> limit]
        got == Respond(query, Committed)
        left == owed \ got.items
    IN GoTo(r, IF page < got.totalPages
               THEN [at |-> "reading", op |-> op, user |-> u,
                     page |-> page + 1, limit |-> limit, owed |-> left]
               ELSE [at |-> "read", owed |-> left])

StartReading(r) ==
    /\ Free(r)
    /\ \E u \in accounts, limit \in Limit :
          \/ ReadPage(r, "list", u, 1, limit, OwnOf(Committed, u))
          \/ ReadPage(r, "ledger", u, 1, limit, LedgerOf(u))
          \/ u \in Admin /\ ReadPage(r, "listAll", u, 1, limit, Committed)
    /\ UNCHANGED <<accounts, book, receipts>>

ReadOn(r) ==
    /\ call[r].at = "reading"
    /\ ReadPage(r, call[r].op, call[r].user, call[r].page, call[r].limit, call[r].owed)
    /\ UNCHANGED <<accounts, book, receipts>>

\* The worker stores, marks or gives up a receipt.
Worker(t) ==
    /\ Receipts!Store(t) \/ Receipts!Generate(t) \/ Receipts!GiveUp(t)
    /\ UNCHANGED <<accounts, book, call>>

Next ==
    \/ \E r \in Request :
          \/ Refused(r) \/ RegisterFind(r) \/ RegisterInsert(r) \/ Login(r)
          \/ TransferRefused(r) \/ Transfer(r)
          \/ AskReceipt(r) \/ Redirect(r) \/ Take(r)
          \/ StartReading(r) \/ ReadOn(r)
    \/ \E t \in Txn : Worker(t)

Spec == Init /\ [][Next]_vars

-----------------------------------------------------------------------------
(* Properties.                                                              *)

\* What anybody but an admin could ask.
Query ==
    LET asker == (accounts \ Admin) \union (Token \ User)
    IN [op : {"get", "receipt"}, token : asker, input : {"fine"}, id : Txn \union {NoTxn}]
          \union [op : {"list", "listAll"}, token : asker, input : {"fine"},
                   page : 1 .. Cardinality(Txn), limit : Limit]
          \union [op : {"user"}, token : asker, input : {"fine"}, user : User]
          \union [op : {"wallet", "unknown route"}, token : asker, input : {"fine"}]

\* Transactions one has no part in are as good as absent: no answer to a read,
\* not even an error, a total or a number of pages, tells anybody but an admin
\* and its parties whether a transaction exists or how far its receipt is.
HiddenLooksAbsent ==
    \A q \in Query : Respond(q, Committed) = Respond(q, OwnOf(Committed, q.token))

\* Who goes through the pages to the last is shown every transaction that was
\* there at the start, however many are committed in between and wherever they
\* come in the order.
NothingSkipped == \A r \in Request : call[r].at = "read" => call[r].owed = {}

\* "Something went wrong" is said after a failure or of input that errorHandler
\* has no case for (a body or a path that cannot be read, text that PostgreSQL
\* cannot store), never of anything else a user did, a lost race for a username
\* among them.
Unforeseen == {"unreadable", "undecodable", "unstorable"}
ServerErrorIsFailure ==
    \A r \in Request :
        call[r].at = "answered" => call[r].brokenBy \in {"nothing", "failure"} \union Unforeseen
=============================================================================
