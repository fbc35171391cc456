---------------------------- MODULE HttpApiProofs ----------------------------
(***************************************************************************)
(* Proofs about HttpApi, for any number of users, transfers and requests,  *)
(* and any page size.                                                      *)
(***************************************************************************)
EXTENDS HttpApi, FiniteSetTheorems, SequenceTheorems, TLAPS

Row == accounts \union Committed

Reading == {"list", "ledger", "listAll"}

Place ==
    [at : {"rest"}]
      \union [at : {"answered"}, brokenBy : Input \union {"failure", "nothing"}]
      \union [at : {"insert"}, name : User, input : {"fine", "unstorable"}]
      \union [at : {"presign", "redirected"}, link : Txn]
      \union [at : {"reading"}, op : Reading, user : User,
              page : Nat, limit : Limit, owed : SUBSET (User \union Txn)]
      \union [at : {"read"}, owed : SUBSET (User \union Txn)]

TypeOK ==
    /\ accounts \in SUBSET User
    /\ parties \in [Txn -> SUBSET User]
    /\ receipt \in [Txn -> {"NONE", "NOT_REQUIRED", "PENDING", "GENERATED", "FAILED"}]
    /\ stored \in [Txn -> BOOLEAN]
    /\ call \in [Request -> Place]

\* The rows are finitely many and their order is one: two rows can only be without
\* an order when both are openings of the seed.
OrderInv ==
    /\ Seeded \subseteq accounts
    /\ IsFiniteSet(Row)
    /\ newer \subseteq Row \X Row
    /\ \A e \in Row : <<e, e>> \notin newer
    /\ \A e, f, g \in Row : <<e, f>> \in newer /\ <<f, g>> \in newer => <<e, g>> \in newer
    /\ \A e, f \in Row :
          \/ e = f \/ <<e, f>> \in newer \/ <<f, e>> \in newer
          \/ e \in Seeded /\ f \in Seeded

\* The list a reader goes through.
Listed(op, u) ==
    IF op = "list" THEN OwnOf(Committed, u)
    ELSE IF op = "ledger" THEN LedgerOf(u)
    ELSE Committed

\* What a reader has not been shown is still in its list, behind the pages it has
\* been shown.
ReadInv(r) ==
    call[r].at = "reading" =>
        /\ call[r].page # 0
        /\ call[r].op = "listAll" => call[r].user \in Admin
        /\ \A op \in Reading, u \in User, e \in call[r].owed :
              call[r].op = op /\ call[r].user = u =>
                  /\ e \in Listed(op, u)
                  /\ Rank(Listed(op, u), e) >= ToOffset(call[r].page, call[r].limit)

\* A reader that is done has been shown everything (NothingSkipped).
DoneInv(r) == call[r].at = "read" => call[r].owed = {}

\* An answer 500 is due to a failure, or to input nobody foresaw
\* (ServerErrorIsFailure).
AnswerInv(r) ==
    call[r].at = "answered" => call[r].brokenBy \in {"nothing", "failure"} \union Unforeseen

\* A link is only given to a receipt that is GENERATED.
LinkInv(r) == call[r].at \in {"presign", "redirected"} => receipt[call[r].link] = "GENERATED"

\* A transfer is committed with the verdict on its receipt, and a receipt is
\* GENERATED only when its object is there.
ReceiptInv ==
    \A t \in Txn :
        /\ parties[t] # {} => receipt[t] # "NONE"
        /\ receipt[t] = "GENERATED" => stored[t]

PlaceInv(r) == ReadInv(r) /\ DoneInv(r) /\ AnswerInv(r) /\ LinkInv(r)

IInv == TypeOK /\ OrderInv /\ ReceiptInv /\ \A r \in Request : PlaceInv(r)

-----------------------------------------------------------------------------
(* The chain.                                                               *)

\* What a stage answers with: nothing, or one answer.
Refusing(q) ==
    {Answer(400, "INVALID_JSON"), Answer(413, "PAYLOAD_TOO_LARGE"), Answer(404, "ROUTE_NOT_FOUND"),
     Answer(401, "UNAUTHORIZED"), Answer(401, "TOKEN_EXPIRED"), Answer(401, "INVALID_TOKEN"),
     Answer(403, "FORBIDDEN"), Answer(400, "VALIDATION_ERROR")}
      \union {a \in {InternalError} : q.input \in Unforeseen}

LEMMA Stages ==
  ASSUME NEW q
  PROVE  /\ ParseBody(q) \in Seq(Refusing(q)) /\ FindRoute(q) \in Seq(Refusing(q))
         /\ Authenticate(q) \in Seq(Refusing(q)) /\ DecodePath(q) \in Seq(Refusing(q))
         /\ Authorize(q) \in Seq(Refusing(q)) /\ Validate(q) \in Seq(Refusing(q))
<1> DEFINE R == Refusing(q)
<1>1. <<>> \in Seq(R)
  OBVIOUS
<1>2. ASSUME NEW a \in R
      PROVE  <<a>> \in Seq(R)
  OBVIOUS
<1>3. /\ <<Answer(400, "INVALID_JSON")>> \in Seq(R)
      /\ <<Answer(413, "PAYLOAD_TOO_LARGE")>> \in Seq(R)
      /\ <<Answer(404, "ROUTE_NOT_FOUND")>> \in Seq(R)
      /\ <<Answer(401, "UNAUTHORIZED")>> \in Seq(R)
      /\ <<Answer(401, "TOKEN_EXPIRED")>> \in Seq(R)
      /\ <<Answer(401, "INVALID_TOKEN")>> \in Seq(R)
      /\ <<Answer(403, "FORBIDDEN")>> \in Seq(R)
      /\ <<Answer(400, "VALIDATION_ERROR")>> \in Seq(R)
  <2>1. /\ Answer(400, "INVALID_JSON") \in R
        /\ Answer(413, "PAYLOAD_TOO_LARGE") \in R
        /\ Answer(404, "ROUTE_NOT_FOUND") \in R
        /\ Answer(401, "UNAUTHORIZED") \in R
        /\ Answer(401, "TOKEN_EXPIRED") \in R
        /\ Answer(401, "INVALID_TOKEN") \in R
        /\ Answer(403, "FORBIDDEN") \in R
        /\ Answer(400, "VALIDATION_ERROR") \in R
    BY DEF Refusing
  <2> QED
    BY <1>2, <2>1
<1>4. ASSUME q.input \in {"unreadable", "undecodable"}
      PROVE  <<InternalError>> \in Seq(R)
  BY <1>2, <1>4 DEF Refusing, Unforeseen
<1> HIDE DEF R
<1>5. ParseBody(q) \in Seq(R)
  BY <1>1, <1>3, <1>4 DEF ParseBody
<1>6. DecodePath(q) \in Seq(R)
  BY <1>1, <1>4 DEF DecodePath
<1>7. /\ FindRoute(q) \in Seq(R) /\ Authenticate(q) \in Seq(R)
      /\ Authorize(q) \in Seq(R) /\ Validate(q) \in Seq(R)
  BY <1>1, <1>3 DEF FindRoute, Authenticate, Verify, Authorize, Validate
<1> QED
  BY <1>5, <1>6, <1>7 DEF R

\* A stage that refuses ends the request.
LEMMA StageStops ==
  ASSUME NEW q,
         \/ FindRoute(q) # <<>> \/ Authorize(q) # <<>>
  PROVE  Stopped(q)
<1>2. Len(Refusals(q)) = Len(ParseBody(q)) + Len(FindRoute(q)) + Len(Authenticate(q))
                            + Len(DecodePath(q)) + Len(Authorize(q)) + Len(Validate(q))
  BY Stages, ConcatProperties DEF Refusals
<1>3. Len(FindRoute(q)) > 0 \/ Len(Authorize(q)) > 0
  BY Stages, EmptySeq
<1>4. Len(Refusals(q)) > 0
  BY Stages, <1>2, <1>3, LenProperties
<1> QED
  BY <1>4, EmptySeq DEF Stopped

\* A query that none of the stages refuses is answered by the service.
LEMMA AllPass ==
  ASSUME NEW q, q.op \in Guarded, q.op \notin AdminRoutes \/ q.token \in Admin,
         q.token \in User, q.input = "fine"
  PROVE  ~Stopped(q)
<1>1. /\ ParseBody(q) = <<>> /\ FindRoute(q) = <<>> /\ DecodePath(q) = <<>>
      /\ Authorize(q) = <<>> /\ Validate(q) = <<>>
  BY DEF ParseBody, FindRoute, DecodePath, Authorize, Validate
<1>2. Authenticate(q) = <<>>
  BY HttpAssumption DEF Authenticate, Verify
<1> QED
  BY <1>1, <1>2 DEF Stopped, Refusals

\* A stage of the chain says that something went wrong of input nobody foresaw only.
LEMMA RefusalsAreTheCallers ==
  ASSUME NEW q, Stopped(q), Refusal(q).status = 500
  PROVE  q.input \in Unforeseen
<1>1. Refusals(q) \in Seq(Refusing(q)) /\ Refusals(q) # <<>>
  BY Stages, ConcatProperties DEF Refusals, Stopped
<1>2. Len(Refusals(q)) \in Nat \ {0}
  BY <1>1, EmptySeq
<1>3. Refusal(q) \in Refusing(q)
  BY <1>1, <1>2, ElementOfSeq DEF Refusal
<1> QED
  BY <1>3 DEF Refusing, Answer

\* An SQLSTATE the code knows is not reported as a failure.
LEMMA KnownStates ==
  ASSUME NEW state \in {"WL001", "WL002", "WL003", "WL004", "WL005", "23505", "23514"}
  PROVE  MapDatabaseError(state).status # 500
<1>1. DOMAIN DatabaseErrors = {"WL001", "WL002", "WL003", "WL004", "WL005"}
  BY DEF DatabaseErrors
<1>2. ASSUME state \in DOMAIN DatabaseErrors
      PROVE  DatabaseErrors[state].status # 500
  BY <1>1, <1>2 DEF DatabaseErrors, Answer
<1> QED
  BY <1>1, <1>2 DEF MapDatabaseError, Answer

-----------------------------------------------------------------------------
(* Pages.                                                                   *)

\* A page is asked for with one row or more.
LEMMA LimitsArePositive == Limit \subseteq Nat \ {0}
<1>1. Limit \subseteq 1 .. 100
  BY HttpAssumption
<1> QED
  BY <1>1

\* An answer that says there is no further page has shown the last row.
LEMMA LastPage ==
  ASSUME NEW total \in Nat, NEW limit \in Nat \ {0}, NEW page \in Nat \ {0},
         page * limit < total
  PROVE  page < (total + limit - 1) \div limit
<1> DEFINE n == total + limit - 1
           k == n \div limit
<1>1. n \in Nat /\ k \in Nat
  OBVIOUS
<1>2. n % limit \in 0 .. limit - 1
  OBVIOUS
<1>3. n = limit * k + (n % limit)
  OBVIOUS
<1>4. limit * page + limit <= n
  OBVIOUS
<1> HIDE DEF n, k
<1>5. ~(k <= page)
  <2> SUFFICES ASSUME k <= page PROVE FALSE
    OBVIOUS
  <2>1. limit * k <= limit * page
    BY <1>1
  <2> QED
    BY <1>1, <1>2, <1>3, <1>4, <2>1
<1> QED
  BY <1>1, <1>5 DEF k, n

\* Where the order is one, every place in a list is taken by one row.
LEMMA RanksAreTaken ==
  ASSUME OrderInv, NEW L \in SUBSET Row,
         \A e, f \in L : e = f \/ <<e, f>> \in newer \/ <<f, e>> \in newer
  PROVE  /\ IsFiniteSet(L) /\ Cardinality(L) \in Nat
         /\ \A e \in L : Rank(L, e) \in 0 .. Cardinality(L) - 1
         /\ \A k \in 0 .. Cardinality(L) - 1 : \E e \in L : Rank(L, e) = k
<1> DEFINE Before(e) == {f \in L : <<f, e>> \in newer}
           rank == [e \in L |-> Rank(L, e)]
           n == Cardinality(L)
<1>1. IsFiniteSet(L) /\ n \in Nat
  BY FS_Subset, FS_CardinalityType DEF OrderInv
<1>2. ASSUME NEW e \in L
      PROVE  IsFiniteSet(Before(e)) /\ Rank(L, e) \in 0 .. n - 1
  <2>1. Before(e) \in SUBSET (L \ {e})
    BY DEF OrderInv
  <2>2. IsFiniteSet(L \ {e}) /\ Cardinality(L \ {e}) = n - 1
    BY <1>1, FS_RemoveElement
  <2>3. IsFiniteSet(Before(e)) /\ Cardinality(Before(e)) <= n - 1
    <3> HIDE DEF Before, n
    <3> QED
      BY <2>1, <2>2, FS_Subset
  <2>4. Cardinality(Before(e)) \in Nat
    BY <2>3, FS_CardinalityType
  <2> QED
    BY <1>1, <2>3, <2>4 DEF Rank
<1>3. ASSUME NEW e \in L, NEW f \in L, <<e, f>> \in newer
      PROVE  Rank(L, e) # Rank(L, f)
  <2>1. Before(e) \in SUBSET Before(f)
    BY <1>3 DEF OrderInv
  <2>2. e \in Before(f) /\ e \notin Before(e)
    BY <1>3 DEF OrderInv
  <2>3. Cardinality(Before(f)) # Cardinality(Before(e))
    BY <1>2, <2>1, <2>2, FS_Subset
  <2> QED
    BY <2>3 DEF Rank
<1>4. rank \in Injection(L, 0 .. n - 1)
  <2>1. rank \in [L -> 0 .. n - 1]
    BY <1>2
  <2>2. ASSUME NEW e \in L, NEW f \in L, rank[e] = rank[f]
        PROVE  e = f
    BY <1>3, <2>2
  <2> QED
    BY <2>1, <2>2 DEF Injection, IsInjective
<1>5. IsFiniteSet(0 .. n - 1) /\ Cardinality(0 .. n - 1) = n
  <2>1. n - 1 \in Int /\ (0 > n - 1 => n = 0)
    BY <1>1
  <2> QED
    BY <1>1, <2>1, FS_Interval
<1>6. rank \in Surjection(L, 0 .. n - 1)
  <2> HIDE DEF rank
  <2> QED
    BY <1>4, <1>5, FS_Injection
<1> QED
  BY <1>1, <1>2, <1>6 DEF Surjection

\* A row that comes behind the pages already shown, and is not on this one, comes
\* behind this one, too, and there is a next page.
LEMMA NothingIsLost ==
  ASSUME OrderInv, NEW L \in SUBSET Row,
         \A f, g \in L : f = g \/ <<f, g>> \in newer \/ <<g, f>> \in newer,
         NEW page \in Nat \ {0}, NEW limit \in Nat \ {0}, NEW e \in L,
         Rank(L, e) >= ToOffset(page, limit), e \notin Rows(L, page, limit).items
  PROVE  /\ page < ToPaginatedResponse(Rows(L, page, limit), limit).totalPages
         /\ Rank(L, e) >= ToOffset(page + 1, limit)
<1> DEFINE offset == ToOffset(page, limit)
           items == {f \in L : Rank(L, f) \in offset .. offset + limit - 1}
           n == Cardinality(L)
<1>1. /\ n \in Nat /\ \A f \in L : Rank(L, f) \in 0 .. n - 1
      /\ \A k \in 0 .. n - 1 : \E f \in L : Rank(L, f) = k
  <2> HIDE DEF n
  <2> QED
    BY RanksAreTaken DEF n
<1>2. offset \in Nat /\ offset = page * limit - limit
  BY DEF ToOffset
<1>3. Rows(L, page, limit) = [items |-> items, total |-> IF items = {} THEN 0 ELSE n]
  BY DEF Rows
<1> HIDE DEF n, offset
<1>4. Rank(L, e) \in 0 .. n - 1 /\ Rank(L, e) >= offset
  BY <1>1 DEF offset
<1>5. Rank(L, e) >= offset + limit
  <2>1. e \notin items
    BY <1>3
  <2> QED
    BY <1>2, <1>4, <2>1
<1>6. items # {}
  <2>1. offset \in 0 .. n - 1
    BY <1>1, <1>2, <1>4
  <2>2. PICK f \in L : Rank(L, f) = offset
    BY <1>1, <2>1
  <2> QED
    BY <1>2, <2>2
<1> HIDE DEF items
<1>7. page * limit < n /\ page * limit \in Nat
  BY <1>1, <1>2, <1>4, <1>5
<1>8. ToPaginatedResponse(Rows(L, page, limit), limit).totalPages = (n + limit - 1) \div limit
  BY <1>3, <1>6 DEF ToPaginatedResponse
<1>9. ToOffset(page + 1, limit) = page * limit
  BY DEF ToOffset
<1>10. page < ToPaginatedResponse(Rows(L, page, limit), limit).totalPages
  <2>1. page < (n + limit - 1) \div limit
    BY <1>1, <1>7, LastPage
  <2> QED
    BY <1>8, <2>1
<1>11. Rank(L, e) >= ToOffset(page + 1, limit)
  <2>1. Rank(L, e) >= page * limit
    BY <1>2, <1>4, <1>5, <1>7
  <2> QED
    BY <1>9, <2>1
<1> QED
  BY <1>10, <1>11

\* A list holds at most one opening, so its order is one.
LEMMA ListsAreOrdered ==
  ASSUME TypeOK, OrderInv, NEW op, NEW u \in User
  PROVE  /\ Listed(op, u) \in SUBSET Row
         /\ \A e, f \in Listed(op, u) : e = f \/ <<e, f>> \in newer \/ <<f, e>> \in newer
<1>1. Listed(op, u) \subseteq Committed \union (accounts \intersect {u})
  BY DEF Listed, OwnOf, LedgerOf
<1>2. Committed \subseteq Txn /\ Txn \intersect Seeded = {}
  BY HttpAssumption DEF Committed
<1> QED
  BY <1>1, <1>2 DEF Row, OrderInv

\* Nothing in the chain keeps a reader from its page.
LEMMA ReadersAreAnswered ==
  ASSUME NEW op \in Reading, NEW u \in User, op = "listAll" => u \in Admin,
         NEW page, NEW limit
  PROVE  Respond([op |-> op, token |-> u, input |-> "fine", page |-> page, limit |-> limit], Committed)
            = ToPaginatedResponse(Rows(Listed(op, u), page, limit), limit)
<1> DEFINE q == [op |-> op, token |-> u, input |-> "fine", page |-> page, limit |-> limit]
<1>1. ~Stopped(q)
  <2>1. q.op = op /\ q.token = u /\ q.input = "fine"
    OBVIOUS
  <2>2. op \in Guarded /\ (op \in AdminRoutes => op = "listAll")
    BY DEF Reading, Guarded, UserRoutes, WalletRoutes, TransferRoutes, TransactionRoutes, AdminRoutes
  <2> HIDE DEF q
  <2> QED
    BY <2>1, <2>2, AllPass
<1>2. CASE op = "list"
  BY <1>1, <1>2 DEF Respond, ListForUser, Listed
<1>3. CASE op = "ledger"
  BY <1>1, <1>3 DEF Respond, GetLedger, Listed
<1>4. CASE op = "listAll"
  BY <1>1, <1>4 DEF Respond, ListAll, Listed
<1> QED
  BY <1>2, <1>3, <1>4 DEF Reading

-----------------------------------------------------------------------------
(* Writing.                                                                 *)

\* What an insertion leaves as it is: rows and receipts only get further.
Grows ==
    /\ accounts \subseteq accounts' /\ newer \subseteq newer'
    /\ \A t \in Committed : t \in Committed' /\ parties'[t] = parties[t]
    /\ \A t \in Txn : receipt[t] = "GENERATED" => receipt'[t] = "GENERATED"

\* Rows that come in never move another one to an earlier place.
LEMMA RanksGrow ==
  ASSUME TypeOK, TypeOK', OrderInv, OrderInv', Grows, NEW op, NEW u \in User
  PROVE  \A e \in Listed(op, u) :
            /\ e \in Listed(op, u)'
            /\ Rank(Listed(op, u), e) \in Nat /\ Rank(Listed(op, u), e)' \in Nat
            /\ Rank(Listed(op, u), e) <= Rank(Listed(op, u), e)'
<1> SUFFICES ASSUME NEW e \in Listed(op, u)
             PROVE  /\ e \in Listed(op, u)'
                    /\ Rank(Listed(op, u), e) \in Nat /\ Rank(Listed(op, u), e)' \in Nat
                    /\ Rank(Listed(op, u), e) <= Rank(Listed(op, u), e)'
  OBVIOUS
<1> DEFINE L == Listed(op, u)
           Before == {f \in L : <<f, e>> \in newer}
<1>1. L \subseteq L'
  <2>1. OwnOf(Committed, u) \subseteq OwnOf(Committed, u)'
    BY DEF Grows, OwnOf
  <2>2. LedgerOf(u) \subseteq LedgerOf(u)'
    BY <2>1 DEF LedgerOf, Grows
  <2>3. Committed \subseteq Committed'
    BY DEF Grows
  <2> QED
    BY <2>1, <2>2, <2>3 DEF Listed
<1>2. IsFiniteSet(L) /\ IsFiniteSet(L')
  <2>1. L \subseteq Row /\ IsFiniteSet(Row)
    BY ListsAreOrdered DEF OrderInv
  <2>2. L' \subseteq Row' /\ IsFiniteSet(Row')
    BY DEF Listed, OwnOf, LedgerOf, Row, OrderInv
  <2> QED
    BY <2>1, <2>2, FS_Subset
<1> HIDE DEF L
<1>3. Before \in SUBSET Before' /\ Before \in SUBSET L /\ Before' \in SUBSET L'
  BY <1>1 DEF Grows
<1>4. /\ Cardinality(Before) \in Nat /\ Cardinality(Before') \in Nat
      /\ Cardinality(Before) <= Cardinality(Before')
  BY <1>2, <1>3, FS_Subset, FS_CardinalityType
<1>5. Rank(L, e) = Cardinality(Before) /\ Rank(L, e)' = Cardinality(Before')
  BY DEF Rank
<1> QED
  BY <1>1, <1>4, <1>5 DEF L

\* What is known of the places of the others stays true when the book grows.
LEMMA PlacesKeep ==
  ASSUME IInv, TypeOK', OrderInv', Grows, NEW r \in Request, call'[r] = call[r]
  PROVE  PlaceInv(r)'
<1>1. call[r] \in Place
  BY DEF IInv, TypeOK
<1>2. CASE call[r].at = "reading"
  <2>1. /\ call[r].page \in Nat /\ call[r].limit \in Limit
    BY <1>1, <1>2 DEF Place
  <2>2. ToOffset(call[r].page, call[r].limit) \in Int
    <3>1. call[r].limit \in Nat
      BY <2>1, LimitsArePositive
    <3>2. call[r].page - 1 \in Int
      BY <2>1
    <3> QED
      BY <3>1, <3>2 DEF ToOffset
  <2>3. ReadInv(r)
    BY DEF IInv, PlaceInv
  <2>4. ASSUME NEW op \in Reading, NEW u \in User, NEW e \in call[r].owed,
               call[r].op = op, call[r].user = u
        PROVE  /\ e \in Listed(op, u)'
               /\ Rank(Listed(op, u), e)' >= ToOffset(call[r].page, call[r].limit)
    <3>1. e \in Listed(op, u) /\ Rank(Listed(op, u), e) >= ToOffset(call[r].page, call[r].limit)
      BY <1>2, <2>3, <2>4 DEF ReadInv
    <3> QED
      BY <2>2, <3>1, RanksGrow DEF IInv
  <2>5. ReadInv(r)'
    BY <1>2, <2>3, <2>4 DEF ReadInv, ToOffset
  <2> QED
    BY <1>2, <2>5 DEF PlaceInv, DoneInv, AnswerInv, LinkInv
<1>3. CASE call[r].at \in {"presign", "redirected"}
  <2>1. call[r].link \in Txn
    BY <1>1, <1>3 DEF Place
  <2> QED
    BY <1>3, <2>1 DEF IInv, PlaceInv, ReadInv, DoneInv, AnswerInv, LinkInv, Grows
<1>4. CASE call[r].at \notin {"reading", "presign", "redirected"}
  BY <1>4 DEF IInv, PlaceInv, ReadInv, DoneInv, AnswerInv, LinkInv
<1> QED
  BY <1>2, <1>3, <1>4

\* One row that comes in leaves the order of the others as it is and has one of
\* its own to each of them.
LEMMA InsertKeepsOrder ==
  ASSUME OrderInv, NEW e, e \notin Row, Insert(e), Row' = Row \union {e}, accounts \subseteq accounts'
  PROVE  OrderInv' /\ newer \subseteq newer'
<1>1. PICK older \in SUBSET Row :
         /\ Seeded \subseteq older
         /\ \A f \in older, g \in Row : <<f, g>> \in newer => g \in older
         /\ newer' = newer \union ({e} \X older) \union ((Row \ older) \X {e})
  BY DEF Insert, Row
<1>2. Seeded \subseteq Row /\ IsFiniteSet(Row') /\ Seeded \subseteq accounts'
  BY FS_AddElement DEF OrderInv, Row
<1>3. \A f, g : <<f, g>> \in newer' <=> \/ <<f, g>> \in newer /\ f \in Row /\ g \in Row
                                        \/ f = e /\ g \in older
                                        \/ f \in Row /\ f \notin older /\ g = e
  <2> SUFFICES ASSUME NEW f, NEW g
               PROVE  <<f, g>> \in newer' <=> \/ <<f, g>> \in newer /\ f \in Row /\ g \in Row
                                              \/ f = e /\ g \in older
                                              \/ f \in Row /\ f \notin older /\ g = e
    OBVIOUS
  <2>1. <<f, g>> \in newer => f \in Row /\ g \in Row
    BY DEF OrderInv
  <2>2. <<f, g>> \in {e} \X older <=> f = e /\ g \in older
    OBVIOUS
  <2>3. <<f, g>> \in (Row \ older) \X {e} <=> f \in Row /\ f \notin older /\ g = e
    OBVIOUS
  <2>4. <<f, g>> \in newer' <=> \/ <<f, g>> \in newer
                                \/ <<f, g>> \in {e} \X older
                                \/ <<f, g>> \in (Row \ older) \X {e}
    BY <1>1
  <2> QED
    BY <2>1, <2>2, <2>3, <2>4
<1>4. newer' \subseteq Row' \X Row' /\ newer \subseteq newer'
  BY <1>1 DEF OrderInv
<1>5. \A f \in Row' : <<f, f>> \notin newer'
  BY <1>1, <1>3 DEF OrderInv
<1>6. ASSUME NEW f \in Row', NEW g \in Row', NEW h \in Row', <<f, g>> \in newer', <<g, h>> \in newer'
      PROVE  <<f, h>> \in newer'
  <2>1. CASE g = e
    <3>1. f \in Row /\ f \notin older /\ h \in older
      BY <1>1, <1>3, <1>6, <2>1
    <3>2. <<f, h>> \in newer
      BY <1>1, <3>1 DEF OrderInv
    <3> QED
      BY <1>1, <3>2
  <2>2. CASE f = e
    BY <1>1, <1>3, <1>6, <2>2
  <2>3. CASE h = e
    BY <1>1, <1>3, <1>6, <2>3
  <2>4. CASE f \in Row /\ g \in Row /\ h \in Row
    BY <1>1, <1>3, <1>6, <2>4 DEF OrderInv
  <2> QED
    BY <2>1, <2>2, <2>3, <2>4
<1>7. \A f, g \in Row' : \/ f = g \/ <<f, g>> \in newer' \/ <<g, f>> \in newer'
                         \/ f \in Seeded /\ g \in Seeded
  BY <1>1, <1>3 DEF OrderInv
<1> QED
  BY <1>2, <1>4, <1>5, <1>6, <1>7 DEF OrderInv

-----------------------------------------------------------------------------
(* The places.                                                              *)

\* A step in which nothing but the place of one request changes.
LEMMA QuietStep ==
  ASSUME IInv, NEW r \in Request, UNCHANGED <<accounts, book, receipts>>,
         call' = [call EXCEPT ![r] = call'[r]], call'[r] \in Place, PlaceInv(r)'
  PROVE  IInv'
<1>1. UNCHANGED <<accounts, parties, newer, receipt, stored>>
  BY DEF book, receipts
<1>2. TypeOK'
  BY <1>1 DEF IInv, TypeOK
<1>3. Committed' = Committed /\ Row' = Row
  BY <1>1 DEF Committed, Row
<1>4. OrderInv' /\ ReceiptInv' /\ Grows
  BY <1>1, <1>3 DEF IInv, OrderInv, ReceiptInv, Grows
<1>5. \A x \in Request \ {r} : call'[x] = call[x]
  BY DEF IInv, TypeOK
<1> QED
  BY <1>2, <1>4, <1>5, PlacesKeep DEF IInv

\* A request is answered.
LEMMA Answered ==
  ASSUME TypeOK, NEW r \in Request, NEW answer,
         NEW cause \in Input \union {"failure"}, Finish(r, answer, cause),
         answer.status = 500 => cause \in {"failure"} \union Unforeseen
  PROVE  /\ call' = [call EXCEPT ![r] = call'[r]]
         /\ call'[r] \in Place /\ PlaceInv(r)'
<1> DEFINE why == IF answer.status = 500 THEN cause ELSE "nothing"
<1>1. call' = [call EXCEPT ![r] = [at |-> "answered", brokenBy |-> why]]
  BY DEF Finish, GoTo
<1>2. /\ why \in Input \union {"failure", "nothing"}
      /\ why \in {"nothing", "failure"} \union Unforeseen
  OBVIOUS
<1> HIDE DEF why
<1>3. call'[r] = [at |-> "answered", brokenBy |-> why]
  BY <1>1 DEF TypeOK
<1>4. call'[r] \in Place
  BY <1>2, <1>3 DEF Place
<1>5. call'[r].at = "answered" /\ call'[r].brokenBy = why
  BY <1>3
<1>6. PlaceInv(r)'
  BY <1>2, <1>5 DEF PlaceInv, ReadInv, DoneInv, AnswerInv, LinkInv
<1> QED
  BY <1>1, <1>3, <1>4, <1>6

LEMMA Failed ==
  ASSUME TypeOK, NEW r \in Request, Fail(r)
  PROVE  /\ call' = [call EXCEPT ![r] = call'[r]]
         /\ call'[r] \in Place /\ PlaceInv(r)'
  BY Answered DEF Fail

\* Whoever asks for a page and has been shown all that comes before it is owed
\* what comes after it, or nothing.
LEMMA PageIsRead ==
  ASSUME IInv, NEW r \in Request, NEW op \in Reading, NEW u \in User, op = "listAll" => u \in Admin,
         NEW page \in Nat \ {0}, NEW limit \in Limit, NEW owed,
         \A e \in owed : e \in Listed(op, u) /\ Rank(Listed(op, u), e) >= ToOffset(page, limit),
         ReadPage(r, op, u, page, limit, owed), UNCHANGED <<accounts, book, receipts>>
  PROVE  IInv'
<1> DEFINE L == Listed(op, u)
           got == ToPaginatedResponse(Rows(L, page, limit), limit)
           left == owed \ got.items
           next == [at |-> "reading", op |-> op, user |-> u,
                    page |-> page + 1, limit |-> limit, owed |-> left]
           last == [at |-> "read", owed |-> left]
<1>1. call' = [call EXCEPT ![r] = IF page < got.totalPages THEN next ELSE last]
  <2> HIDE DEF L
  <2> QED
    BY ReadersAreAnswered DEF ReadPage, GoTo, L
<1>2. call'[r] = IF page < got.totalPages THEN next ELSE last
  BY <1>1 DEF IInv, TypeOK
<1>3. L \in SUBSET Row /\ \A e, f \in L : e = f \/ <<e, f>> \in newer \/ <<f, e>> \in newer
  BY ListsAreOrdered DEF IInv
<1>4. got.items = Rows(L, page, limit).items
  BY DEF ToPaginatedResponse
<1>5. \A e \in left : /\ e \in L /\ Rank(L, e) >= ToOffset(page + 1, limit)
                      /\ page < got.totalPages
  <2> SUFFICES ASSUME NEW e \in left
               PROVE  /\ e \in L /\ Rank(L, e) >= ToOffset(page + 1, limit)
                      /\ page < got.totalPages
    OBVIOUS
  <2>1. e \in L /\ Rank(L, e) >= ToOffset(page, limit) /\ e \notin Rows(L, page, limit).items
    BY <1>4
  <2> HIDE DEF L
  <2> QED
    BY <1>3, <2>1, NothingIsLost, LimitsArePositive DEF IInv
<1>6. left \in SUBSET (User \union Txn)
  <2>1. Row \subseteq User \union Txn
    BY DEF IInv, TypeOK, Row, Committed
  <2> QED
    BY <1>3, <1>5, <2>1
<1>7. UNCHANGED <<accounts, parties, newer>>
  BY DEF book
<1> HIDE DEF got, left
<1>8. CASE page < got.totalPages
  <2>1. call'[r] = next
    BY <1>2, <1>8
  <2>2. next \in Place
    BY <1>6 DEF Place
  <2>3. /\ call'[r].at = "reading" /\ call'[r].op = op /\ call'[r].user = u
        /\ call'[r].page = page + 1 /\ call'[r].limit = limit /\ call'[r].owed = left
    BY <2>1
  <2>4. \A e \in left : e \in Listed(op, u)' /\ Rank(Listed(op, u), e)' >= ToOffset(page + 1, limit)
    BY <1>5, <1>7 DEF Listed, OwnOf, LedgerOf, Committed, Rank
  <2>5. PlaceInv(r)'
    BY <2>3, <2>4 DEF PlaceInv, ReadInv, DoneInv, AnswerInv, LinkInv, ToOffset
  <2> QED
    BY <1>1, <1>2, <2>1, <2>2, <2>5, QuietStep
<1>9. CASE ~(page < got.totalPages)
  <2>1. call'[r] = last /\ left = {}
    BY <1>2, <1>5, <1>9
  <2>2. last \in Place /\ call'[r].at = "read" /\ call'[r].owed = {}
    BY <2>1 DEF Place
  <2>3. PlaceInv(r)'
    BY <2>2 DEF PlaceInv, ReadInv, DoneInv, AnswerInv, LinkInv
  <2> QED
    BY <1>1, <1>2, <2>1, <2>2, <2>3, QuietStep
<1> QED
  BY <1>8, <1>9

LEMMA StartReadingInvariant ==
  ASSUME IInv, NEW r \in Request, StartReading(r)
  PROVE  IInv'
<1>1. PICK u \in accounts, limit \in Limit :
         \/ ReadPage(r, "list", u, 1, limit, OwnOf(Committed, u))
         \/ ReadPage(r, "ledger", u, 1, limit, LedgerOf(u))
         \/ u \in Admin /\ ReadPage(r, "listAll", u, 1, limit, Committed)
  BY DEF StartReading
<1>2. u \in User /\ UNCHANGED <<accounts, book, receipts>>
  BY DEF IInv, TypeOK, StartReading
<1>3. ASSUME NEW op \in Reading, op = "listAll" => u \in Admin,
             ReadPage(r, op, u, 1, limit, Listed(op, u))
      PROVE  IInv'
  <2>1. \A e \in Listed(op, u) : Rank(Listed(op, u), e) \in Nat
    BY <1>2, ListsAreOrdered, RanksAreTaken DEF IInv
  <2>2. ToOffset(1, limit) = 0
    BY LimitsArePositive DEF ToOffset
  <2> QED
    BY <1>2, <1>3, <2>1, <2>2, PageIsRead
<1> QED
  BY <1>1, <1>3 DEF Listed, Reading

LEMMA ReadOnInvariant ==
  ASSUME IInv, NEW r \in Request, ReadOn(r)
  PROVE  IInv'
<1>1. call[r] \in Place /\ call[r].at = "reading"
  BY DEF IInv, TypeOK, ReadOn
<1>2. /\ call[r].op \in Reading /\ call[r].user \in User
      /\ call[r].page \in Nat /\ call[r].limit \in Limit
      /\ call[r].owed \in SUBSET (User \union Txn)
  BY <1>1 DEF Place
<1>3. ReadInv(r)
  BY DEF IInv, PlaceInv
<1>4. PICK op \in Reading, u \in User, page \in Nat, limit \in Limit,
               owed \in SUBSET (User \union Txn) :
         /\ op = call[r].op /\ u = call[r].user /\ page = call[r].page
         /\ limit = call[r].limit /\ owed = call[r].owed
  BY <1>2
<1>5. /\ page # 0 /\ (op = "listAll" => u \in Admin)
      /\ \A e \in owed : e \in Listed(op, u) /\ Rank(Listed(op, u), e) >= ToOffset(page, limit)
  BY <1>1, <1>3, <1>4 DEF ReadInv
<1>6. ReadPage(r, op, u, page, limit, owed) /\ UNCHANGED <<accounts, book, receipts>>
  BY <1>4 DEF ReadOn
<1> QED
  BY <1>5, <1>6, PageIsRead

-----------------------------------------------------------------------------
(* The requests and the worker.                                             *)

LEMMA RefusedInvariant ==
  ASSUME IInv, NEW r \in Request, Refused(r)
  PROVE  IInv'
<1>1. PICK op \in AuthRoutes \union Guarded \union {"unknown route"},
           token \in accounts \union (Token \ User), input \in Input :
         LET q == [op |-> op, token |-> token, input |-> input]
         IN Stopped(q) /\ Finish(r, Refusal(q), input)
  BY DEF Refused
<1> DEFINE q == [op |-> op, token |-> token, input |-> input]
<1>2. Stopped(q) /\ Finish(r, Refusal(q), input) /\ q.input = input
  BY <1>1
<1> HIDE DEF q
<1>3. Refusal(q).status = 500 => input \in {"failure"} \union Unforeseen
  BY <1>2, RefusalsAreTheCallers
<1> QED
  BY <1>2, <1>3, Answered, QuietStep DEF Refused, IInv

LEMMA RegisterFindInvariant ==
  ASSUME IInv, NEW r \in Request, RegisterFind(r)
  PROVE  IInv'
<1>1. UNCHANGED <<accounts, book, receipts>>
  BY DEF RegisterFind
<1>2. CASE Finish(r, Answer(409, "USERNAME_TAKEN"), "fine")
  <2>1. Answer(409, "USERNAME_TAKEN").status # 500
    BY DEF Answer
  <2> QED
    BY <1>1, <1>2, <2>1, Answered, QuietStep DEF IInv, Input, Unforeseen
<1>3. ASSUME NEW name \in User, NEW input \in {"fine", "unstorable"},
             GoTo(r, [at |-> "insert", name |-> name, input |-> input])
      PROVE  IInv'
  <2>1. call' = [call EXCEPT ![r] = call'[r]]
        /\ call'[r] = [at |-> "insert", name |-> name, input |-> input]
    BY <1>3 DEF GoTo, IInv, TypeOK
  <2>2. call'[r] \in Place
    BY <2>1 DEF Place
  <2>3. PlaceInv(r)'
    BY <2>1 DEF PlaceInv, ReadInv, DoneInv, AnswerInv, LinkInv
  <2> QED
    BY <1>1, <2>1, <2>2, <2>3, QuietStep
<1>4. CASE Fail(r)
  BY <1>1, <1>4, Failed, QuietStep DEF IInv
<1> QED
  BY <1>2, <1>3, <1>4 DEF RegisterFind

\* A row of a new account or a new transfer, and the answer to who made it.
LEMMA WriteStep ==
  ASSUME IInv, NEW r \in Request, TypeOK', ReceiptInv', NEW e, e \notin Row, Insert(e),
         Row' = Row \union {e}, accounts \subseteq accounts',
         \A t \in Committed : t \in Committed' /\ parties'[t] = parties[t],
         \A t \in Txn : receipt[t] = "GENERATED" => receipt'[t] = "GENERATED",
         call' = [call EXCEPT ![r] = call'[r]], PlaceInv(r)'
  PROVE  IInv'
<1>1. OrderInv' /\ newer \subseteq newer'
  BY InsertKeepsOrder DEF IInv
<1>2. Grows
  BY <1>1 DEF Grows
<1>3. \A x \in Request \ {r} : call'[x] = call[x]
  BY DEF IInv, TypeOK
<1> QED
  BY <1>1, <1>2, <1>3, PlacesKeep DEF IInv

LEMMA RegisterInsertInvariant ==
  ASSUME IInv, NEW r \in Request, RegisterInsert(r)
  PROVE  IInv'
<1>1. UNCHANGED <<parties, receipt, stored>>
  BY DEF RegisterInsert, receipts
<1>2. call[r] \in Place /\ call[r].at = "insert"
  BY DEF IInv, TypeOK, RegisterInsert
<1>3. call[r].name \in User
  BY <1>2 DEF Place
<1>4. CASE UNCHANGED <<accounts, newer>>
  <2>1. UNCHANGED <<accounts, book, receipts>>
    BY <1>1, <1>4 DEF book, receipts
  <2>2. CASE Finish(r, MapDatabaseError("22021"), "unstorable")
    BY <2>1, <2>2, Answered, QuietStep DEF IInv, Input, Unforeseen
  <2>3. CASE Finish(r, MapDatabaseError("23505"), "fine")
    BY <2>1, <2>3, KnownStates, Answered, QuietStep DEF IInv, Input, Unforeseen
  <2>4. CASE Finish(r, Answer(201, "CREATED"), "fine")
    <3>1. Answer(201, "CREATED").status # 500
      BY DEF Answer
    <3> QED
      BY <2>1, <2>4, <3>1, Answered, QuietStep DEF IInv, Input, Unforeseen
  <2>5. CASE Fail(r)
    BY <2>1, <2>5, Failed, QuietStep DEF IInv
  <2> QED
    BY <2>2, <2>3, <2>4, <2>5 DEF RegisterInsert
<1>5. ASSUME call[r].name \notin accounts, accounts' = accounts \union {call[r].name},
             Insert(call[r].name), Finish(r, Answer(201, "CREATED"), "fine")
      PROVE  IInv'
  <2>1. PICK name \in User : name = call[r].name
    BY <1>3
  <2>2. Answer(201, "CREATED").status # 500
    BY DEF Answer
  <2>3. /\ call' = [call EXCEPT ![r] = call'[r]]
        /\ call'[r] \in Place /\ PlaceInv(r)'
    BY <1>5, <2>2, Answered DEF IInv, Input
  <2>4. Committed' = Committed /\ Row' = Row \union {name} /\ name \notin Row
    BY <1>1, <1>5, <2>1, HttpAssumption DEF Committed, Row
  <2>5. TypeOK' /\ ReceiptInv'
    BY <1>1, <1>5, <2>1, <2>3 DEF IInv, TypeOK, ReceiptInv
  <2> QED
    BY <1>1, <1>5, <2>1, <2>3, <2>4, <2>5, WriteStep
<1> QED
  BY <1>4, <1>5 DEF RegisterInsert

LEMMA LoginInvariant ==
  ASSUME IInv, NEW r \in Request, Login(r)
  PROVE  IInv'
<1>1. UNCHANGED <<accounts, book, receipts>>
  BY DEF Login
<1>2. Answer(200, "OK").status # 500 /\ Answer(401, "INVALID_CREDENTIALS").status # 500
  BY DEF Answer
<1>3. CASE Finish(r, Answer(200, "OK"), "fine")
  BY <1>1, <1>2, <1>3, Answered, QuietStep DEF IInv, Input, Unforeseen
<1>4. CASE Finish(r, Answer(401, "INVALID_CREDENTIALS"), "fine")
  BY <1>1, <1>2, <1>4, Answered, QuietStep DEF IInv, Input, Unforeseen
<1>5. CASE Fail(r)
  BY <1>1, <1>5, Failed, QuietStep DEF IInv
<1> QED
  BY <1>3, <1>4, <1>5 DEF Login

LEMMA TransferRefusedInvariant ==
  ASSUME IInv, NEW r \in Request, TransferRefused(r)
  PROVE  IInv'
<1>1. UNCHANGED <<accounts, book, receipts>>
  BY DEF TransferRefused
<1>2. ASSUME NEW state \in {"WL002", "WL004", "WL005"}, Finish(r, MapDatabaseError(state), "fine")
      PROVE  IInv'
  BY <1>1, <1>2, KnownStates, Answered, QuietStep DEF IInv, Input, Unforeseen
<1>3. CASE Finish(r, MapDatabaseError("22021"), "unstorable")
  BY <1>1, <1>3, Answered, QuietStep DEF IInv, Input, Unforeseen
<1> QED
  BY <1>2, <1>3 DEF TransferRefused

LEMMA TransferInvariant ==
  ASSUME IInv, NEW r \in Request, Transfer(r)
  PROVE  IInv'
<1>1. PICK u \in accounts, v \in accounts, t \in Txn \ Committed :
         /\ u # v /\ Insert(t)
         /\ parties' = [parties EXCEPT ![t] = {u, v}]
         /\ Receipts!Issue(t)
  BY DEF Transfer
<1>2. /\ call' = [call EXCEPT ![r] = call'[r]]
      /\ call'[r] \in Place /\ PlaceInv(r)'
  <2>1. Answer(201, "CREATED").status # 500
    BY DEF Answer
  <2> QED
    BY <2>1, Answered, Failed DEF Transfer, IInv, Input
<1>3. accounts' = accounts /\ t \notin Row
  BY <1>1, HttpAssumption DEF Transfer, Row, IInv, TypeOK
<1>4. Committed' = Committed \union {t} /\ Row' = Row \union {t}
  BY <1>1, <1>3 DEF Committed, Row, IInv, TypeOK
<1>5. \A x \in Committed : x \in Committed' /\ parties'[x] = parties[x]
  BY <1>1, <1>4 DEF Committed, IInv, TypeOK
<1>6. TypeOK' /\ ReceiptInv' /\ \A x \in Txn : receipt[x] = "GENERATED" => receipt'[x] = "GENERATED"
  BY <1>1, <1>2, <1>3 DEF IInv, TypeOK, ReceiptInv, Receipts!Issue
<1> QED
  BY <1>1, <1>2, <1>3, <1>4, <1>5, <1>6, WriteStep

LEMMA AskReceiptInvariant ==
  ASSUME IInv, NEW r \in Request, AskReceipt(r)
  PROVE  IInv'
<1>1. PICK u \in accounts, t \in Txn :
         LET found == Respond([op |-> "receipt", token |-> u, input |-> "fine", id |-> t], Committed)
         IN found.status = 302 /\ GoTo(r, [at |-> "presign", link |-> found.link])
  BY DEF AskReceipt
<1> DEFINE q == [op |-> "receipt", token |-> u, input |-> "fine", id |-> t]
<1>2. Respond(q, Committed) = GetReceiptDownloadUrl(Committed, t, u)
  <2>1. ~Stopped(q)
    <3>1. q.op = "receipt" /\ q.token = u /\ q.input = "fine" /\ u \in User
      BY DEF IInv, TypeOK
    <3>2. "receipt" \in Guarded /\ "receipt" \notin AdminRoutes
      BY DEF Guarded, UserRoutes, WalletRoutes, TransferRoutes, TransactionRoutes, AdminRoutes
    <3> HIDE DEF q
    <3> QED
      BY <3>1, <3>2, AllPass
  <2> QED
    BY <2>1 DEF Respond
<1>3. GetReceiptDownloadUrl(Committed, t, u).status = 302 =>
         /\ GetReceiptDownloadUrl(Committed, t, u) = [status |-> 302, link |-> t]
         /\ receipt[t] = "GENERATED"
  <2> DEFINE found == GetById(Committed, t, u)
             shown == t \in Committed /\ CanView(t, u)
  <2>1. CASE ~shown
    <3>1. found.status = 404
      BY <2>1 DEF GetById, Answer
    <3> QED
      BY <3>1 DEF GetReceiptDownloadUrl
  <2>2. CASE shown
    <3>1. found.status = 200 /\ found.receiptStatus = receipt[t]
      BY <2>2 DEF GetById
    <3>2. receipt[t] \in {"NONE", "NOT_REQUIRED", "PENDING", "GENERATED", "FAILED"}
      BY DEF IInv, TypeOK
    <3>3. receipt[t] # "NONE"
      <4>1. parties[t] # {}
        BY <2>2 DEF Committed
      <4> QED
        BY <4>1 DEF IInv, ReceiptInv
    <3> HIDE DEF found
    <3>4. CASE receipt[t] = "GENERATED"
      BY <3>1, <3>4 DEF GetReceiptDownloadUrl, found
    <3>5. CASE receipt[t] \in {"NOT_REQUIRED", "PENDING", "FAILED"}
      BY <3>1, <3>5 DEF GetReceiptDownloadUrl, Answer, found
    <3> QED
      BY <3>2, <3>3, <3>4, <3>5
  <2> QED
    BY <2>1, <2>2
<1>4. /\ GoTo(r, [at |-> "presign", link |-> t]) /\ receipt[t] = "GENERATED"
      /\ UNCHANGED <<accounts, book, receipts>>
  <2> HIDE DEF q
  <2> QED
    BY <1>1, <1>2, <1>3 DEF AskReceipt, q
<1>5. call' = [call EXCEPT ![r] = call'[r]] /\ call'[r] = [at |-> "presign", link |-> t]
  BY <1>4 DEF GoTo, IInv, TypeOK
<1>6. call'[r] \in Place
  BY <1>5 DEF Place
<1>7. PlaceInv(r)'
  BY <1>4, <1>5 DEF PlaceInv, ReadInv, DoneInv, AnswerInv, LinkInv, receipts
<1> QED
  BY <1>4, <1>5, <1>6, <1>7, QuietStep

LEMMA RedirectInvariant ==
  ASSUME IInv, NEW r \in Request, Redirect(r) \/ Take(r)
  PROVE  IInv'
<1>1. UNCHANGED <<accounts, book, receipts>>
  BY DEF Redirect, Take
<1>2. ASSUME call[r].at = "presign", GoTo(r, [at |-> "redirected", link |-> call[r].link])
      PROVE  IInv'
  <2>1. call[r] \in Place /\ LinkInv(r)
    BY DEF IInv, TypeOK, PlaceInv
  <2>2. call[r].link \in Txn /\ receipt[call[r].link] = "GENERATED"
    BY <1>2, <2>1 DEF Place, LinkInv
  <2>3. call' = [call EXCEPT ![r] = call'[r]]
        /\ call'[r] = [at |-> "redirected", link |-> call[r].link]
    BY <1>2 DEF GoTo, IInv, TypeOK
  <2>4. call'[r] \in Place
    BY <2>2, <2>3 DEF Place
  <2>5. PlaceInv(r)'
    BY <1>1, <2>2, <2>3 DEF PlaceInv, ReadInv, DoneInv, AnswerInv, LinkInv, receipts
  <2> QED
    BY <1>1, <2>3, <2>4, <2>5, QuietStep
<1>3. CASE GoTo(r, [at |-> "rest"])
  <2>1. call' = [call EXCEPT ![r] = call'[r]] /\ call'[r] = [at |-> "rest"]
    BY <1>3 DEF GoTo, IInv, TypeOK
  <2>2. call'[r] \in Place
    BY <2>1 DEF Place
  <2>3. PlaceInv(r)'
    BY <2>1 DEF PlaceInv, ReadInv, DoneInv, AnswerInv, LinkInv
  <2> QED
    BY <1>1, <2>1, <2>2, <2>3, QuietStep
<1>4. CASE Fail(r)
  BY <1>1, <1>4, Failed, QuietStep DEF IInv
<1> QED
  BY <1>2, <1>3, <1>4 DEF Redirect, Take

LEMMA WorkerInvariant ==
  ASSUME IInv, NEW t \in Txn, Worker(t)
  PROVE  IInv'
<1>1. UNCHANGED <<accounts, parties, newer, call>>
  BY DEF Worker, book
<1>2. Committed' = Committed /\ Row' = Row
  BY <1>1 DEF Committed, Row
<1>3. /\ receipt' \in [Txn -> {"NONE", "NOT_REQUIRED", "PENDING", "GENERATED", "FAILED"}]
      /\ stored' \in [Txn -> BOOLEAN]
      /\ \A x \in Txn : receipt[x] = "GENERATED" => receipt'[x] = "GENERATED"
      /\ \A x \in Txn : receipt[x] # "NONE" => receipt'[x] # "NONE"
      /\ \A x \in Txn : receipt'[x] = "GENERATED" => stored'[x]
  <2>1. CASE Receipts!Store(t)
    BY <2>1 DEF IInv, TypeOK, ReceiptInv, Receipts!Store
  <2>2. CASE Receipts!Generate(t)
    BY <2>2 DEF IInv, TypeOK, ReceiptInv, Receipts!Generate
  <2>3. CASE Receipts!GiveUp(t)
    BY <2>3 DEF IInv, TypeOK, ReceiptInv, Receipts!GiveUp
  <2> QED
    BY <2>1, <2>2, <2>3 DEF Worker
<1>4. TypeOK' /\ ReceiptInv'
  BY <1>1, <1>3 DEF IInv, TypeOK, ReceiptInv
<1>5. OrderInv' /\ Grows
  BY <1>1, <1>2, <1>3 DEF IInv, OrderInv, Grows
<1> QED
  BY <1>1, <1>3, <1>4, <1>5, PlacesKeep DEF IInv

-----------------------------------------------------------------------------
LEMMA Invariant == Spec => []IInv
<1>1. Init => IInv
  <2> SUFFICES ASSUME Init PROVE IInv
    OBVIOUS
  <2>1. /\ accounts = Seeded /\ parties = [t \in Txn |-> {}] /\ newer = {}
        /\ receipt = [t \in Txn |-> "NONE"] /\ stored = [t \in Txn |-> FALSE]
        /\ call = [r \in Request |-> [at |-> "rest"]]
    BY DEF Init, Receipts!Init
  <2>2. TypeOK
    <3>1. [at |-> "rest"] \in Place
      BY DEF Place
    <3> QED
      BY <2>1, <3>1, HttpAssumption DEF TypeOK
  <2>3. Row = Seeded
    BY <2>1 DEF Row, Committed
  <2>4. OrderInv
    BY <2>1, <2>3, HttpAssumption DEF OrderInv
  <2>5. ReceiptInv /\ \A r \in Request : PlaceInv(r)
    BY <2>1 DEF ReceiptInv, PlaceInv, ReadInv, DoneInv, AnswerInv, LinkInv
  <2> QED
    BY <2>2, <2>4, <2>5 DEF IInv
<1>2. IInv /\ [Next]_vars => IInv'
  <2> SUFFICES ASSUME IInv, [Next]_vars PROVE IInv'
    OBVIOUS
  <2>1. CASE UNCHANGED vars
    <3>1. UNCHANGED <<accounts, parties, newer, receipt, stored, call>>
      BY <2>1 DEF vars, book, receipts
    <3>2. Committed' = Committed /\ Row' = Row
      BY <3>1 DEF Committed, Row
    <3>3. TypeOK' /\ OrderInv' /\ ReceiptInv' /\ Grows
      BY <3>1, <3>2 DEF IInv, TypeOK, OrderInv, ReceiptInv, Grows
    <3> QED
      BY <3>1, <3>3, PlacesKeep DEF IInv
  <2> QED
    BY <2>1, RefusedInvariant, RegisterFindInvariant, RegisterInsertInvariant, LoginInvariant,
       TransferRefusedInvariant, TransferInvariant, AskReceiptInvariant, RedirectInvariant,
       StartReadingInvariant, ReadOnInvariant, WorkerInvariant
       DEF Next
<1> QED
  BY <1>1, <1>2, PTL DEF Spec

\* Offset pages over a list that grows at any place (transaction.repository.js:44,
\* wallet.repository.js:42, pagination.js:1) never lose a row that was there when
\* the reader began.
THEOREM PagesTheorem == Spec => []NothingSkipped
<1>1. IInv => NothingSkipped
  BY DEF IInv, PlaceInv, DoneInv, NothingSkipped
<1> QED
  BY <1>1, Invariant, PTL

\* The error handler (error-handler.js, errors.js:19) says 500 after a failure
\* or of a body, a path or a text that nothing on the way has a case for, and of
\* nothing else that happened.
THEOREM ServerErrorTheorem == Spec => []ServerErrorIsFailure
<1>1. IInv => ServerErrorIsFailure
  BY DEF IInv, PlaceInv, AnswerInv, ServerErrorIsFailure
<1> QED
  BY <1>1, Invariant, PTL

\* The services of transactions and receipts (transaction.service.js) answer whoever
\* has no part in a transaction as if it did not exist.
THEOREM HiddenTheorem == Spec => []HiddenLooksAbsent
<1>1. ASSUME NEW q \in Query
      PROVE  Respond(q, Committed) = Respond(q, OwnOf(Committed, q.token))
  <2>1. q.token \notin Admin
    BY <1>1, HttpAssumption DEF Query
  <2> DEFINE own == OwnOf(Committed, q.token)
  <2>2. CASE Stopped(q)
    BY <2>2 DEF Respond
  <2>3. ASSUME NEW t PROVE GetById(Committed, t, q.token) = GetById(own, t, q.token)
    BY <2>1 DEF GetById, CanView, OwnOf
  <2>4. CASE q.op = "get"
    BY <2>2, <2>3, <2>4 DEF Respond
  <2>5. CASE q.op = "receipt"
    <3>1. GetReceiptDownloadUrl(Committed, q.id, q.token) = GetReceiptDownloadUrl(own, q.id, q.token)
      BY <2>3 DEF GetReceiptDownloadUrl
    <3> QED
      BY <2>2, <2>5, <3>1 DEF Respond
  <2>6. CASE q.op = "list"
    <3>1. OwnOf(own, q.token) = OwnOf(Committed, q.token)
      BY DEF OwnOf
    <3> QED
      BY <2>2, <2>6, <3>1 DEF Respond, ListForUser
  <2>7. CASE q.op = "listAll"
    <3>1. Authorize(q) # <<>>
      BY <2>1, <2>7 DEF Authorize, AdminRoutes
    <3> QED
      BY <2>2, <3>1, StageStops
  <2>8. CASE q.op = "user"
    BY <2>2, <2>8 DEF Respond
  <2>9. CASE q.op = "wallet"
    BY <2>2, <2>9 DEF Respond
  <2>10. CASE q.op = "unknown route"
    <3>1. FindRoute(q) # <<>>
      BY <2>10 DEF FindRoute, Guarded, AuthRoutes, UserRoutes, WalletRoutes, TransferRoutes,
                   TransactionRoutes, AdminRoutes
    <3> QED
      BY <2>2, <3>1, StageStops
  <2>11. q.op \in {"get", "receipt", "list", "listAll", "user", "wallet", "unknown route"}
    BY DEF Query
  <2> QED
    BY <2>4, <2>5, <2>6, <2>7, <2>8, <2>9, <2>10, <2>11
<1>2. HiddenLooksAbsent
  BY <1>1 DEF HiddenLooksAbsent
<1> QED
  BY <1>2, PTL

\* A link that was given leads to an object that is there, however long ago the
\* receipt was looked at (receipt.storage.js:30).
RedirectWorks ==
    \A r \in Request : call[r].at \in {"presign", "redirected"} =>
        receipt[call[r].link] = "GENERATED" /\ stored[call[r].link]

THEOREM RedirectTheorem == Spec => []RedirectWorks
<1>1. IInv => RedirectWorks
  <2> SUFFICES ASSUME IInv, NEW r \in Request, call[r].at \in {"presign", "redirected"}
               PROVE  receipt[call[r].link] = "GENERATED" /\ stored[call[r].link]
    BY DEF RedirectWorks
  <2>1. call[r] \in Place /\ LinkInv(r)
    BY DEF IInv, TypeOK, PlaceInv
  <2>2. call[r].link \in Txn
    BY <2>1 DEF Place
  <2> QED
    BY <2>1, <2>2 DEF LinkInv, IInv, ReceiptInv
<1> QED
  BY <1>1, Invariant, PTL
=============================================================================
