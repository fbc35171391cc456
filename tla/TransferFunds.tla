--------------------------- MODULE TransferFunds ----------------------------
(***************************************************************************)
(* The transfer_funds procedure, run by concurrent PostgreSQL sessions     *)
(* (the API's connection pool) at READ COMMITTED, with the tables, CHECK   *)
(* constraints and ledger triggers it touches.                             *)
(*                                                                         *)
(* A session's uncommitted rows are its own (drafts); Commit publishes     *)
(* them.  `now` ticks once per wallet opening and once per CALL, so a tick *)
(* is at once the DEFAULT now() of every row of that database transaction, *)
(* the identity of the wallet it opens and the UUID of the transfer it     *)
(* inserts.  Wallets are named by their owner (wallets.user_id is UNIQUE). *)
(***************************************************************************)
EXTENDS Integers

CONSTANTS User, Session,
          Amount,      \* the p_amount values a CALL may carry
          Opening,     \* the initial balances of a registration
          Threshold,   \* p_receipt_threshold
          MaxNow,      \* bound: wallet openings and CALLs together
          Nobody       \* no user, no session

ASSUME ConstantsAssumption ==
    /\ Amount \subseteq Int /\ Opening \subseteq Nat
    /\ Threshold \in Int /\ MaxNow \in Nat
    /\ Nobody \notin User \union Session

VARIABLES
    walletId,      \* wallets.id by owner, 0 when there is no row
    balance,       \* wallets.balance, as committed
    transactions,  \* committed rows of transactions
    ledger,        \* committed rows of transaction_ledger
    nextLedgerId,  \* the identity sequence of transaction_ledger
    now,           \* the tick of the last transaction started
    rowLock,       \* who holds FOR UPDATE on each wallet row
    pc,            \* where each session is in the procedure
    call,          \* the arguments of its CALL and its now()
    rows,          \* the wallet rows in the SELECT's snapshot
    read,          \* v_from_wallet.balance
    debited, credited,  \* the balances its two UPDATEs wrote
    entries        \* its uncommitted ledger rows

database == <<walletId, balance, transactions, ledger>>
work == <<rows, read, debited, credited, entries>>
vars == <<database, nextLedgerId, now, rowLock, pc, call, work>>

\* The errors the procedure raises, and a CHECK constraint's.
Error == {"WL001", "WL002", "WL003", "WL004", "WL005", "23514"}
Location == {"idle", "select", "lock", "check", "debit", "credit", "commit"} \union Error
EntryType == {"OPENING", "DEBIT", "CREDIT"}

NoCall == [from |-> Nobody, to |-> Nobody, amount |-> 0, startedAt |-> 0]

\* The row fn_wallet_balance_ledger inserts when a wallet's balance goes from
\* `before` to `after` in the database transaction started at `at`.
LedgerRow(id, wallet, type, txn, before, after, at) ==
    [id |-> id, wallet |-> wallet, type |-> type, txn |-> txn,
     amount |-> IF after < before THEN before - after ELSE after - before,
     before |-> before, after |-> after, createdAt |-> at]

ReceiptStatus(amount) == IF amount > Threshold THEN "PENDING" ELSE "NOT_REQUIRED"

NoSessionActive ==
    /\ pc = [s \in Session |-> "idle"]
    /\ call = [s \in Session |-> NoCall]
    /\ rows = [s \in Session |-> {}]
    /\ read = [s \in Session |-> 0]
    /\ debited = [s \in Session |-> 0]
    /\ credited = [s \in Session |-> 0]
    /\ entries = [s \in Session |-> {}]

Init ==
    /\ walletId = [u \in User |-> 0]
    /\ balance = [u \in User |-> 0]
    /\ transactions = {} /\ ledger = {}
    /\ nextLedgerId = 1 /\ now = 0
    /\ rowLock = [u \in User |-> Nobody]
    /\ NoSessionActive

-----------------------------------------------------------------------------
(* Registration: the user row, the wallet row and the OPENING ledger row    *)
(* of its INSERT trigger become visible in one COMMIT.                      *)
OpenWallet(u, b) ==
    /\ now < MaxNow
    /\ walletId[u] = 0
    /\ now' = now + 1
    /\ walletId' = [walletId EXCEPT ![u] = now + 1]
    /\ balance' = [balance EXCEPT ![u] = b]
    /\ IF b > 0
       THEN /\ ledger' = ledger \union
                   {LedgerRow(nextLedgerId, u, "OPENING", 0, 0, b, now + 1)}
            /\ nextLedgerId' = nextLedgerId + 1
       ELSE UNCHANGED <<ledger, nextLedgerId>>
    /\ UNCHANGED <<transactions, rowLock, pc, call, work>>

-----------------------------------------------------------------------------
(* The procedure.                                                           *)

\* Mutant of ReleaseLocks: a failed CALL keeps its locks.
ReleaseLocksOnSuccess(s) ==
    rowLock' = [u \in User |->
                   IF rowLock[u] = s /\ pc[s] \notin Error THEN Nobody ELSE rowLock[u]]

ReleaseLocks(s) ==
    rowLock' = [u \in User |-> IF rowLock[u] = s THEN Nobody ELSE rowLock[u]]

\* The end of the session's transaction: its locks go and its drafts are
\* dropped (a COMMIT has published them).
Finish(s) ==
    /\ pc' = [pc EXCEPT ![s] = "idle"]
    /\ call' = [call EXCEPT ![s] = NoCall]
    /\ rows' = [rows EXCEPT ![s] = {}]
    /\ read' = [read EXCEPT ![s] = 0]
    /\ debited' = [debited EXCEPT ![s] = 0]
    /\ credited' = [credited EXCEPT ![s] = 0]
    /\ entries' = [entries EXCEPT ![s] = {}]
    /\ ReleaseLocks(s)

\* Mutant of FirstStep: the comparison of the two users is dropped.
FirstStepToOneself(from, to, amount) == IF amount <= 0 THEN "WL001" ELSE "select"

\* The verdict on the arguments, before any table is read.
FirstStep(from, to, amount) ==
    IF amount <= 0 THEN "WL001" ELSE IF from = to THEN "WL002" ELSE "select"

\* CALL transfer_funds(from, to, amount, ...).
Call(s, from, to, amount) ==
    /\ pc[s] = "idle"
    /\ now < MaxNow
    /\ now' = now + 1
    /\ call' = [call EXCEPT ![s] =
          [from |-> from, to |-> to, amount |-> amount, startedAt |-> now + 1]]
    /\ pc' = [pc EXCEPT ![s] = FirstStep(from, to, amount)]
    /\ UNCHANGED <<database, nextLedgerId, rowLock, work>>

\* Mutant of SelectRows: FOR UPDATE SKIP LOCKED.
SelectRowsSkippingLocked(s) ==
    /\ pc[s] = "select"
    /\ LET visible == {u \in {call[s].from, call[s].to} : walletId[u] # 0 /\ rowLock[u] = Nobody}
       IN  /\ rows' = [rows EXCEPT ![s] = visible]
           /\ pc' = [pc EXCEPT ![s] = IF visible = {} THEN "check" ELSE "lock"]
    /\ UNCHANGED <<database, nextLedgerId, now, rowLock, call, read,
                   debited, credited, entries>>

\* The SELECT takes its snapshot: a wallet committed later is not in it.
SelectRows(s) ==
    /\ pc[s] = "select"
    /\ LET visible == {u \in {call[s].from, call[s].to} : walletId[u] # 0}
       IN  /\ rows' = [rows EXCEPT ![s] = visible]
           /\ pc' = [pc EXCEPT ![s] = IF visible = {} THEN "check" ELSE "lock"]
    /\ UNCHANGED <<database, nextLedgerId, now, rowLock, call, read,
                   debited, credited, entries>>

Unlocked(s) == {u \in rows[s] : rowLock[u] # s}

\* Mutant of IsNextRow: without the ORDER BY, the sender's row comes first.
IsNextRowOfCall(s, u) ==
    /\ u \in Unlocked(s)
    /\ call[s].from \in Unlocked(s) => u = call[s].from

\* The row the SELECT is at: the next one in ORDER BY id.
IsNextRow(s, u) ==
    /\ u \in Unlocked(s)
    /\ \A v \in Unlocked(s) : walletId[u] <= walletId[v]

\* Mutant of RowIsFree: a plain SELECT, which waits for nobody.
RowIsReadable(u) == TRUE

\* What FOR UPDATE waits for.
RowIsFree(u) == rowLock[u] = Nobody

\* FOR UPDATE locks one row, waiting for its holder to end, and returns the
\* row's latest committed version.
LockRow(s, u) ==
    /\ pc[s] = "lock"
    /\ IsNextRow(s, u)
    /\ RowIsFree(u)
    /\ rowLock' = [rowLock EXCEPT ![u] = s]
    /\ read' = IF u = call[s].from THEN [read EXCEPT ![s] = balance[u]] ELSE read
    /\ pc' = [pc EXCEPT ![s] = IF Unlocked(s) = {u} THEN "check" ELSE "lock"]
    /\ UNCHANGED <<database, nextLedgerId, now, call, rows,
                   debited, credited, entries>>

LacksFunds(s) == read[s] < call[s].amount

Verdict(s) ==
    CASE call[s].from \notin rows[s]                 -> "WL003"
      [] /\ call[s].from \in rows[s]
         /\ call[s].to \notin rows[s]                -> "WL004"
      [] /\ {call[s].from, call[s].to} \subseteq rows[s]
         /\ LacksFunds(s)                               -> "WL005"
      [] OTHER                                       -> "debit"

\* The checks after the SELECT.  Accepted, the row of `transactions` is
\* inserted and app.current_transaction_id set: the row is the session's own
\* until Commit.
Check(s) ==
    /\ pc[s] = "check"
    /\ pc' = [pc EXCEPT ![s] = Verdict(s)]
    /\ UNCHANGED <<database, nextLedgerId, now, rowLock, call, work>>

\* The session's row of `transactions`.
TransactionRow(s) ==
    [id |-> call[s].startedAt, from |-> call[s].from, to |-> call[s].to,
     amount |-> call[s].amount, status |-> ReceiptStatus(call[s].amount),
     createdAt |-> call[s].startedAt]

\* UPDATE wallets SET balance = balance - p_amount: the CHECK on balance, then
\* the AFTER UPDATE trigger's ledger row.
Debit(s) ==
    /\ pc[s] = "debit"
    /\ LET u == call[s].from
           after == balance[u] - call[s].amount
       IN  IF after < 0
           THEN /\ pc' = [pc EXCEPT ![s] = "23514"]
                /\ UNCHANGED <<debited, entries, nextLedgerId>>
           ELSE /\ pc' = [pc EXCEPT ![s] = "credit"]
                /\ debited' = [debited EXCEPT ![s] = after]
                /\ entries' = [entries EXCEPT ![s] = @ \union
                     {LedgerRow(nextLedgerId, u, "DEBIT", call[s].startedAt,
                                balance[u], after, call[s].startedAt)}]
                /\ nextLedgerId' = nextLedgerId + 1
    /\ UNCHANGED <<database, now, rowLock, call, rows, read, credited>>

Credit(s) ==
    /\ pc[s] = "credit"
    /\ LET u == call[s].to
           after == balance[u] + call[s].amount
       IN  /\ credited' = [credited EXCEPT ![s] = after]
           /\ entries' = [entries EXCEPT ![s] = @ \union
                {LedgerRow(nextLedgerId, u, "CREDIT", call[s].startedAt,
                           balance[u], after, call[s].startedAt)}]
    /\ nextLedgerId' = nextLedgerId + 1
    /\ pc' = [pc EXCEPT ![s] = "commit"]
    /\ UNCHANGED <<database, now, rowLock, call, rows, read, debited>>

\* The CALL is a statement of its own, so its end commits it.
Commit(s) ==
    /\ pc[s] = "commit"
    /\ balance' = [balance EXCEPT ![call[s].from] = debited[s],
                                  ![call[s].to] = credited[s]]
    /\ transactions' = transactions \union {TransactionRow(s)}
    /\ ledger' = ledger \union entries[s]
    /\ Finish(s)
    /\ UNCHANGED <<walletId, nextLedgerId, now>>

\* An error rolls the whole CALL back.
Rollback(s) ==
    /\ pc[s] \in Error
    /\ Finish(s)
    /\ UNCHANGED <<database, nextLedgerId, now>>

\* The connection, the API process or the database server dies before the
\* commit: the server rolls the transaction back.
Abort(s) ==
    /\ pc[s] # "idle"
    /\ Finish(s)
    /\ UNCHANGED <<database, nextLedgerId, now>>

-----------------------------------------------------------------------------
Step(s) ==
    \/ SelectRows(s)
    \/ \E u \in User : LockRow(s, u)
    \/ Check(s)
    \/ Debit(s)
    \/ Credit(s)
    \/ Commit(s)
    \/ Rollback(s)

Next ==
    \/ \E u \in User, b \in Opening : OpenWallet(u, b)
    \/ \E s \in Session, from, to \in User, amount \in Amount : Call(s, from, to, amount)
    \/ \E s \in Session : Step(s) \/ Abort(s)

Spec == Init /\ [][Next]_vars

\* The server runs every statement it was given to its end, and the holder of
\* a row lock is waited for, not given up on (there is no lock_timeout).
FairSpec == Spec /\ \A s \in Session : WF_vars(Step(s))

-----------------------------------------------------------------------------
(* Properties.                                                              *)

\* Every variable holds values of its kind (the BIGINT columns are unbounded
\* integers here).
LedgerRowType ==
    [id : Nat, wallet : User, type : EntryType, txn : Nat, amount : Nat,
     before : Nat, after : Nat, createdAt : Nat]

TransactionRowType ==
    [id : Nat, from : User, to : User, amount : Nat,
     status : {"PENDING", "NOT_REQUIRED"}, createdAt : Nat]

CallType == [from : User, to : User, amount : Int, startedAt : Nat]

\* Type correctness, of the tables' columns as of the sessions' variables:
\* no committed or drafted balance is ever negative.
TypeOK ==
    /\ walletId \in [User -> Nat] /\ balance \in [User -> Nat]
    /\ transactions \subseteq TransactionRowType
    /\ ledger \subseteq LedgerRowType
    /\ nextLedgerId \in Nat /\ now \in Nat
    /\ rowLock \in [User -> Session \union {Nobody}]
    /\ pc \in [Session -> Location]
    /\ call \in [Session -> CallType \union {NoCall}]
    /\ rows \in [Session -> SUBSET User]
    /\ read \in [Session -> Nat]
    /\ debited \in [Session -> Nat] /\ credited \in [Session -> Nat]
    /\ entries \in [Session -> SUBSET LedgerRowType]

LedgerOf(u) == {e \in ledger : e.wallet = u}

\* wallets.balance is the balance_after of the wallet's last ledger entry, in
\* the order the entries were written, whatever transfers ran side by side or
\* died half-way: README's "wallets.balance == last balance_after".
BalanceIsLedgerTip ==
    \A u \in User :
        \/ LedgerOf(u) = {} /\ balance[u] = 0
        \/ \E e \in LedgerOf(u) : /\ \A x \in LedgerOf(u) : x.id <= e.id
                                  /\ e.after = balance[u]

\* A wallet's entries form one history: each starts from the balance the one
\* before it left, and the first from nothing.  Two transfers that both read
\* the balance before either wrote it would fork the history.
LedgerIsChained ==
    \A e \in ledger :
        LET earlier == {x \in LedgerOf(e.wallet) : x.id < e.id}
        IN  \/ earlier = {} /\ e.before = 0
            \/ \E p \in earlier : /\ \A x \in earlier : x.id <= p.id
                                  /\ p.after = e.before

\* The CHECK constraint on wallets.balance is a second line of defence that
\* is never reached: WL005, tested on the balance read under the row lock,
\* still holds when the UPDATE runs.
CheckNeverFires == \A s \in Session : pc[s] # "23514"

\* Session s waits for session t.
WaitsFor(s, t) ==
    /\ pc[s] = "lock"
    /\ t # s
    /\ \E u \in User : IsNextRow(s, u) /\ rowLock[u] = t

\* No deadlock among the row locks: in every group of sessions, one waits for
\* none of the others.  Transfers in opposite directions between the same
\* wallets, or round a ring of wallets, lock in wallet id order (README,
\* "Stored procedure: transfer_funds").
NoDeadlock ==
    ~ \E D \in SUBSET Session :
        /\ D # {}
        /\ \A s \in D : \E t \in D : WaitsFor(s, t)

\* No refusal is a stale verdict.  When the procedure says that funds do not
\* suffice, the committed balance really is below the amount, however long the
\* session waited for the row; and a wallet it does not find did not exist when
\* the CALL was made, whoever holds rows or registers meanwhile.
Missing(s, u) == walletId[u] = 0 \/ call[s].startedAt < walletId[u]
RefusalIsTrue ==
    \A s \in Session :
        /\ pc[s] = "WL003" => Missing(s, call[s].from)
        /\ pc[s] = "WL004" => Missing(s, call[s].to)
        /\ pc[s] = "WL005" => balance[call[s].from] < call[s].amount

\* Each transfer is one indivisible step of the book of balances: the locks,
\* the two updates and the ledger never let an intermediate state, a lost
\* update or an overdraft through.
Book == INSTANCE WalletBook WITH
            opened <- {u \in User : walletId[u] # 0},
            transfers <- {[id |-> t.id, from |-> t.from, to |-> t.to,
                           amount |-> t.amount] : t \in transactions},
            TransferId <- 1 .. MaxNow
ImplementsBook == Book!Spec

\* Every CALL ends: no transfer waits for ever for a wallet, whatever other
\* transfers and aborts come in between.
CallEnds == \A s \in Session : pc[s] # "idle" ~> pc[s] = "idle"
=============================================================================
