------------------------- MODULE TransferFundsProofs ------------------------
(***************************************************************************)
(* Proofs about TransferFunds, for every set of users, sessions, amounts   *)
(* and opening balances.                                                   *)
(***************************************************************************)
EXTENDS TransferFunds, WellFoundedInduction, TLAPS

\* The locations past the WL001 and WL002 checks, those at which the SELECT
\* has returned, and those at which the checks have been passed.
Started == Location \ {"idle", "WL001", "WL002"}
Selected == Started \ {"select", "lock"}
Writing == {"debit", "credit", "commit"}

\* What is known of a session's arguments.
CallInv ==
    \A s \in Session :
        /\ pc[s] # "23514"
        /\ pc[s] = "idle" => call[s] = NoCall
        /\ pc[s] # "idle" => /\ call[s] \in CallType
                             /\ call[s].amount \in Amount
                             /\ call[s].startedAt \in 1 .. now
        /\ pc[s] \in Started => /\ call[s].from # call[s].to
                                /\ call[s].amount > 0

\* A session locks rows of its snapshot only, and all of them before it goes
\* past the SELECT.
LockInv ==
    \A s \in Session :
        /\ rows[s] \subseteq {call[s].from, call[s].to}
        /\ \A u \in rows[s] : walletId[u] # 0
        /\ pc[s] \notin Started \ {"select"} => rows[s] = {}
        /\ \A u \in User : rowLock[u] = s => u \in rows[s]
        /\ pc[s] \in Selected => \A u \in rows[s] : rowLock[u] = s
        /\ pc[s] \in Writing \union {"WL005"} =>
              {call[s].from, call[s].to} \subseteq rows[s]

\* What a session has read and written agrees with the committed balances
\* for as long as it holds the rows.
ReadInv ==
    \A s \in Session :
        /\ \A u \in User :
              rowLock[u] = s /\ u = call[s].from => read[s] = balance[u]
        /\ pc[s] \in Writing => call[s].amount <= read[s]
        /\ pc[s] = "WL005" => read[s] < call[s].amount
        /\ pc[s] \in {"credit", "commit"} =>
              debited[s] = balance[call[s].from] - call[s].amount
        /\ pc[s] = "commit" =>
              credited[s] = balance[call[s].to] + call[s].amount

\* Ledger ids come from the sequence, and a wallet not yet opened has none.
LedgerInv ==
    /\ \A e \in ledger : e.id < nextLedgerId
    /\ \A u \in User : walletId[u] = 0 => balance[u] = 0 /\ LedgerOf(u) = {}

\* A session's ledger drafts: later than every committed entry of their
\* wallet, starting from its committed balance.
EntriesInv ==
    \A s \in Session :
        /\ \A e \in entries[s] :
              /\ e.id < nextLedgerId
              /\ \A x \in LedgerOf(e.wallet) : x.id < e.id
              /\ e.before = balance[e.wallet]
              /\ \/ e.wallet = call[s].from /\ e.after = debited[s]
                 \/ e.wallet = call[s].to /\ e.after = credited[s] /\ pc[s] = "commit"
        /\ \A e, f \in entries[s] : e.wallet = f.wallet => e = f
        /\ pc[s] \notin {"credit", "commit"} => entries[s] = {}
        /\ pc[s] \in {"credit", "commit"} =>
              \E e \in entries[s] : e.wallet = call[s].from
        /\ pc[s] = "commit" => \E e \in entries[s] : e.wallet = call[s].to

\* A CALL's identity is its own.
IdentityInv ==
    /\ now <= MaxNow
    /\ \A t \in transactions : t.id <= now
    /\ \A s \in Session : pc[s] # "idle" =>
          /\ \A t \in transactions : t.id # call[s].startedAt
          /\ \A r \in Session \ {s} :
                pc[r] # "idle" => call[r].startedAt # call[s].startedAt

IInv == /\ TypeOK /\ CallInv /\ LockInv /\ ReadInv
        /\ LedgerInv /\ EntriesInv /\ IdentityInv
        /\ BalanceIsLedgerTip /\ LedgerIsChained

-----------------------------------------------------------------------------
\* The invariant holds before any wallet is opened.
LEMMA InitInvariant == Init => IInv
<1> SUFFICES ASSUME Init PROVE IInv
  OBVIOUS
<1> USE ConstantsAssumption DEF Init, NoSessionActive
<1>1. TypeOK
  BY DEF TypeOK, Location, Error
<1>2. CallInv /\ LockInv /\ ReadInv
  BY DEF CallInv, LockInv, ReadInv, Started, Selected, Writing, Location, Error
<1>3. LedgerInv /\ EntriesInv /\ IdentityInv
  BY DEF LedgerInv, EntriesInv, IdentityInv, LedgerOf
<1>4. BalanceIsLedgerTip /\ LedgerIsChained
  BY DEF BalanceIsLedgerTip, LedgerIsChained, LedgerOf
<1> QED
  BY <1>1, <1>2, <1>3, <1>4 DEF IInv

\* Opening a wallet disturbs no session: none has the new row in its snapshot.
LEMMA OpenWalletInvariant ==
  ASSUME IInv, NEW u \in User, NEW b \in Opening, OpenWallet(u, b)
  PROVE  IInv'
<1> USE ConstantsAssumption DEF IInv, OpenWallet, database, work
<1>1. TypeOK'
  BY DEF TypeOK, LedgerRow, LedgerRowType, EntryType
<1>2. CallInv'
  BY DEF TypeOK, CallInv
<1>3. LockInv'
  BY DEF TypeOK, CallInv, LockInv
<1>a. \A s \in Session : u \notin rows[s]
  BY DEF LockInv
<1>b. \A s \in Session : \A e \in entries[s] : e.wallet \in rows[s]
  BY DEF EntriesInv, LockInv, Writing
<1>c. /\ \A v \in User \ {u} : balance'[v] = balance[v] /\ LedgerOf(v)' = LedgerOf(v)
      /\ \A e \in ledger' \ ledger : /\ e.wallet = u /\ e.id = nextLedgerId
                                     /\ e.before = 0 /\ e.after = b
      /\ balance'[u] = b
      /\ LedgerOf(u) = {}
      /\ b = 0 => ledger' = ledger
      /\ b # 0 => ledger' # ledger
  <2>1. b \in Nat /\ LedgerOf(u) = {} /\ balance'[u] = b
    BY DEF TypeOK, LedgerInv
  <2>2. \A v \in User \ {u} : balance'[v] = balance[v]
    BY DEF TypeOK
  <2>3. CASE b = 0
    BY <2>1, <2>2, <2>3 DEF LedgerOf
  <2>4. CASE b > 0
    <3> DEFINE row == LedgerRow(nextLedgerId, u, "OPENING", 0, 0, b, now + 1)
    <3>1. /\ row.wallet = u /\ row.id = nextLedgerId
          /\ row.before = 0 /\ row.after = b
      BY DEF LedgerRow
    <3>2. ledger' = ledger \union {row}
      BY <2>4
    <3>3. row \notin ledger
      BY <2>1, <3>1 DEF LedgerOf
    <3> HIDE DEF row
    <3> QED
      BY <2>1, <2>2, <2>4, <3>1, <3>2, <3>3 DEF LedgerOf
  <2> QED
    BY <2>1, <2>3, <2>4
<1>4. ReadInv'
  <2> SUFFICES ASSUME NEW s \in Session
               PROVE  /\ \A v \in User :
                            rowLock[v] = s /\ v = call[s].from => read[s] = balance'[v]
                      /\ pc[s] \in {"credit", "commit"} =>
                            debited[s] = balance'[call[s].from] - call[s].amount
                      /\ pc[s] = "commit" =>
                            credited[s] = balance'[call[s].to] + call[s].amount
    BY DEF ReadInv
  <2>1. \A v \in User : rowLock[v] = s => balance'[v] = balance[v]
    BY <1>a, <1>c DEF LockInv
  <2>2. pc[s] \in Writing => /\ balance'[call[s].from] = balance[call[s].from]
                             /\ balance'[call[s].to] = balance[call[s].to]
    BY <1>a, <1>c DEF LockInv, TypeOK
  <2> QED
    BY <2>1, <2>2 DEF ReadInv, Writing
<1>5. LedgerInv'
  BY <1>c DEF TypeOK, LedgerInv, LedgerOf, LedgerRow, LedgerRowType
<1>6. EntriesInv'
  <2> SUFFICES ASSUME NEW s \in Session, NEW e \in entries[s]
               PROVE  /\ e.id < nextLedgerId'
                      /\ \A x \in LedgerOf(e.wallet)' : x.id < e.id
                      /\ e.before = balance'[e.wallet]
    BY DEF EntriesInv, TypeOK
  <2>1. e.wallet \in User \ {u} /\ e.id \in Nat
    BY <1>a, <1>b DEF TypeOK, LedgerRowType
  <2>2. e.id < nextLedgerId'
    BY <2>1 DEF EntriesInv, TypeOK
  <2> QED
    BY <1>c, <2>1, <2>2 DEF EntriesInv
<1>7. IdentityInv'
  <2>1. now \in Nat /\ now + 1 <= MaxNow /\ MaxNow \in Nat
    BY DEF TypeOK
  <2>2. \A t \in transactions : t.id \in Nat /\ t.id <= now + 1
    BY <2>1 DEF TypeOK, TransactionRowType, IdentityInv
  <2> QED
    BY <2>1, <2>2 DEF IdentityInv
<1>8. BalanceIsLedgerTip'
  <2> SUFFICES ASSUME NEW v \in User
               PROVE  \/ LedgerOf(v)' = {} /\ balance'[v] = 0
                      \/ \E e \in LedgerOf(v)' :
                            /\ \A x \in LedgerOf(v)' : x.id <= e.id
                            /\ e.after = balance'[v]
    BY DEF BalanceIsLedgerTip, LedgerOf
  <2>1. CASE v # u
    BY <1>c, <2>1 DEF BalanceIsLedgerTip
  <2>2. CASE v = u /\ b = 0
    BY <1>c, <2>2 DEF LedgerOf
  <2>3. CASE v = u /\ b # 0
    <3>1. \A x \in LedgerOf(u)' : x \in ledger' \ ledger
      BY <1>c DEF LedgerOf
    <3>2. PICK e \in ledger' \ ledger : e.wallet = u /\ e.id = nextLedgerId /\ e.after = b
      BY <1>c, <2>3
    <3> QED
      BY <1>c, <2>3, <3>1, <3>2 DEF LedgerOf, TypeOK
  <2> QED
    BY <2>1, <2>2, <2>3
<1>9. LedgerIsChained'
  BY <1>c DEF TypeOK, LedgerIsChained, LedgerInv, LedgerOf, LedgerRow, LedgerRowType
<1> QED
  BY <1>1, <1>2, <1>3, <1>4, <1>5, <1>6, <1>7, <1>8, <1>9 DEF IInv

\* A new CALL has an identity of its own and holds nothing yet.
LEMMA CallInvariant ==
  ASSUME IInv, NEW s \in Session,
         NEW from \in User, NEW to \in User, NEW amount \in Amount,
         Call(s, from, to, amount)
  PROVE  IInv'
<1> USE ConstantsAssumption DEF IInv, Call, database, work
<1>1. TypeOK'
  BY DEF TypeOK, FirstStep, CallType, Started, Selected, Writing, Location, Error
<1>2. CallInv'
  BY DEF TypeOK, CallInv, FirstStep, CallType, Started, Selected, Writing, Location, Error
<1>3. LockInv'
  BY DEF TypeOK, CallInv, LockInv, FirstStep, Started, Selected, Writing, Location, Error
<1>4. ReadInv'
  BY DEF TypeOK, CallInv, LockInv, ReadInv, FirstStep, NoCall, Started, Selected, Writing, Location, Error
<1>5. LedgerInv'
  BY DEF LedgerInv, LedgerOf
<1>6. EntriesInv'
  BY DEF TypeOK, EntriesInv, LedgerOf, FirstStep, NoCall, Started, Selected, Writing, Location, Error
<1>7. IdentityInv'
  BY DEF TypeOK, IdentityInv, CallInv, TransactionRowType, FirstStep, CallType, Started, Selected, Writing, Location, Error
<1>8. BalanceIsLedgerTip' /\ LedgerIsChained'
  BY DEF BalanceIsLedgerTip, LedgerIsChained, LedgerOf
<1> QED
  BY <1>1, <1>2, <1>3, <1>4, <1>5, <1>6, <1>7, <1>8 DEF IInv

\* The snapshot holds existing rows of the two users only.
LEMMA SelectRowsInvariant ==
  ASSUME IInv, NEW s \in Session, SelectRows(s)
  PROVE  IInv'
<1> USE ConstantsAssumption DEF IInv, SelectRows, database
<1>1. TypeOK'
  BY DEF TypeOK, CallInv, CallType, Started, Selected, Writing, Location, Error
<1>2. CallInv'
  BY DEF TypeOK, CallInv, Started, Selected, Writing, Location, Error
<1>3. LockInv'
  BY DEF TypeOK, CallInv, LockInv, Started, Selected, Writing, Location, Error
<1>4. ReadInv'
  BY DEF TypeOK, LockInv, ReadInv, Started, Selected, Writing, Location, Error
<1>5. LedgerInv'
  BY DEF LedgerInv, LedgerOf
<1>6. EntriesInv'
  BY DEF TypeOK, EntriesInv, LedgerOf, Started, Selected, Writing, Location, Error
<1>7. IdentityInv'
  BY DEF TypeOK, IdentityInv, CallInv
<1>8. BalanceIsLedgerTip' /\ LedgerIsChained'
  BY DEF BalanceIsLedgerTip, LedgerIsChained, LedgerOf
<1> QED
  BY <1>1, <1>2, <1>3, <1>4, <1>5, <1>6, <1>7, <1>8 DEF IInv

\* A row is read as it is locked.
LEMMA LockRowInvariant ==
  ASSUME IInv, NEW s \in Session,
         NEW u \in User, LockRow(s, u)
  PROVE  IInv'
<1> USE ConstantsAssumption DEF IInv, LockRow, RowIsFree, database
<1>1. TypeOK'
  BY DEF TypeOK, Started, Selected, Writing, Location, Error
<1>2. CallInv'
  BY DEF TypeOK, CallInv, Started, Selected, Writing, Location, Error
<1>3. LockInv'
  BY DEF TypeOK, LockInv, IsNextRow, Unlocked, Started, Selected, Writing, Location, Error
<1>4. ReadInv'
  BY DEF TypeOK, LockInv, ReadInv, IsNextRow, Unlocked, Started, Selected, Writing, Location, Error
<1>5. LedgerInv'
  BY DEF LedgerInv, LedgerOf
<1>6. EntriesInv'
  BY DEF TypeOK, EntriesInv, LedgerOf, Started, Selected, Writing, Location, Error
<1>7. IdentityInv'
  BY DEF TypeOK, IdentityInv, CallInv
<1>8. BalanceIsLedgerTip' /\ LedgerIsChained'
  BY DEF BalanceIsLedgerTip, LedgerIsChained, LedgerOf
<1> QED
  BY <1>1, <1>2, <1>3, <1>4, <1>5, <1>6, <1>7, <1>8 DEF IInv

\* The verdict is on rows the session holds.
LEMMA CheckInvariant ==
  ASSUME IInv, NEW s \in Session, Check(s)
  PROVE  IInv'
<1> USE ConstantsAssumption DEF IInv, Check, database, work
<1>1. TypeOK'
  BY DEF TypeOK, Started, Selected, Writing, Location, Error, Verdict, LacksFunds
<1>2. CallInv'
  BY DEF TypeOK, CallInv, Started, Selected, Writing, Location, Error, Verdict, LacksFunds
<1>3. LockInv'
  BY DEF TypeOK, LockInv, Started, Selected, Writing, Location, Error, Verdict, LacksFunds
<1>4. ReadInv'
  BY DEF TypeOK, CallInv, CallType, LockInv, ReadInv, Verdict, LacksFunds, Started, Selected, Writing, Location, Error
<1>5. LedgerInv'
  BY DEF LedgerInv, LedgerOf
<1>6. EntriesInv'
  BY DEF TypeOK, EntriesInv, LedgerOf, Started, Selected, Writing, Location, Error, Verdict, LacksFunds
<1>7. IdentityInv'
  BY DEF TypeOK, IdentityInv, CallInv, Verdict, LacksFunds
<1>8. BalanceIsLedgerTip' /\ LedgerIsChained'
  BY DEF BalanceIsLedgerTip, LedgerIsChained, LedgerOf
<1> QED
  BY <1>1, <1>2, <1>3, <1>4, <1>5, <1>6, <1>7, <1>8 DEF IInv

\* The end of a session's transaction, published or not, disturbs no other.
LEMMA FinishInvariant ==
  ASSUME IInv, NEW s \in Session, Finish(s),
         UNCHANGED <<database, nextLedgerId, now>>
  PROVE  IInv'
<1> USE ConstantsAssumption DEF IInv, Finish, ReleaseLocks, database
<1>1. TypeOK'
  BY DEF TypeOK, NoCall, CallType, Started, Selected, Writing, Location, Error
<1>2. CallInv'
  BY DEF TypeOK, CallInv, NoCall, Started, Selected, Writing, Location, Error
<1>3. LockInv'
  BY DEF TypeOK, LockInv, Started, Selected, Writing, Location, Error
<1>4. ReadInv'
  BY DEF TypeOK, ReadInv, Started, Selected, Writing, Location, Error, NoCall
<1>5. LedgerInv'
  BY DEF LedgerInv, LedgerOf
<1>6. EntriesInv'
  BY DEF TypeOK, EntriesInv, LedgerOf, Started, Selected, Writing, Location, Error, NoCall
<1>7. IdentityInv'
  BY DEF TypeOK, IdentityInv, CallInv, NoCall
<1>8. BalanceIsLedgerTip' /\ LedgerIsChained'
  BY DEF BalanceIsLedgerTip, LedgerIsChained, LedgerOf
<1> QED
  BY <1>1, <1>2, <1>3, <1>4, <1>5, <1>6, <1>7, <1>8 DEF IInv

\* A session past the checks holds both rows, which cover the amount.
LEMMA WritingHoldsBoth ==
  ASSUME IInv, NEW s \in Session, pc[s] \in Writing
  PROVE  /\ call[s] \in CallType
         /\ call[s].from \in User /\ call[s].to \in User
         /\ call[s].from # call[s].to
         /\ call[s].amount \in Nat \ {0}
         /\ rowLock[call[s].from] = s /\ rowLock[call[s].to] = s
         /\ balance[call[s].from] \in Nat /\ balance[call[s].to] \in Nat
         /\ call[s].amount <= balance[call[s].from]
<1> USE DEF IInv
<1>1. /\ call[s] \in CallType /\ call[s].from # call[s].to /\ call[s].amount > 0
  BY DEF CallInv, Writing, Started, Location
<1>2. call[s].from \in User /\ call[s].to \in User /\ call[s].amount \in Nat \ {0}
  BY <1>1 DEF CallType
<1>3. rowLock[call[s].from] = s /\ rowLock[call[s].to] = s
  BY DEF LockInv, Writing, Selected, Started, Location
<1>4. balance[call[s].from] \in Nat /\ balance[call[s].to] \in Nat
  BY <1>2 DEF TypeOK
<1>5. call[s].amount <= balance[call[s].from]
  BY <1>2, <1>3 DEF ReadInv
<1> QED
  BY <1>1, <1>2, <1>3, <1>4, <1>5

\* The debit passes the CHECK constraint and drafts its ledger row.
LEMMA DebitInvariant ==
  ASSUME IInv, NEW s \in Session, Debit(s)
  PROVE  IInv'
<1> DEFINE u == call[s].from
           after == balance[u] - call[s].amount
           row == LedgerRow(nextLedgerId, u, "DEBIT", call[s].startedAt,
                            balance[u], after, call[s].startedAt)
<1> USE DEF Debit, database
<1>a. /\ call[s] \in CallType /\ u \in User /\ u # call[s].to /\ call[s].amount \in Nat \ {0}
      /\ balance[u] \in Nat /\ after \in Nat /\ rowLock[u] = s
  BY WritingHoldsBoth DEF Writing
<1>b. /\ pc' = [pc EXCEPT ![s] = "credit"]
      /\ debited' = [debited EXCEPT ![s] = after]
      /\ entries' = [entries EXCEPT ![s] = @ \union {row}]
      /\ nextLedgerId' = nextLedgerId + 1
  BY <1>a
<1>c. /\ row \in LedgerRowType /\ row.id = nextLedgerId /\ row.wallet = u
      /\ row.before = balance[u] /\ row.after = after
  BY <1>a DEF IInv, TypeOK, CallType, LedgerRow, LedgerRowType, EntryType
<1>d. entries[s] = {} /\ entries'[s] = {row}
  BY <1>b DEF IInv, TypeOK, EntriesInv
<1> HIDE DEF u, after, row
<1> USE DEF IInv
<1>1. TypeOK'
  BY <1>a, <1>b, <1>c DEF TypeOK, Location
<1>2. CallInv'
  BY <1>b DEF TypeOK, CallInv, Started, Location
<1>3. LockInv'
  BY <1>b DEF TypeOK, LockInv, Started, Selected, Writing, Location, Error
<1>4. ReadInv'
  BY <1>b DEF TypeOK, ReadInv, Writing, u, after
<1>5. LedgerInv'
  BY <1>b DEF TypeOK, LedgerInv, LedgerOf, LedgerRowType
<1>6. EntriesInv'
  <2>1. \A x \in LedgerOf(u) : x.id < nextLedgerId
    BY DEF LedgerInv, LedgerOf
  <2>2. ASSUME NEW r \in Session, r # s
        PROVE  \A e \in entries'[r] : e.id < nextLedgerId'
    BY <1>b, <2>2 DEF TypeOK, EntriesInv, LedgerRowType
  <2>3. entries'[s] = {row} /\ row.id < nextLedgerId'
    BY <1>b, <1>c, <1>d DEF TypeOK
  <2> QED
    BY <1>b, <1>c, <2>1, <2>2, <2>3 DEF TypeOK, EntriesInv, LedgerOf, u
<1>7. IdentityInv'
  BY <1>b DEF TypeOK, IdentityInv
<1>8. BalanceIsLedgerTip' /\ LedgerIsChained'
  BY DEF BalanceIsLedgerTip, LedgerIsChained, LedgerOf
<1> QED
  BY <1>1, <1>2, <1>3, <1>4, <1>5, <1>6, <1>7, <1>8

\* The credit reads a balance nobody else can change and drafts its row.
LEMMA CreditInvariant ==
  ASSUME IInv, NEW s \in Session, Credit(s)
  PROVE  IInv'
<1> DEFINE u == call[s].to
           after == balance[u] + call[s].amount
           row == LedgerRow(nextLedgerId, u, "CREDIT", call[s].startedAt,
                            balance[u], after, call[s].startedAt)
<1> USE DEF Credit, database
<1>a. /\ call[s] \in CallType /\ u \in User /\ u # call[s].from /\ call[s].amount \in Nat \ {0}
      /\ balance[u] \in Nat /\ after \in Nat /\ rowLock[u] = s
  BY WritingHoldsBoth DEF Writing
<1>b. /\ pc' = [pc EXCEPT ![s] = "commit"]
      /\ credited' = [credited EXCEPT ![s] = after]
      /\ entries' = [entries EXCEPT ![s] = @ \union {row}]
      /\ nextLedgerId' = nextLedgerId + 1
  OBVIOUS
<1>c. /\ row \in LedgerRowType /\ row.id = nextLedgerId /\ row.wallet = u
      /\ row.before = balance[u] /\ row.after = after
  BY <1>a DEF IInv, TypeOK, CallType, LedgerRow, LedgerRowType, EntryType
<1>d. entries'[s] = entries[s] \union {row} /\ \A e \in entries[s] : e.wallet = call[s].from
  BY <1>b DEF IInv, TypeOK, EntriesInv
<1> HIDE DEF u, after, row
<1> USE DEF IInv
<1>1. TypeOK'
  BY <1>a, <1>b, <1>c DEF TypeOK, Location
<1>2. CallInv'
  BY <1>b DEF TypeOK, CallInv, Started, Location
<1>3. LockInv'
  BY <1>b DEF TypeOK, LockInv, Started, Selected, Writing, Location, Error
<1>4. ReadInv'
  BY <1>b DEF TypeOK, ReadInv, Writing, u, after
<1>5. LedgerInv'
  BY <1>b DEF TypeOK, LedgerInv, LedgerOf, LedgerRowType
<1>6. EntriesInv'
  <2>1. \A x \in LedgerOf(u) : x.id < nextLedgerId
    BY DEF LedgerInv, LedgerOf
  <2>2. ASSUME NEW r \in Session
        PROVE  \A e \in entries[r] : e.id < nextLedgerId'
    BY <1>b, <2>2 DEF TypeOK, EntriesInv, LedgerRowType
  <2>3. ASSUME NEW r \in Session, r # s
        PROVE  entries'[r] = entries[r] /\ pc'[r] = pc[r] /\ credited'[r] = credited[r]
    BY <1>b, <2>3 DEF TypeOK
  <2>4. row.id < nextLedgerId' /\ pc'[s] = "commit" /\ credited'[s] = after
    BY <1>b, <1>c DEF TypeOK
  <2> QED
    BY <1>a, <1>b, <1>c, <1>d, <2>1, <2>2, <2>3, <2>4 DEF TypeOK, EntriesInv, LedgerOf, u
<1>7. IdentityInv'
  BY <1>b DEF TypeOK, IdentityInv
<1>8. BalanceIsLedgerTip' /\ LedgerIsChained'
  BY DEF BalanceIsLedgerTip, LedgerIsChained, LedgerOf
<1> QED
  BY <1>1, <1>2, <1>3, <1>4, <1>5, <1>6, <1>7, <1>8

\* A commit publishes balances and ledger rows that continue each wallet's
\* history, and touches nothing another session relies on.
LEMMA CommitInvariant ==
  ASSUME IInv, NEW s \in Session, Commit(s)
  PROVE  IInv'
<1>0. PICK from \in User, to \in User :
         from = call[s].from /\ to = call[s].to
  BY WritingHoldsBoth DEF Writing, Commit
<1> USE ConstantsAssumption, <1>0 DEF Commit, Finish, ReleaseLocks
<1>a. /\ from \in User /\ to \in User /\ from # to /\ call[s] \in CallType
      /\ rowLock[from] = s /\ rowLock[to] = s
      /\ from \in rows[s] /\ to \in rows[s]
  BY WritingHoldsBoth DEF Writing, IInv, LockInv
<1>b. /\ balance'[from] = debited[s] /\ balance'[to] = credited[s]
      /\ \A u \in User \ {from, to} : balance'[u] = balance[u]
      /\ balance' \in [User -> Nat]
  BY <1>a DEF IInv, TypeOK
<1>c. \A r \in Session \ {s} :
        /\ \A u \in User : rowLock[u] = r => u \notin {from, to}
        /\ pc'[r] = pc[r] /\ call'[r] = call[r] /\ rows'[r] = rows[r]
        /\ read'[r] = read[r] /\ debited'[r] = debited[r]
        /\ credited'[r] = credited[r] /\ entries'[r] = entries[r]
  BY <1>a DEF IInv, TypeOK
<1>d. /\ pc'[s] = "idle" /\ call'[s] = NoCall /\ rows'[s] = {} /\ entries'[s] = {}
  BY DEF IInv, TypeOK
<1>e. \A r \in Session \ {s} : \A e \in entries[r] : rowLock[e.wallet] = r
  BY DEF IInv, EntriesInv, LockInv, Writing, Selected, Started, Location
<1>f. PICK d \in entries[s], c \in entries[s] :
        /\ entries[s] = {d, c}
        /\ d.wallet = from /\ d.after = debited[s] /\ d.before = balance[from]
        /\ c.wallet = to /\ c.after = credited[s] /\ c.before = balance[to]
        /\ \A x \in LedgerOf(from) : x.id < d.id
        /\ \A x \in LedgerOf(to) : x.id < c.id
        /\ d \in LedgerRowType /\ c \in LedgerRowType
  <2>1. PICK d \in entries[s] : d.wallet = from
    BY DEF IInv, EntriesInv
  <2>2. PICK c \in entries[s] : c.wallet = to
    BY DEF IInv, EntriesInv
  <2>3. entries[s] = {d, c}
    BY <2>1, <2>2 DEF IInv, EntriesInv
  <2> QED
    BY <1>a, <2>1, <2>2, <2>3 DEF IInv, EntriesInv, TypeOK
<1>g. /\ LedgerOf(from)' = LedgerOf(from) \union {d}
      /\ LedgerOf(to)' = LedgerOf(to) \union {c}
      /\ \A u \in User \ {from, to} : LedgerOf(u)' = LedgerOf(u)
  BY <1>a, <1>f DEF LedgerOf
<1> USE DEF IInv
<1>1. TypeOK'
  <2>1. TransactionRow(s) \in TransactionRowType
    BY <1>a DEF TransactionRow, TransactionRowType, ReceiptStatus, CallType,
                CallInv, Started, Location
  <2> QED
    BY <1>b, <1>f, <2>1 DEF TypeOK, Location
<1>2. CallInv'
  BY <1>c, <1>d DEF CallInv, Started
<1>3. LockInv'
  BY <1>c, <1>d DEF TypeOK, LockInv, Started, Selected, Writing
<1>4. ReadInv'
  <2>1. ASSUME NEW r \in Session \ {s}
        PROVE  /\ \A u \in User :
                     rowLock'[u] = r /\ u = call'[r].from => read'[r] = balance'[u]
               /\ pc'[r] \in Writing => call'[r].amount <= read'[r]
               /\ pc'[r] = "WL005" => read'[r] < call'[r].amount
               /\ pc'[r] \in {"credit", "commit"} =>
                     debited'[r] = balance'[call'[r].from] - call'[r].amount
               /\ pc'[r] = "commit" =>
                     credited'[r] = balance'[call'[r].to] + call'[r].amount
    <3>1. /\ pc'[r] = pc[r] /\ call'[r] = call[r] /\ read'[r] = read[r]
          /\ debited'[r] = debited[r] /\ credited'[r] = credited[r]
      BY <1>c
    <3>2. \A u \in User : rowLock'[u] = r => rowLock[u] = r /\ balance'[u] = balance[u]
      BY <1>b, <1>c DEF TypeOK
    <3>3. pc[r] \in Writing => /\ balance'[call[r].from] = balance[call[r].from]
                              /\ balance'[call[r].to] = balance[call[r].to]
      BY <1>b, <1>c, WritingHoldsBoth
    <3> HIDE DEF Commit, Finish, ReleaseLocks
    <3> QED
      BY <3>1, <3>2, <3>3 DEF ReadInv, Writing
  <2>2. \A u \in User : rowLock'[u] # s
    BY DEF TypeOK
  <2>3. pc'[s] \notin Writing \union {"WL005"}
    BY <1>d DEF Writing
  <2> HIDE DEF Commit, Finish, ReleaseLocks, IInv
  <2> QED
    BY <2>1, <2>2, <2>3 DEF ReadInv, Writing
<1>5. LedgerInv'
  <2>1. \A e \in entries[s] : e.id < nextLedgerId
    BY DEF EntriesInv
  <2>2. walletId[from] # 0 /\ walletId[to] # 0
    BY <1>a DEF LockInv
  <2>3. \A u \in User : walletId[u] = 0 => LedgerOf(u)' = LedgerOf(u) /\ balance'[u] = balance[u]
    BY <1>b, <1>g, <2>2
  <2> QED
    BY <2>1, <2>3 DEF LedgerInv, LedgerOf
<1>6. EntriesInv'
  <2> SUFFICES ASSUME NEW r \in Session \ {s}, NEW e \in entries[r]
               PROVE  /\ \A x \in LedgerOf(e.wallet)' : x.id < e.id
                      /\ e.before = balance'[e.wallet]
    <3>1. \A r \in Session \ {s} : \A e \in entries'[r] :
             /\ e \in entries[r]
             /\ e.id < nextLedgerId
             /\ \/ e.wallet = call'[r].from /\ e.after = debited'[r]
                \/ e.wallet = call'[r].to /\ e.after = credited'[r] /\ pc'[r] = "commit"
      BY <1>c DEF EntriesInv
    <3>2. ASSUME NEW r \in Session \ {s}
          PROVE  /\ \A e, f \in entries'[r] : e.wallet = f.wallet => e = f
                 /\ pc'[r] \notin {"credit", "commit"} => entries'[r] = {}
                 /\ pc'[r] \in {"credit", "commit"} =>
                       \E e \in entries'[r] : e.wallet = call'[r].from
                 /\ pc'[r] = "commit" => \E e \in entries'[r] : e.wallet = call'[r].to
      <4>1. /\ pc'[r] = pc[r] /\ call'[r] = call[r] /\ entries'[r] = entries[r]
        BY <1>c
      <4> QED
        BY <4>1 DEF EntriesInv
    <3>3. ASSUME NEW r \in Session \ {s}, NEW e \in entries'[r]
          PROVE  /\ \A x \in LedgerOf(e.wallet)' : x.id < e.id
                 /\ e.before = balance'[e.wallet]
      BY <3>1
    <3>4. \A e \in entries'[s] : FALSE
      BY <1>d
    <3>5. pc'[s] \notin {"credit", "commit"} /\ entries'[s] = {}
      BY <1>d
    <3>6. \A r \in Session : r = s \/ r \in Session \ {s}
      OBVIOUS
    <3>7. nextLedgerId' = nextLedgerId
      OBVIOUS
    <3> QED
      <4> HIDE DEF Commit, Finish, ReleaseLocks, IInv
      <4> QED
        BY ONLY <3>1, <3>2, <3>3, <3>4, <3>5, <3>6, <3>7 DEF EntriesInv
  <2> QED
    BY <1>a, <1>b, <1>c, <1>e, <1>g DEF EntriesInv, TypeOK, LedgerRowType
<1>7. IdentityInv'
  BY <1>c, <1>d DEF TypeOK, IdentityInv, CallInv, TransactionRow
<1>8. BalanceIsLedgerTip'
  <2> SUFFICES ASSUME NEW u \in User
               PROVE  \/ LedgerOf(u)' = {} /\ balance'[u] = 0
                      \/ \E e \in LedgerOf(u)' :
                            /\ \A x \in LedgerOf(u)' : x.id <= e.id
                            /\ e.after = balance'[u]
    BY DEF BalanceIsLedgerTip, LedgerOf
  <2>1. \A x \in LedgerOf(u) : x.id \in Nat
    BY DEF TypeOK, LedgerOf, LedgerRowType
  <2>2. CASE u \notin {from, to}
    BY <1>b, <1>g, <2>2 DEF BalanceIsLedgerTip
  <2>3. CASE u = from
    BY <1>b, <1>f, <1>g, <2>1, <2>3 DEF LedgerRowType
  <2>4. CASE u = to
    BY <1>b, <1>f, <1>g, <2>1, <2>4 DEF LedgerRowType
  <2> QED
    BY <2>2, <2>3, <2>4
<1>9. LedgerIsChained'
  <2> SUFFICES ASSUME NEW u \in User, NEW e \in LedgerOf(u)'
               PROVE  LET earlier == {x \in LedgerOf(u)' : x.id < e.id}
                      IN  \/ earlier = {} /\ e.before = 0
                          \/ \E p \in earlier : /\ \A x \in earlier : x.id <= p.id
                                                /\ p.after = e.before
    BY <1>1 DEF LedgerIsChained, LedgerOf, TypeOK, LedgerRowType
  <2>1. CASE e \in LedgerOf(u)
    <3>1. {x \in LedgerOf(u)' : x.id < e.id} = {x \in LedgerOf(u) : x.id < e.id}
      BY <1>f, <1>g, <2>1 DEF LedgerOf, TypeOK, LedgerRowType
    <3> QED
      BY <2>1, <3>1 DEF LedgerIsChained, LedgerOf
  <2>2. CASE e \notin LedgerOf(u)
    <3>1. /\ e.before = balance[u]
          /\ {x \in LedgerOf(u)' : x.id < e.id} = LedgerOf(u)
      BY <1>a, <1>f, <1>g, <2>2 DEF LedgerRowType
    <3> QED
      BY <3>1 DEF BalanceIsLedgerTip
  <2> QED
    BY <2>1, <2>2
<1> QED
  BY <1>1, <1>2, <1>3, <1>4, <1>5, <1>6, <1>7, <1>8, <1>9

\* Every step keeps the invariant.
LEMMA NextInvariant == IInv /\ [Next]_vars => IInv'
<1> SUFFICES ASSUME IInv, [Next]_vars PROVE IInv'
  OBVIOUS
<1>1. ASSUME NEW u \in User, NEW b \in Opening, OpenWallet(u, b) PROVE IInv'
  BY <1>1, OpenWalletInvariant
<1>2. ASSUME NEW s \in Session, NEW from \in User, NEW to \in User,
             NEW amount \in Amount, Call(s, from, to, amount)
      PROVE  IInv'
  BY <1>2, CallInvariant
<1>3. ASSUME NEW s \in Session, Step(s) PROVE IInv'
  <2>1. CASE SelectRows(s)
    BY <2>1, SelectRowsInvariant
  <2>2. CASE \E u \in User : LockRow(s, u)
    BY <2>2, LockRowInvariant
  <2>3. CASE Check(s)
    BY <2>3, CheckInvariant
  <2>4. CASE Debit(s)
    BY <2>4, DebitInvariant
  <2>5. CASE Credit(s)
    BY <2>5, CreditInvariant
  <2>6. CASE Commit(s)
    BY <2>6, CommitInvariant
  <2>7. CASE Rollback(s)
    BY <2>7, FinishInvariant DEF Rollback
  <2> QED
    BY <1>3, <2>1, <2>2, <2>3, <2>4, <2>5, <2>6, <2>7 DEF Step
<1>4. ASSUME NEW s \in Session, Abort(s) PROVE IInv'
  BY <1>4, FinishInvariant DEF Abort
<1>5. CASE UNCHANGED vars
  <2> USE <1>5 DEF vars, database, work, IInv
  <2>1. TypeOK' /\ CallInv' /\ LockInv'
    BY DEF TypeOK, CallInv, LockInv
  <2>2. ReadInv' /\ LedgerInv' /\ EntriesInv' /\ IdentityInv'
    BY DEF ReadInv, LedgerInv, EntriesInv, IdentityInv, LedgerOf
  <2>3. BalanceIsLedgerTip' /\ LedgerIsChained'
    BY DEF BalanceIsLedgerTip, LedgerIsChained, LedgerOf
  <2> QED
    BY <2>1, <2>2, <2>3
<1> QED
  BY <1>1, <1>2, <1>3, <1>4, <1>5 DEF Next

\* The inductive invariant holds in every reachable state.
THEOREM Invariant == Spec => []IInv
<1>1. Init => IInv
  BY InitInvariant
<1>2. IInv /\ [Next]_vars => IInv'
  BY NextInvariant
<1> QED
  BY <1>1, <1>2, PTL DEF Spec

\* Type correctness: no balance, committed or drafted, is ever negative.
THEOREM TypeCorrect == Spec => []TypeOK
<1>1. IInv => TypeOK
  BY DEF IInv
<1> QED
  BY <1>1, Invariant, PTL

\* wallets.balance is always the balance_after of the wallet's last entry.
THEOREM LedgerTipTheorem == Spec => []BalanceIsLedgerTip
<1>1. IInv => BalanceIsLedgerTip
  BY DEF IInv
<1> QED
  BY <1>1, Invariant, PTL

\* A wallet's ledger entries always form one unbroken history.
THEOREM LedgerChainTheorem == Spec => []LedgerIsChained
<1>1. IInv => LedgerIsChained
  BY DEF IInv
<1> QED
  BY <1>1, Invariant, PTL

\* The CHECK constraint on wallets.balance never has to reject a debit.
THEOREM CheckNeverFiresTheorem == Spec => []CheckNeverFires
<1>1. IInv => CheckNeverFires
  BY DEF IInv, CallInv, CheckNeverFires
<1> QED
  BY <1>1, Invariant, PTL

\* A wallet that the SELECT did not return came after the CALL, and a verdict on
\* missing wallets is on such a one.
MissingInv ==
    \A s \in Session :
        /\ pc[s] \in Started \ {"select"} =>
              \A u \in {call[s].from, call[s].to} \ rows[s] : Missing(s, u)
        /\ pc[s] = "WL003" => call[s].from \notin rows[s]
        /\ pc[s] = "WL004" => call[s].to \notin rows[s]

\* A wallet opened during a CALL is younger than it, and a snapshot has all the
\* wallets there are.
LEMMA MissingStep == IInv /\ MissingInv /\ [Next]_vars => MissingInv'
<1> SUFFICES ASSUME IInv, MissingInv, [Next]_vars PROVE MissingInv'
  OBVIOUS
<1> USE ConstantsAssumption
<1>a. /\ walletId \in [User -> Nat] /\ now \in Nat
      /\ pc \in [Session -> Location] /\ rows \in [Session -> SUBSET User]
      /\ call \in [Session -> CallType \union {NoCall}]
  BY DEF IInv, TypeOK
<1>b. \A s \in Session : pc[s] \in Started =>
         /\ call[s].from \in User /\ call[s].to \in User
         /\ call[s].startedAt \in Nat /\ call[s].startedAt <= now
  BY <1>a DEF IInv, CallInv, CallType, Started
<1>1. ASSUME NEW u \in User, NEW b \in Opening, OpenWallet(u, b) PROVE MissingInv'
  BY <1>1, <1>a, <1>b DEF MissingInv, Missing, OpenWallet, work, Started, Location, Error
<1>2. ASSUME NEW s \in Session, NEW from \in User, NEW to \in User,
             NEW amount \in Amount, Call(s, from, to, amount)
      PROVE  MissingInv'
  BY <1>2, <1>a DEF MissingInv, Missing, Call, FirstStep, database, work, Started, Location, Error
<1>3. ASSUME NEW s \in Session, SelectRows(s) PROVE MissingInv'
  BY <1>3, <1>a, <1>b DEF MissingInv, Missing, SelectRows, database, Started, Location, Error
<1>4. ASSUME NEW s \in Session, NEW u \in User, LockRow(s, u) PROVE MissingInv'
  BY <1>4, <1>a DEF MissingInv, Missing, LockRow, database, Started, Location, Error
<1>5. ASSUME NEW s \in Session, Check(s) PROVE MissingInv'
  BY <1>5, <1>a DEF MissingInv, Missing, Check, Verdict, database, work, Started, Location, Error
<1>6. ASSUME NEW s \in Session, Debit(s) \/ Credit(s) PROVE MissingInv'
  BY <1>6, <1>a DEF MissingInv, Missing, Debit, Credit, database, Started, Location, Error
<1>7. ASSUME NEW s \in Session, Finish(s), UNCHANGED walletId PROVE MissingInv'
  BY <1>7, <1>a DEF MissingInv, Missing, Finish, Started, Location, Error
<1>8. CASE UNCHANGED vars
  BY <1>8 DEF MissingInv, Missing, vars, database, work
<1> QED
  BY <1>1, <1>2, <1>3, <1>4, <1>5, <1>6, <1>7, <1>8
     DEF Next, Step, Commit, Rollback, Abort, database

\* No refusal of the procedure is stale: the committed balance is below the
\* amount, or the wallet came after the CALL.
THEOREM RefusalTheorem == Spec => []RefusalIsTrue
<1>1. Init => MissingInv
  BY DEF Init, NoSessionActive, MissingInv, Started
<1>2. IInv /\ MissingInv /\ [Next]_vars => MissingInv'
  BY MissingStep
<1>3. IInv /\ MissingInv => RefusalIsTrue
  <2> SUFFICES ASSUME IInv, MissingInv, NEW s \in Session
               PROVE  /\ pc[s] = "WL003" => Missing(s, call[s].from)
                      /\ pc[s] = "WL004" => Missing(s, call[s].to)
                      /\ pc[s] = "WL005" => balance[call[s].from] < call[s].amount
    BY DEF RefusalIsTrue
  <2>1. pc[s] \in {"WL003", "WL004"} => pc[s] \in Started \ {"select"}
    BY DEF Started, Location, Error
  <2>2. ASSUME pc[s] = "WL005"
        PROVE  balance[call[s].from] < call[s].amount
    <3>1. call[s].from \in User /\ rowLock[call[s].from] = s
      BY <2>2 DEF IInv, CallInv, CallType, LockInv, Selected, Started, Location, Error
    <3> QED
      BY <2>2, <3>1 DEF IInv, ReadInv
  <2> QED
    BY <2>1, <2>2 DEF MissingInv
<1> QED
  BY <1>1, <1>2, <1>3, Invariant, PTL DEF Spec

-----------------------------------------------------------------------------
\* Double entry.

\* The two ledger rows of a transfer: what one wallet loses the other gains.
IsDebitOf(e, t) ==
    /\ e.type = "DEBIT" /\ e.txn = t.id
    /\ e.wallet = t.from /\ e.amount = t.amount /\ e.after = e.before - t.amount

IsCreditOf(e, t) ==
    /\ e.type = "CREDIT" /\ e.txn = t.id
    /\ e.wallet = t.to /\ e.amount = t.amount /\ e.after = e.before + t.amount

RowsOf(t) == {e \in ledger : e.txn = t.id}

\* Every transfer has its two ledger rows and no other, and every ledger row
\* but an opening one is of a committed transfer (README, "exactly one
\* transactions row and two ledger rows").
DoubleEntry ==
    /\ \A t \in transactions : \E d, c \in ledger :
          /\ RowsOf(t) = {d, c}
          /\ IsDebitOf(d, t) /\ IsCreditOf(c, t)
    /\ \A e \in ledger : e.type # "OPENING" => \E t \in transactions : e.txn = t.id
    /\ \A t, u \in transactions : t.id = u.id => t = u

\* What a session has drafted is half of it, then all.
DraftInv ==
    /\ \A e \in ledger : e.type = "OPENING" => e.txn = 0
    /\ \A t \in transactions : t.id # 0
    /\ \A s \in Session :
          /\ pc[s] = "credit" =>
                \E d \in entries[s] : entries[s] = {d} /\ IsDebitOf(d, TransactionRow(s))
          /\ pc[s] = "commit" =>
                \E d, c \in entries[s] :
                    /\ entries[s] = {d, c}
                    /\ IsDebitOf(d, TransactionRow(s)) /\ IsCreditOf(c, TransactionRow(s))

\* No step breaks double entry: the drafts of a session become rows all at once.
LEMMA DoubleEntryStep ==
  IInv /\ DoubleEntry /\ DraftInv /\ [Next]_vars => DoubleEntry' /\ DraftInv'
<1> SUFFICES ASSUME IInv, DoubleEntry, DraftInv, [Next]_vars
             PROVE  DoubleEntry' /\ DraftInv'
  OBVIOUS
<1> USE ConstantsAssumption
<1>a. /\ pc \in [Session -> Location] /\ call \in [Session -> CallType \union {NoCall}]
      /\ entries \in [Session -> SUBSET LedgerRowType]
  BY DEF IInv, TypeOK
<1>1. ASSUME UNCHANGED <<transactions, ledger>>
      PROVE  /\ DoubleEntry'
             /\ \A e \in ledger' : e.type = "OPENING" => e.txn = 0
             /\ \A t \in transactions' : t.id # 0
  BY <1>1 DEF DoubleEntry, DraftInv, RowsOf, IsDebitOf, IsCreditOf
<1>2. ASSUME NEW s \in Session, UNCHANGED <<transactions, ledger>>,
             \A r \in Session \ {s} : /\ pc'[r] = pc[r] /\ call'[r] = call[r]
                                      /\ entries'[r] = entries[r],
             pc'[s] \notin {"credit", "commit"}
      PROVE  DoubleEntry' /\ DraftInv'
  BY <1>1, <1>2 DEF DraftInv, IsDebitOf, IsCreditOf, TransactionRow
<1>3. ASSUME NEW u \in User, NEW b \in Opening, OpenWallet(u, b)
      PROVE  DoubleEntry' /\ DraftInv'
  <2> DEFINE row == LedgerRow(nextLedgerId, u, "OPENING", 0, 0, b, now + 1)
             new == ledger' \ ledger
  <2>1. UNCHANGED <<transactions, pc, call, entries>>
    BY <1>3 DEF OpenWallet, work
  <2>2. ledger' = ledger \union new
    <3>1. ledger' = ledger \union {row} \/ ledger' = ledger
      BY <1>3 DEF OpenWallet
    <3> QED
      BY <3>1
  <2>3. \A e \in new : e.type = "OPENING" /\ e.txn = 0
    <3>1. new \subseteq {row}
      BY <1>3 DEF OpenWallet
    <3>2. row.type = "OPENING" /\ row.txn = 0
      BY DEF LedgerRow
    <3> HIDE DEF row, new
    <3> QED
      BY <3>1, <3>2
  <2> HIDE DEF new
  <2>4. \A t \in transactions : {e \in ledger' : e.txn = t.id} = RowsOf(t)
    BY <2>2, <2>3 DEF RowsOf, DraftInv
  <2>5. DoubleEntry'
    BY <2>1, <2>2, <2>3, <2>4 DEF DoubleEntry, RowsOf, IsDebitOf, IsCreditOf
  <2>6. DraftInv'
    BY <2>1, <2>2, <2>3 DEF DraftInv, IsDebitOf, IsCreditOf, TransactionRow
  <2> QED
    BY <2>5, <2>6
<1>4. ASSUME NEW s \in Session, NEW from \in User, NEW to \in User,
             NEW amount \in Amount, Call(s, from, to, amount)
      PROVE  DoubleEntry' /\ DraftInv'
  BY <1>2, <1>4, <1>a DEF Call, FirstStep, database, work
<1>5. ASSUME NEW s \in Session,
             SelectRows(s) \/ (\E u \in User : LockRow(s, u)) \/ Check(s)
      PROVE  DoubleEntry' /\ DraftInv'
  BY <1>2, <1>5, <1>a DEF SelectRows, LockRow, Check, Verdict, database, work
<1>6. ASSUME NEW s \in Session, Finish(s), UNCHANGED database
      PROVE  DoubleEntry' /\ DraftInv'
  BY <1>2, <1>6, <1>a DEF Finish, database
<1>7. ASSUME NEW s \in Session, Debit(s) PROVE DoubleEntry' /\ DraftInv'
  <2> DEFINE from == call[s].from
             row == LedgerRow(nextLedgerId, from, "DEBIT", call[s].startedAt, balance[from],
                              balance[from] - call[s].amount, call[s].startedAt)
  <2>1. /\ call[s].amount \in Nat \ {0} /\ balance[from] \in Nat
        /\ call[s].amount <= balance[from]
    BY <1>7, WritingHoldsBoth DEF Debit, Writing
  <2>2. IsDebitOf(row, TransactionRow(s))
    BY <2>1 DEF IsDebitOf, TransactionRow, LedgerRow
  <2>3. entries[s] = {}
    BY <1>7 DEF IInv, EntriesInv, Debit
  <2>4. /\ pc' = [pc EXCEPT ![s] = "credit"] /\ entries' = [entries EXCEPT ![s] = @ \union {row}]
        /\ UNCHANGED <<transactions, ledger, call>>
    BY <1>7, <2>1 DEF Debit, database
  <2> HIDE DEF row
  <2>5. DraftInv'
    BY <1>1, <1>a, <2>2, <2>3, <2>4 DEF DraftInv, IsDebitOf, IsCreditOf, TransactionRow
  <2> QED
    BY <1>1, <2>4, <2>5
<1>8. ASSUME NEW s \in Session, Credit(s) PROVE DoubleEntry' /\ DraftInv'
  <2> DEFINE to == call[s].to
             row == LedgerRow(nextLedgerId, to, "CREDIT", call[s].startedAt, balance[to],
                              balance[to] + call[s].amount, call[s].startedAt)
  <2>1. call[s].amount \in Nat \ {0} /\ balance[to] \in Nat
    BY <1>8, WritingHoldsBoth DEF Credit, Writing
  <2>2. IsCreditOf(row, TransactionRow(s))
    BY <2>1 DEF IsCreditOf, TransactionRow, LedgerRow
  <2>3. PICK d \in entries[s] : entries[s] = {d} /\ IsDebitOf(d, TransactionRow(s))
    BY <1>8 DEF DraftInv, Credit
  <2>4. /\ pc' = [pc EXCEPT ![s] = "commit"] /\ entries' = [entries EXCEPT ![s] = @ \union {row}]
        /\ UNCHANGED <<transactions, ledger, call>>
    BY <1>8 DEF Credit, database
  <2> HIDE DEF row
  <2>5. entries'[s] = {d, row} /\ UNCHANGED TransactionRow(s)
    BY <1>a, <2>3, <2>4 DEF TransactionRow
  <2>6. DraftInv'
    BY <1>1, <1>a, <2>2, <2>3, <2>4, <2>5 DEF DraftInv, IsDebitOf, IsCreditOf, TransactionRow
  <2> QED
    BY <1>1, <2>4, <2>6
<1>9. ASSUME NEW s \in Session, Commit(s) PROVE DoubleEntry' /\ DraftInv'
  <2> DEFINE new == TransactionRow(s)
  <2>1. PICK d \in entries[s], c \in entries[s] :
           entries[s] = {d, c} /\ IsDebitOf(d, new) /\ IsCreditOf(c, new)
    BY <1>9 DEF DraftInv, Commit
  <2>2. /\ transactions' = transactions \union {new}
        /\ ledger' = ledger \union {d, c}
    BY <1>9, <2>1 DEF Commit
  <2>3. /\ new.id = call[s].startedAt /\ new.id # 0
        /\ \A t \in transactions : t.id # new.id
    BY <1>9 DEF IInv, IdentityInv, CallInv, TypeOK, TransactionRow, Commit
  <2>4. d.txn = new.id /\ c.txn = new.id /\ d.type # "OPENING" /\ c.type # "OPENING"
    BY <2>1 DEF IsDebitOf, IsCreditOf
  <2> HIDE DEF new
  <2>5. {e \in ledger' : e.txn = new.id} = {d, c}
    <3>1. \A e \in ledger : e.txn # new.id
      BY <2>3 DEF DoubleEntry, DraftInv
    <3> QED
      BY <2>2, <2>4, <3>1
  <2>6. \A t \in transactions : {e \in ledger' : e.txn = t.id} = RowsOf(t)
    BY <2>2, <2>3, <2>4 DEF RowsOf
  <2>7. \A t \in transactions' : \E x, y \in ledger' :
           {e \in ledger' : e.txn = t.id} = {x, y} /\ IsDebitOf(x, t) /\ IsCreditOf(y, t)
    <3>1. ASSUME NEW t \in transactions
          PROVE  \E x, y \in ledger' :
                    {e \in ledger' : e.txn = t.id} = {x, y} /\ IsDebitOf(x, t) /\ IsCreditOf(y, t)
      <4>1. PICK x \in ledger, y \in ledger :
               RowsOf(t) = {x, y} /\ IsDebitOf(x, t) /\ IsCreditOf(y, t)
        BY DEF DoubleEntry
      <4> QED
        BY <2>2, <2>6, <4>1
    <3> QED
      BY <2>1, <2>2, <2>5, <3>1
  <2>8. /\ \A e \in ledger' : e.type # "OPENING" => \E t \in transactions' : e.txn = t.id
        /\ \A t, u \in transactions' : t.id = u.id => t = u
    BY <2>2, <2>3, <2>4 DEF DoubleEntry
  <2>9. DoubleEntry'
    BY <2>7, <2>8 DEF DoubleEntry, RowsOf, IsDebitOf, IsCreditOf
  <2>10. DraftInv'
    <3>1. \A r \in Session \ {s} : /\ pc'[r] = pc[r] /\ call'[r] = call[r]
                                   /\ entries'[r] = entries[r]
      BY <1>9, <1>a DEF Commit, Finish
    <3>2. pc'[s] = "idle"
      BY <1>9, <1>a DEF Commit, Finish
    <3> QED
      BY <2>2, <2>3, <2>4, <3>1, <3>2 DEF DraftInv, IsDebitOf, IsCreditOf, TransactionRow
  <2> QED
    BY <2>9, <2>10
<1>10. CASE UNCHANGED vars
  BY <1>1, <1>10 DEF vars, database, work, DraftInv, IsDebitOf, IsCreditOf, TransactionRow
<1> QED
  BY <1>3, <1>4, <1>5, <1>6, <1>7, <1>8, <1>9, <1>10 DEF Next, Step, Rollback, Abort

\* Double entry holds for any number of transfers side by side, refused, or cut
\* off in the middle (transfer.test.js:213 counts two rows for each of twenty).
THEOREM DoubleEntryTheorem == Spec => []DoubleEntry
<1>1. Init => DoubleEntry /\ DraftInv
  BY DEF Init, NoSessionActive, DoubleEntry, DraftInv
<1>2. IInv /\ DoubleEntry /\ DraftInv /\ [Next]_vars => DoubleEntry' /\ DraftInv'
  BY DoubleEntryStep
<1> QED
  BY <1>1, <1>2, Invariant, PTL DEF Spec

-----------------------------------------------------------------------------
\* The book of balances.

\* A step that publishes nothing is a stutter of the book.
LEMMA DraftsStutter == UNCHANGED database => UNCHANGED Book!vars
  BY DEF database, Book!vars

\* A wallet is opened in the book as it is in the database.
LEMMA OpenWalletImplements ==
  ASSUME IInv, NEW u \in User, NEW b \in Opening, OpenWallet(u, b)
  PROVE  Book!Open(u, b)
<1> USE ConstantsAssumption DEF OpenWallet, database
<1>1. UNCHANGED transactions
  OBVIOUS
<1>2. {v \in User : walletId'[v] # 0} = {v \in User : walletId[v] # 0} \union {u}
  <2>1. walletId \in [User -> Nat] /\ now + 1 # 0
    BY DEF IInv, TypeOK
  <2> QED
    BY <2>1
<1> QED
  BY <1>1, <1>2 DEF Book!Open

\* A commit is the whole transfer, and the book allows it.
LEMMA CommitImplements ==
  ASSUME IInv, NEW s \in Session, Commit(s)
  PROVE  \E id \in 1 .. MaxNow, from, to \in User, amount \in Amount :
            Book!Transfer(id, from, to, amount)
<1> USE ConstantsAssumption DEF Commit
<1>1. PICK id \in 1 .. MaxNow, from \in User, to \in User, amount \in Amount :
         /\ id = call[s].startedAt /\ from = call[s].from
         /\ to = call[s].to /\ amount = call[s].amount
  <2>1. call[s] \in CallType /\ call[s].amount \in Amount /\ call[s].startedAt \in 1 .. now
    BY DEF IInv, CallInv
  <2>2. now \in Nat /\ MaxNow \in Nat /\ now <= MaxNow
    BY DEF IInv, IdentityInv, TypeOK
  <2> QED
    BY <2>1, <2>2 DEF CallType
<1>2. from # to /\ amount \in Nat \ {0} /\ 0 < amount /\ amount <= balance[from]
  BY <1>1, WritingHoldsBoth DEF Writing
<1>3. {from, to} \subseteq {u \in User : walletId[u] # 0}
  BY <1>1 DEF IInv, LockInv, Writing
<1>4. balance' = [balance EXCEPT ![from] = @ - amount, ![to] = @ + amount]
  BY <1>1, <1>2 DEF IInv, ReadInv, TypeOK
<1> DEFINE Shown(T) == {[id |-> t.id, from |-> t.from, to |-> t.to,
                         amount |-> t.amount] : t \in T}
<1>5. Shown(transactions') = Shown(transactions) \union
         {[id |-> id, from |-> from, to |-> to, amount |-> amount]}
  <2>1. /\ TransactionRow(s).id = id /\ TransactionRow(s).from = from
        /\ TransactionRow(s).to = to /\ TransactionRow(s).amount = amount
    BY <1>1 DEF TransactionRow
  <2>2. transactions' = transactions \union {TransactionRow(s)}
    OBVIOUS
  <2> HIDE DEF Commit
  <2> QED
    BY <2>1, <2>2
<1>6. \A t \in Shown(transactions) : t.id # id
  BY <1>1 DEF IInv, IdentityInv
<1>7. UNCHANGED {u \in User : walletId[u] # 0}
  OBVIOUS
<1> HIDE DEF Commit
<1>8. Book!Transfer(id, from, to, amount)
  BY <1>2, <1>3, <1>4, <1>5, <1>6, <1>7 DEF Book!Transfer
<1> QED
  BY <1>8

\* Concurrent sessions with row locks implement the book of balances, in
\* which every transfer is indivisible and covered.
THEOREM BookTheorem == Spec => ImplementsBook
<1>1. Init => Book!Init
  BY DEF Init, Book!Init
<1>2. IInv /\ [Next]_vars => [Book!Next]_Book!vars
  <2> SUFFICES ASSUME IInv, [Next]_vars PROVE [Book!Next]_Book!vars
    OBVIOUS
  <2>1. ASSUME NEW u \in User, NEW b \in Opening, OpenWallet(u, b)
        PROVE  Book!Next
    BY <2>1, OpenWalletImplements DEF Book!Next
  <2>2. ASSUME NEW s \in Session, Commit(s)
        PROVE  Book!Next
    BY <2>2, CommitImplements DEF Book!Next
  <2>3. ASSUME NEW s \in Session, Step(s), ~ Commit(s)
        PROVE  UNCHANGED database
    BY <2>3 DEF Step, SelectRows, LockRow, Check, Debit, Credit, Rollback
  <2>4. ASSUME NEW s \in Session, NEW from \in User, NEW to \in User,
               NEW amount \in Amount, Call(s, from, to, amount)
        PROVE  UNCHANGED database
    BY <2>4 DEF Call
  <2>5. ASSUME NEW s \in Session, Abort(s)
        PROVE  UNCHANGED database
    BY <2>5 DEF Abort
  <2>6. CASE UNCHANGED vars
    BY <2>6, DraftsStutter DEF vars
  <2> QED
    BY <2>1, <2>2, <2>3, <2>4, <2>5, <2>6, DraftsStutter DEF Next
<1> QED
  BY <1>1, <1>2, Invariant, PTL DEF Spec, ImplementsBook, Book!Spec

-----------------------------------------------------------------------------
\* Deadlock freedom.

\* Wallet ids are never shared.
WalletIdInv ==
    \A u \in User : /\ walletId[u] <= now
                    /\ \A v \in User \ {u} : walletId[u] = walletId[v] => walletId[u] = 0

\* A session holds the rows of its snapshot with the least ids.
OrderInv ==
    \A s \in Session : \A u \in rows[s] : \A v \in Unlocked(s) :
        rowLock[u] = s => walletId[u] < walletId[v]

\* No step breaks the order in which rows are locked.
LEMMA OrderStep ==
  IInv /\ WalletIdInv /\ OrderInv /\ [Next]_vars => WalletIdInv' /\ OrderInv'
<1> SUFFICES ASSUME IInv, WalletIdInv, OrderInv, [Next]_vars
             PROVE  WalletIdInv' /\ OrderInv'
  OBVIOUS
<1>a. walletId \in [User -> Nat] /\ now \in Nat
  BY DEF IInv, TypeOK
<1>1. WalletIdInv'
  <2>1. CASE UNCHANGED walletId /\ (now' = now \/ now' = now + 1)
    BY <1>a, <2>1 DEF WalletIdInv
  <2>2. ASSUME NEW u \in User, NEW b \in Opening, OpenWallet(u, b)
        PROVE  WalletIdInv'
    BY <1>a, <2>2 DEF WalletIdInv, OpenWallet
  <2> QED
    BY <2>1, <2>2 DEF Next, Step, Call, SelectRows, LockRow, Check, Debit, Credit,
                      Commit, Rollback, Abort, vars, database
<1>2. OrderInv'
  <2>1. CASE UNCHANGED <<walletId, rows, rowLock>>
    BY <2>1 DEF OrderInv, Unlocked
  <2>2. ASSUME NEW u \in User, NEW b \in Opening, OpenWallet(u, b)
        PROVE  OrderInv'
    BY <1>a, <2>2 DEF OrderInv, Unlocked, OpenWallet, work, IInv, LockInv, TypeOK
  <2>3. ASSUME NEW s \in Session, SelectRows(s)
        PROVE  OrderInv'
    <3>1. \A u \in User : rowLock[u] # s
      BY <2>3 DEF SelectRows, IInv, LockInv
    <3>2. /\ UNCHANGED <<walletId, rowLock>>
          /\ \A r \in Session \ {s} : rows'[r] = rows[r]
          /\ rows'[s] \subseteq User
      BY <2>3 DEF SelectRows, database, IInv, TypeOK, CallInv, CallType
    <3> QED
      BY <3>1, <3>2 DEF OrderInv, Unlocked
  <2>4. ASSUME NEW s \in Session, NEW u \in User, LockRow(s, u)
        PROVE  OrderInv'
    <3>1. /\ rowLock' = [rowLock EXCEPT ![u] = s] /\ rowLock[u] = Nobody
          /\ UNCHANGED <<walletId, rows>>
          /\ u \in Unlocked(s) /\ \A v \in Unlocked(s) : walletId[u] <= walletId[v]
      BY <2>4 DEF LockRow, RowIsFree, IsNextRow, database
    <3> QED
      BY <1>a, <3>1, ConstantsAssumption
         DEF OrderInv, WalletIdInv, Unlocked, IInv, LockInv, TypeOK
  <2>5. ASSUME NEW s \in Session, Finish(s), UNCHANGED walletId
        PROVE  OrderInv'
    BY <2>5, ConstantsAssumption
       DEF OrderInv, Unlocked, Finish, ReleaseLocks, IInv, TypeOK
  <2> QED
    BY <2>1, <2>2, <2>3, <2>4, <2>5
       DEF Next, Step, Call, Check, Debit, Credit, Commit, Rollback, Abort,
           vars, database, work
<1> QED
  BY <1>1, <1>2

\* A session that another waits for waits, if at all, for a row of a greater id.
LEMMA WaitsUpwards ==
  ASSUME IInv, OrderInv, NEW s \in Session, NEW t \in Session, NEW u \in User,
         IsNextRow(s, u), rowLock[u] = t, NEW v \in User, IsNextRow(t, v)
  PROVE  walletId[u] < walletId[v]
  BY DEF IInv, LockInv, OrderInv, IsNextRow

\* In every group of sessions one waits for none of the group: the session
\* awaited at the row of the greatest id waits for nobody in it.
LEMMA OrderPreventsDeadlock == IInv /\ WalletIdInv /\ OrderInv => NoDeadlock
<1> SUFFICES ASSUME IInv, WalletIdInv, OrderInv,
                    NEW D \in SUBSET Session, D # {},
                    \A s \in D : \E t \in D : WaitsFor(s, t)
             PROVE  FALSE
  BY DEF NoDeadlock
<1> DEFINE Awaited == {u \in User : rowLock[u] \in D /\ \E s \in D : IsNextRow(s, u)}
           Depth == {now - walletId[u] : u \in Awaited}
<1>1. \A s \in D : \E u \in Awaited : IsNextRow(s, u)
  BY DEF WaitsFor
<1>2. Depth \subseteq Nat
  BY DEF WalletIdInv, IInv, TypeOK
<1>3. Depth # {}
  BY <1>1
<1>4. PICK d \in Depth : \A e \in Depth : ~ (<<e, d>> \in OpToRel(<, Nat))
  BY <1>2, <1>3, WFMin, NatLessThanWellFounded
<1>5. PICK u \in Awaited : d = now - walletId[u]
  BY <1>4
<1>6. PICK v \in Awaited : IsNextRow(rowLock[u], v)
  BY <1>1
<1>7. walletId[u] < walletId[v]
  BY <1>6, WaitsUpwards
<1>8. now - walletId[v] \in Depth /\ now - walletId[v] < d
  BY <1>5, <1>7 DEF IInv, TypeOK
<1> QED
  BY <1>2, <1>4, <1>8 DEF OpToRel

\* Row locks taken in wallet id order never deadlock, however many sessions
\* transfer between however many wallets.
THEOREM NoDeadlockTheorem == Spec => []NoDeadlock
<1>1. Init => WalletIdInv /\ OrderInv
  BY DEF Init, NoSessionActive, WalletIdInv, OrderInv
<1>2. IInv /\ WalletIdInv /\ OrderInv /\ [Next]_vars => WalletIdInv' /\ OrderInv'
  BY OrderStep
<1>3. IInv /\ WalletIdInv /\ OrderInv => NoDeadlock
  BY OrderPreventsDeadlock
<1> QED
  BY <1>1, <1>2, <1>3, Invariant, PTL DEF Spec

-----------------------------------------------------------------------------
\* Progress: what CallEnds rests on besides fairness.

Wants(s, u) == IF u \in Unlocked(s) THEN 1 ELSE 0

\* How many steps a CALL has before it at most.
StepsLeft(s) ==
    CASE pc[s] = "idle"                         -> 0
      [] pc[s] \in Error \union {"commit"}      -> 1
      [] pc[s] = "credit"                       -> 2
      [] pc[s] = "debit"                        -> 3
      [] pc[s] = "check"                        -> 4
      [] pc[s] = "lock"   -> 4 + Wants(s, call[s].from) + Wants(s, call[s].to)
      [] pc[s] = "select"                       -> 7

\* Session s has a statement to run that waits for nobody.
Runs(s) ==
    /\ pc[s] # "idle"
    /\ pc[s] = "lock" => \E u \in User : IsNextRow(s, u) /\ RowIsFree(u)

\* While a CALL is under way, one of those under way need not wait.
SomeoneRuns == (\E s \in Session : pc[s] # "idle") => \E s \in Session : Runs(s)

\* A CALL gets nearer to its end with every step of its own, and nothing that
\* other sessions do takes it back.
CallsShorten ==
    \A s \in Session :
        /\ Step(s) => StepsLeft(s)' < StepsLeft(s)
        /\ pc[s] # "idle" => StepsLeft(s)' <= StepsLeft(s)

\* A session at FOR UPDATE has a row to lock.
WaitInv == \A s \in Session : pc[s] = "lock" => Unlocked(s) # {}

LEMMA WaitStep == IInv /\ WaitInv /\ [Next]_vars => WaitInv'
<1> SUFFICES ASSUME IInv, WaitInv, [Next]_vars PROVE WaitInv'
  OBVIOUS
<1>a. /\ pc \in [Session -> Location] /\ rows \in [Session -> SUBSET User]
      /\ rowLock \in [User -> Session \union {Nobody}]
  BY DEF IInv, TypeOK
<1>1. ASSUME NEW s \in Session, UNCHANGED <<rows, rowLock>>, pc'[s] # "lock",
             \A r \in Session \ {s} : pc'[r] = pc[r]
      PROVE  WaitInv'
  BY <1>1 DEF WaitInv, Unlocked
<1>2. ASSUME NEW s \in Session, SelectRows(s) PROVE WaitInv'
  <2>1. /\ \A r \in Session \ {s} : pc'[r] = pc[r] /\ rows'[r] = rows[r]
        /\ rowLock' = rowLock /\ (pc'[s] = "lock" => rows'[s] # {})
    BY <1>2, <1>a DEF SelectRows
  <2>2. \A u \in User : rowLock[u] # s
    BY <1>2 DEF SelectRows, IInv, LockInv
  <2>3. rows'[s] \subseteq User
    BY <1>2, <1>a DEF SelectRows, IInv, CallInv, CallType
  <2> QED
    BY <2>1, <2>2, <2>3 DEF WaitInv, Unlocked
<1>3. ASSUME NEW s \in Session, NEW u \in User, LockRow(s, u) PROVE WaitInv'
  <2>1. /\ rows' = rows /\ \A r \in Session \ {s} : pc'[r] = pc[r]
        /\ rowLock' = [rowLock EXCEPT ![u] = s] /\ rowLock[u] = Nobody
        /\ u \in Unlocked(s) /\ (pc'[s] = "lock" => Unlocked(s) # {u})
    BY <1>3, <1>a DEF LockRow, RowIsFree, IsNextRow
  <2>2. \A r \in Session \ {s} : Unlocked(r) \subseteq Unlocked(r)'
    BY <1>a, <2>1 DEF Unlocked
  <2>3. Unlocked(s) \ {u} \subseteq Unlocked(s)'
    BY <1>a, <2>1 DEF Unlocked
  <2> QED
    BY <2>1, <2>2, <2>3 DEF WaitInv
<1>4. ASSUME NEW s \in Session, Finish(s) PROVE WaitInv'
  <2>1. /\ pc'[s] = "idle"
        /\ \A r \in Session \ {s} : pc'[r] = pc[r] /\ rows'[r] = rows[r]
        /\ \A u \in User : rowLock'[u] \in {rowLock[u], Nobody}
    BY <1>4, <1>a DEF Finish, ReleaseLocks, IInv, TypeOK
  <2>2. \A r \in Session \ {s} : Unlocked(r) \subseteq Unlocked(r)'
    BY <1>a, <2>1, ConstantsAssumption DEF Unlocked
  <2> QED
    BY <2>1, <2>2 DEF WaitInv
<1>5. ASSUME NEW s \in Session, NEW from \in User, NEW to \in User,
             NEW amount \in Amount, Call(s, from, to, amount)
      PROVE  WaitInv'
  BY <1>1, <1>5, <1>a DEF Call, FirstStep, work
<1>6. ASSUME NEW s \in Session, Check(s) \/ Debit(s) \/ Credit(s) PROVE WaitInv'
  BY <1>1, <1>6, <1>a DEF Check, Verdict, Debit, Credit, work
<1>7. CASE UNCHANGED <<pc, rows, rowLock>>
  BY <1>7 DEF WaitInv, Unlocked
<1> QED
  BY <1>2, <1>3, <1>4, <1>5, <1>6, <1>7
     DEF Next, Step, Commit, Rollback, Abort, OpenWallet, vars, work

\* Where nobody waits in a circle, somebody does not wait.
LEMMA NoDeadlockMeansProgress == IInv /\ WaitInv /\ NoDeadlock => SomeoneRuns
<1> SUFFICES ASSUME IInv, WaitInv, NEW s0 \in Session, pc[s0] # "idle",
                    \A s \in Session : ~Runs(s)
             PROVE  ~NoDeadlock
  BY DEF SomeoneRuns
<1> DEFINE D == {s \in Session : pc[s] # "idle"}
<1>1. ASSUME NEW s \in D PROVE \E t \in D : WaitsFor(s, t)
  <2>1. pc[s] = "lock" /\ \A u \in User : IsNextRow(s, u) => ~RowIsFree(u)
    BY DEF Runs
  <2>2. Unlocked(s) # {} /\ Unlocked(s) \subseteq {call[s].from, call[s].to}
        /\ Unlocked(s) \subseteq User
    BY <2>1 DEF IInv, LockInv, WaitInv, TypeOK, Unlocked
  <2>3. \A u \in User : walletId[u] \in Nat
    BY DEF IInv, TypeOK
  <2>4. PICK u \in User : IsNextRow(s, u)
    BY <2>2, <2>3 DEF IsNextRow
  <2>5. /\ rowLock[u] # s /\ rowLock[u] \in Session
    BY <2>1, <2>4 DEF RowIsFree, IsNextRow, Unlocked, IInv, TypeOK
  <2>6. rowLock[u] \in D
    BY <2>5 DEF IInv, LockInv, Started
  <2> QED
    BY <2>1, <2>4, <2>5, <2>6 DEF WaitsFor
<1> QED
  BY <1>1 DEF NoDeadlock

\* No group of sessions, however large, comes to a halt: there is always one
\* that can go on.
THEOREM ProgressTheorem == Spec => []SomeoneRuns
<1>1. Init => WaitInv
  BY DEF Init, NoSessionActive, WaitInv
<1>2. IInv /\ WaitInv /\ [Next]_vars => WaitInv'
  BY WaitStep
<1>3. IInv /\ WaitInv /\ NoDeadlock => SomeoneRuns
  BY NoDeadlockMeansProgress
<1> QED
  BY <1>1, <1>2, <1>3, Invariant, NoDeadlockTheorem, PTL DEF Spec

\* What a session has left is a matter of its place and of the rows it holds.
LEMMA SameStepsLeft ==
  ASSUME NEW s \in Session, pc'[s] = pc[s], call'[s] = call[s], Unlocked(s)' = Unlocked(s)
  PROVE  StepsLeft(s)' = StepsLeft(s)
BY DEF StepsLeft, Wants

\* The steps of one session leave those of the others as they are.
LEMMA OthersStepsLeft ==
  ASSUME IInv, NEW s \in Session, NEW r \in Session \ {s},
         \/ Step(s) \/ Abort(s)
         \/ \E from, to \in User, amount \in Amount : Call(s, from, to, amount)
  PROVE  StepsLeft(r)' = StepsLeft(r)
<1>a. /\ pc \in [Session -> Location] /\ call \in [Session -> CallType \union {NoCall}]
      /\ rows \in [Session -> SUBSET User] /\ rowLock \in [User -> Session \union {Nobody}]
  BY DEF IInv, TypeOK
<1>1. pc'[r] = pc[r] /\ call'[r] = call[r] /\ rows'[r] = rows[r]
  BY <1>a DEF Step, SelectRows, LockRow, Check, Debit, Credit, Commit, Rollback, Abort, Call,
              Finish, work, database
<1>2. \A u \in User : (rowLock'[u] = r) <=> (rowLock[u] = r)
  BY <1>a, ConstantsAssumption
     DEF Step, SelectRows, LockRow, RowIsFree, Check, Debit, Credit, Commit, Rollback, Abort,
         Call, Finish, ReleaseLocks, work, database
<1> QED
  BY <1>a, <1>1, <1>2, SameStepsLeft DEF Unlocked

\* A step of a session shortens its CALL.
LEMMA OwnStepsLeft ==
  ASSUME IInv, WaitInv, NEW s \in Session, Step(s)
  PROVE  StepsLeft(s)' < StepsLeft(s)
<1>a. /\ pc \in [Session -> Location] /\ call \in [Session -> CallType \union {NoCall}]
      /\ rows \in [Session -> SUBSET User] /\ rowLock \in [User -> Session \union {Nobody}]
  BY DEF IInv, TypeOK
<1>b. \A u : Wants(s, u) \in {0, 1} /\ Wants(s, u)' \in {0, 1}
  BY DEF Wants
<1>1. CASE SelectRows(s)
  <2>1. pc[s] = "select" /\ pc'[s] \in {"lock", "check"}
    BY <1>1, <1>a DEF SelectRows
  <2>2. StepsLeft(s) = 7 /\ StepsLeft(s)' \in 4 .. 6
    BY <1>b, <2>1 DEF StepsLeft, Error
  <2> QED
    BY <2>2
<1>2. ASSUME NEW u \in User, LockRow(s, u) PROVE StepsLeft(s)' < StepsLeft(s)
  <2>1. /\ pc[s] = "lock" /\ call' = call /\ rows' = rows
        /\ rowLock' = [rowLock EXCEPT ![u] = s] /\ u \in Unlocked(s)
        /\ pc'[s] = IF Unlocked(s) = {u} THEN "check" ELSE "lock"
    BY <1>2, <1>a DEF LockRow, IsNextRow
  <2>2. Unlocked(s)' = Unlocked(s) \ {u}
    BY <1>a, <2>1 DEF Unlocked
  <2>3. u \in {call[s].from, call[s].to}
    BY <2>1 DEF Unlocked, IInv, LockInv
  <2>4. call[s].from # call[s].to
    BY <2>1 DEF IInv, CallInv, Started, Location, Error
  <2>5. /\ Wants(s, u) = 1 /\ Wants(s, u)' = 0
        /\ \A v : v # u => Wants(s, v)' = Wants(s, v)
    BY <2>1, <2>2 DEF Wants
  <2>6. Wants(s, call[s].from)' + Wants(s, call[s].to)'
          < Wants(s, call[s].from) + Wants(s, call[s].to)
    <3>1. ASSUME NEW v, NEW w, v # w, u \in {v, w}
          PROVE  Wants(s, v)' + Wants(s, w)' < Wants(s, v) + Wants(s, w)
      BY <1>b, <2>5, <3>1
    <3>2. call'[s] = call[s]
      BY <2>1
    <3> QED
      BY <2>3, <2>4, <3>1, <3>2
  <2>7. StepsLeft(s) = 4 + Wants(s, call[s].from) + Wants(s, call[s].to)
    BY <2>1 DEF StepsLeft, Error
  <2>8. CASE pc'[s] = "check"
    <3>1. StepsLeft(s)' = 4
      BY <2>8 DEF StepsLeft, Error
    <3> QED
      BY <1>b, <2>3, <2>5, <2>7, <3>1
  <2>9. CASE pc'[s] = "lock"
    <3>1. StepsLeft(s)' = 4 + Wants(s, call[s].from)' + Wants(s, call[s].to)'
      BY <2>1, <2>9 DEF StepsLeft, Error
    <3> QED
      BY <1>b, <2>6, <2>7, <3>1
  <2> QED
    BY <2>1, <2>8, <2>9
<1>3. CASE Check(s) \/ Debit(s) \/ Credit(s) \/ Commit(s) \/ Rollback(s)
  BY <1>3, <1>a DEF StepsLeft, Check, Verdict, Debit, Credit, Commit, Rollback, Finish, Error
<1> QED
  BY <1>1, <1>2, <1>3 DEF Step

\* A CALL takes seven steps at most, and no other session makes it start over:
\* with a row lock that is waited for rather than given up on, it ends.
THEOREM CallsShortenTheorem == Spec => [][CallsShorten]_vars
<1>1. Init => WaitInv
  BY DEF Init, NoSessionActive, WaitInv
<1>2. IInv /\ WaitInv /\ [Next]_vars => WaitInv'
  BY WaitStep
<1>3. IInv /\ WaitInv /\ [Next]_vars => [CallsShorten]_vars
  <2> SUFFICES ASSUME IInv, WaitInv, Next, NEW s \in Session
               PROVE  /\ Step(s) => StepsLeft(s)' < StepsLeft(s)
                      /\ pc[s] # "idle" => StepsLeft(s)' <= StepsLeft(s)
    BY DEF CallsShorten
  <2>0. StepsLeft(s) \in Nat /\ StepsLeft(s)' \in Nat
    <3>1. pc[s] \in Location /\ pc'[s] \in Location
      BY NextInvariant DEF IInv, TypeOK
    <3> QED
      BY <3>1 DEF StepsLeft, Wants, Location
  <2>1. Step(s) => StepsLeft(s)' < StepsLeft(s)
    BY OwnStepsLeft
  <2>2. ASSUME NEW u \in User, NEW b \in Opening, OpenWallet(u, b)
        PROVE  StepsLeft(s)' = StepsLeft(s)
    BY <2>2, SameStepsLeft DEF OpenWallet, work, Unlocked
  <2>3. ASSUME NEW r \in Session, r # s, Step(r) \/ Abort(r)
        PROVE  StepsLeft(s)' = StepsLeft(s)
    BY <2>3, OthersStepsLeft
  <2>4. ASSUME NEW r \in Session, r # s, NEW from \in User, NEW to \in User,
               NEW amount \in Amount, Call(r, from, to, amount)
        PROVE  StepsLeft(s)' = StepsLeft(s)
    BY <2>4, OthersStepsLeft
  <2>5. ASSUME NEW from \in User, NEW to \in User, NEW amount \in Amount,
               Call(s, from, to, amount)
        PROVE  pc[s] = "idle"
    BY <2>5 DEF Call
  <2>6. ASSUME Abort(s) PROVE StepsLeft(s)' = 0
    <3>1. pc'[s] = "idle"
      BY <2>6 DEF Abort, Finish, IInv, TypeOK
    <3> QED
      BY <3>1 DEF StepsLeft, Error
  <2>7. pc[s] # "idle" => StepsLeft(s)' <= StepsLeft(s)
    BY <2>0, <2>1, <2>2, <2>3, <2>4, <2>5, <2>6 DEF Next
  <2> QED
    BY <2>1, <2>7
<1> QED
  BY <1>1, <1>2, <1>3, Invariant, PTL DEF Spec
=============================================================================
